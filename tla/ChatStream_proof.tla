-------------------------- MODULE ChatStream_proof --------------------------
(***************************************************************************)
(* What holds of a stream for any number of turns, any chunks and any      *)
(* bounds.  The first two sections do not look at what the filter returns: *)
(* the parts are in order, and what is shown is stored, whatever events    *)
(* come out of it.  The next two follow the thread and the types.  The     *)
(* fifth compares what is shown with what the models said, by the theorems *)
(* about the filter; the last counts the messages.                         *)
(***************************************************************************)
EXTENDS ChatStream, ThinkTag_proof, FiniteSetTheorems

Typed ==
    /\ gen \in [Turn -> Generator]
    /\ view \in [Turn -> View]

\* The two flags of the generator mirror the parts the client has open.
Mirrored(t) ==
    /\ gen[t].has_reasoning_start <=> "reasoning" \in view[t].open
    /\ gen[t].has_text_start <=> "text" \in view[t].open

\* A finish line closes the reasoning, and no line comes after it.
Finished(t) ==
    view[t].ended = "stop" =>
       "reasoning" \notin view[t].open /\ gen[t].pc \in {"saving", "over", "unsaved", "cancelling", "cut"}

OInv == Typed /\ \A t \in Turn : Mirrored(t) /\ Finished(t) /\ ~view[t].refused

LEMMA OrderInit == Init => OInv
  BY DEF Init, OInv, Typed, Mirrored, Finished, Idle, NoView, Generator, View, Part

\* It is enough to look at the turn that takes the step.
LEMMA OneTurn ==
    ASSUME OInv, NEW t \in Turn, NEW g \in Generator, NEW v \in View,
           gen' = [gen EXCEPT ![t] = g], view' = [view EXCEPT ![t] = v],
           g.has_reasoning_start <=> "reasoning" \in v.open,
           g.has_text_start <=> "text" \in v.open,
           v.ended = "stop" => "reasoning" \notin v.open /\ g.pc \in {"saving", "over", "unsaved", "cancelling", "cut"},
           ~v.refused
    PROVE  OInv'
<1>1. Typed'
  BY DEF OInv, Typed
<1>2. \A u \in Turn : /\ gen'[u] = IF u = t THEN g ELSE gen[u]
                      /\ view'[u] = IF u = t THEN v ELSE view[u]
  BY DEF OInv, Typed
<1> QED
  BY <1>1, <1>2 DEF OInv, Mirrored, Finished

\* What the client makes of a line.
LEMMA ViewOpened ==
    ASSUME NEW v \in View, NEW part \in Part
    PROVE  /\ Opened(v, part) \in View
           /\ Opened(v, part).open = v.open \cup {part}
           /\ Opened(v, part).refused = v.refused
           /\ Opened(v, part).ended = v.ended
  BY DEF Opened, View

LEMMA ViewClosed ==
    ASSUME NEW v \in View, NEW part \in v.open
    PROVE  /\ Closed(v, part) \in View
           /\ Closed(v, part).open = v.open \ {part}
           /\ Closed(v, part).refused = v.refused
           /\ Closed(v, part).ended = v.ended
  BY DEF Closed, View

LEMMA ViewEnded ==
    ASSUME NEW v \in View, NEW ended \in {"no", "stop", "error"}
    PROVE  /\ [v EXCEPT !.ended = ended] \in View
           /\ [v EXCEPT !.ended = ended].open = v.open
           /\ [v EXCEPT !.ended = ended].refused = v.refused
           /\ [v EXCEPT !.ended = ended].ended = ended
  BY DEF View

\* What a step of the generator leaves of its record.
LEMMA PcSet ==
    ASSUME NEW g \in Generator,
           NEW pc \in {"idle", "checked", "admitted", "streaming", "finishing",
                       "saving", "over", "unsaved", "cancelling", "cut"}
    PROVE  /\ [g EXCEPT !.pc = pc] \in Generator
           /\ [g EXCEPT !.pc = pc].pc = pc
           /\ [g EXCEPT !.pc = pc].has_text_start = g.has_text_start
           /\ [g EXCEPT !.pc = pc].has_reasoning_start = g.has_reasoning_start
  BY DEF Generator

LEMMA OrderKept == OInv /\ [Next]_vars => OInv'
<1> SUFFICES ASSUME OInv, [Next]_vars PROVE OInv'
  OBVIOUS
<1>0. \A t \in Turn : gen[t] \in Generator /\ view[t] \in View
  BY DEF OInv, Typed
<1>1. CASE UNCHANGED <<gen, view>>
  BY <1>1 DEF OInv, Typed, Mirrored, Finished
<1>2. ASSUME NEW t \in Turn,
             NEW pc \in {"idle", "checked", "admitted", "streaming", "finishing",
                         "saving", "over", "unsaved", "cancelling", "cut"},
             gen' = [gen EXCEPT ![t].pc = pc], view' = view,
             gen[t].pc \in {"saving", "over", "unsaved", "cancelling", "cut"} => pc \in {"saving", "over", "unsaved", "cancelling", "cut"}
      PROVE OInv'
  <2> DEFINE g == [gen[t] EXCEPT !.pc = pc]
  <2>1. /\ g \in Generator /\ g.pc = pc
        /\ g.has_text_start = gen[t].has_text_start
        /\ g.has_reasoning_start = gen[t].has_reasoning_start
    BY <1>0, PcSet, ZenonT(60)
  <2>2. gen' = [gen EXCEPT ![t] = g] /\ view' = [view EXCEPT ![t] = view[t]]
    BY <1>2 DEF OInv, Typed
  <2> HIDE DEF g
  <2>3. Mirrored(t) /\ Finished(t) /\ ~view[t].refused
    BY DEF OInv
  <2> QED
    BY <1>0, <1>2, <2>1, <2>2, <2>3, OneTurn, ZenonT(60) DEF Mirrored, Finished
<1>3. ASSUME NEW t \in Turn, Leave(t)
      PROVE OInv'
  <2>1. /\ Idle \in Generator /\ NoView \in View
        /\ ~Idle.has_reasoning_start /\ ~Idle.has_text_start
        /\ NoView.open = {} /\ ~NoView.refused /\ NoView.ended = "no"
    BY DEF Idle, NoView, Generator, View
  <2>2. gen' = [gen EXCEPT ![t] = Idle] /\ view' = [view EXCEPT ![t] = NoView]
    BY <1>3 DEF Leave
  <2> QED
    BY <2>1, <2>2, OneTurn
<1>4. ASSUME NEW t \in Turn, ReadCalls(t)
      PROVE OInv'
  <2> DEFINE v == Opened(view[t], "tool")
  <2>1. v \in View /\ v.open = view[t].open \cup {"tool"}
        /\ v.refused = view[t].refused /\ v.ended = view[t].ended
    BY <1>0, ViewOpened DEF Part
  <2>2. gen' = [gen EXCEPT ![t] = gen[t]] /\ view' = [view EXCEPT ![t] = v]
    BY <1>4 DEF ReadCalls, stream, OInv, Typed
  <2> HIDE DEF v
  <2> QED
    BY <1>0, <2>1, <2>2, OneTurn DEF OInv, Mirrored, Finished
<1>5. ASSUME NEW t \in Turn, ReadError(t)
      PROVE OInv'
  <2> DEFINE v == [view[t] EXCEPT !.ended = "error"]
             g == [gen[t] EXCEPT !.pc = "saving"]
  <2>1. v \in View /\ v.open = view[t].open /\ v.refused = view[t].refused
        /\ v.ended = "error"
    BY <1>0, ViewEnded
  <2>2. /\ g \in Generator
        /\ g.has_text_start = gen[t].has_text_start
        /\ g.has_reasoning_start = gen[t].has_reasoning_start
    BY <1>0, PcSet
  <2>3. gen' = [gen EXCEPT ![t] = g] /\ view' = [view EXCEPT ![t] = v]
    BY <1>5 DEF ReadError
  <2> HIDE DEF v, g
  <2> QED
    BY <1>0, <2>1, <2>2, <2>3, OneTurn DEF OInv, Mirrored
<1>6. ASSUME NEW t \in Turn, gen[t].pc \in {"streaming", "finishing"}, YieldThinking(t)
      PROVE OInv'
  <2> DEFINE v == IF gen[t].has_reasoning_start THEN view[t] ELSE Opened(view[t], "reasoning")
             g == [gen[t] EXCEPT !.has_reasoning_start = TRUE]
  <2>1. v \in View /\ v.open = view[t].open \cup {"reasoning"}
        /\ v.refused = view[t].refused /\ v.ended = view[t].ended
    BY <1>0, ViewOpened DEF Part, OInv, Mirrored
  <2>2. /\ g \in Generator /\ g.pc = gen[t].pc
        /\ g.has_text_start = gen[t].has_text_start
        /\ g.has_reasoning_start
    BY <1>0 DEF Generator
  <2>3. gen' = [gen EXCEPT ![t] = g] /\ view' = [view EXCEPT ![t] = v]
    BY <1>6, <2>1 DEF YieldThinking, Delta
  <2> HIDE DEF v, g
  <2>4. view[t].ended # "stop"
    BY <1>6 DEF OInv, Finished
  <2> QED
    BY <1>0, <2>1, <2>2, <2>3, <2>4, OneTurn DEF OInv, Mirrored
<1>7. ASSUME NEW t \in Turn, gen[t].pc \in {"streaming", "finishing"}, NEW content,
             YieldText(t, content)
      PROVE OInv'
  <2> DEFINE v == IF gen[t].has_reasoning_start THEN Closed(view[t], "reasoning") ELSE view[t]
             w == IF gen[t].has_text_start THEN v ELSE Opened(v, "text")
             g == [gen[t] EXCEPT !.has_reasoning_start = FALSE, !.has_text_start = TRUE]
  <2>1. v \in View /\ v.open = view[t].open \ {"reasoning"}
        /\ v.refused = view[t].refused /\ v.ended = view[t].ended
    BY <1>0, ViewClosed DEF OInv, Mirrored
  <2> HIDE DEF v
  <2>2. w \in View /\ w.open = (view[t].open \ {"reasoning"}) \cup {"text"}
        /\ w.refused = view[t].refused /\ w.ended = view[t].ended
    BY <2>1, ViewOpened DEF Part, OInv, Mirrored
  <2>3. /\ g \in Generator /\ g.pc = gen[t].pc
        /\ g.has_text_start /\ ~g.has_reasoning_start
    BY <1>0 DEF Generator
  <2>4. gen' = [gen EXCEPT ![t] = g] /\ view' = [view EXCEPT ![t] = w]
    BY <1>7, <2>2 DEF YieldText, TextLines, Delta, v
  <2> HIDE DEF w, g
  <2>5. view[t].ended # "stop"
    BY <1>7 DEF OInv, Finished
  <2> QED
    BY <1>0, <2>2, <2>3, <2>4, <2>5, OneTurn DEF OInv
<1>8. ASSUME NEW t \in Turn, Finish(t)
      PROVE OInv'
  <2> DEFINE v == IF gen[t].has_reasoning_start THEN Closed(view[t], "reasoning") ELSE view[t]
             w == [v EXCEPT !.ended = "stop"]
             g == [gen[t] EXCEPT !.has_reasoning_start = FALSE, !.pc = "saving"]
  <2>1. v \in View /\ v.open = view[t].open \ {"reasoning"} /\ v.refused = view[t].refused
    BY <1>0, ViewClosed DEF OInv, Mirrored
  <2> HIDE DEF v
  <2>2. w \in View /\ w.open = v.open /\ w.refused = v.refused /\ w.ended = "stop"
    BY <2>1, ViewEnded
  <2>3. /\ g \in Generator /\ g.pc = "saving" /\ ~g.has_reasoning_start
        /\ g.has_text_start = gen[t].has_text_start
    BY <1>0 DEF Generator
  <2>4. gen' = [gen EXCEPT ![t] = g] /\ view' = [view EXCEPT ![t] = w]
    BY <1>8 DEF Finish, v
  <2> HIDE DEF w, g
  <2> QED
    BY <1>0, <2>1, <2>2, <2>3, <2>4, OneTurn DEF OInv, Mirrored
<1>9. ASSUME NEW t \in Turn, Yield(t) \/ YieldRest(t)
      PROVE OInv'
  BY <1>6, <1>7, <1>9 DEF Yield, YieldRest, Lines
<1>10. ASSUME NEW t \in Turn,
              Post(t) \/ AddUser(t) \/ Start(t) \/ ReadEnd(t) \/ Save(t) \/ SaveFails(t)
              \/ Interrupt(t) \/ Cut(t)
       PROVE OInv'
  <2>1. CASE Post(t)
    BY <1>2, <2>1 DEF Post, client
  <2>2. CASE AddUser(t)
    BY <1>2, <2>2 DEF AddUser, client
  <2>3. CASE Start(t)
    BY <1>2, <2>3 DEF Start, client
  <2>4. CASE ReadEnd(t)
    BY <1>2, <2>4 DEF ReadEnd, Reads, client
  <2>5. CASE Save(t)
    BY <1>2, <2>5 DEF Save, client
  <2>6. CASE Cut(t)
    BY <1>2, <2>6 DEF Cut, client
  <2>7. CASE SaveFails(t)
    BY <1>2, <2>7 DEF SaveFails, client
  <2>8. CASE Interrupt(t)
    BY <1>2, <2>8 DEF Interrupt, client
  <2> QED
    BY <1>10, <2>1, <2>2, <2>3, <2>4, <2>5, <2>6, <2>7, <2>8
<1>11. ASSUME NEW t \in Turn, ReadText(t)
       PROVE OInv'
  BY <1>1, <1>11 DEF ReadText, client
<1> QED
  BY <1>1, <1>3, <1>4, <1>5, <1>8, <1>9, <1>10, <1>11
     DEF Next, vars, Delete, Analyze, CallTools, PlanAgain, Plan, Execute, Respond,
         GraphFails, Say, Cancel, stream, client

\* The lines of every stream are in order, whatever the graph does.
THEOREM OrderedParts == Spec => []PartsInOrder
<1>1. OInv => PartsInOrder
  BY DEF OInv, Finished, PartsInOrder
<1> QED
  BY OrderInit, OrderKept, <1>1, PTL DEF Spec

-----------------------------------------------------------------------------
\* What is stored.  Nothing is known of the contents, so the table is only known to
\* be a sequence of whatever is in it.
Rows(s) == s \in Seq({s[i] : i \in DOMAIN s})

Has(s, row) == \E i \in DOMAIN s : s[i] = row

Reply(content) == [role |-> "assistant", content |-> content]

Stored(t) ==
    gen[t].pc = "over" /\ exists /\ parts[t] # <<>> => Has(table, Reply(parts[t]))

SInv ==
    /\ OInv
    /\ parts = shown /\ DOMAIN parts = Turn
    /\ Rows(table)
    /\ \A t \in Turn : Stored(t)

LEMMA RowsAppended ==
    ASSUME NEW s, Rows(s), NEW e
    PROVE  /\ Rows(Append(s, e))
           /\ Has(Append(s, e), e)
           /\ \A row : Has(s, row) => Has(Append(s, e), row)
<1> DEFINE R == {s[i] : i \in DOMAIN s} \cup {e}
           a == Append(s, e)
<1>1. s \in Seq(R)
  BY DEF Rows
<1>2. /\ a \in Seq(R) /\ Len(a) = Len(s) + 1
      /\ \A i \in 1..Len(s) : a[i] = s[i]
      /\ a[Len(s) + 1] = e
  BY <1>1, AppendProperties
<1>3. DOMAIN s = 1..Len(s) /\ DOMAIN a = 1..(Len(s) + 1) /\ Len(s) \in Nat
  BY <1>1, <1>2
<1> HIDE DEF a
<1>4. a \in Seq({a[i] : i \in DOMAIN a})
  BY <1>2, <1>3
<1> QED
  BY <1>2, <1>3, <1>4 DEF Has, Rows, a

LEMMA SavedInit == Init => SInv
<1> SUFFICES ASSUME Init PROVE SInv
  OBVIOUS
<1>1. Rows(table)
  BY DEF Init, Rows
<1> QED
  BY <1>1, OrderInit DEF SInv, Stored, Init

LEMMA SavedKept == SInv /\ [Next]_vars => SInv'
<1> SUFFICES ASSUME SInv, [Next]_vars PROVE SInv'
  OBVIOUS
<1>0. OInv /\ OInv'
  BY OrderKept DEF SInv
<1>a. \A t \in Turn : gen[t] \in Generator /\ view[t] \in View
  BY <1>0 DEF OInv, Typed
<1>1. CASE UNCHANGED <<exists, table, gen, parts, shown>>
  BY <1>0, <1>1 DEF SInv, Stored
<1>2. CASE Delete
  BY <1>0, <1>2 DEF SInv, Stored, Delete, stream, client, Rows
<1>3. ASSUME NEW t \in Turn,
             UNCHANGED <<exists, parts, shown>>,
             table' = table \/ \E e : table' = Append(table, e),
             \A u \in Turn \ {t} : gen'[u] = gen[u],
             gen'[t].pc = "over" => gen'[t] = gen[t] \/ Stored(t)'
      PROVE SInv'
  <2>1. Rows(table') /\ \A row : Has(table, row) => Has(table', row)
    <3>1. CASE table' = table
      BY <3>1 DEF SInv
    <3>2. ASSUME NEW e, table' = Append(table, e)
          PROVE  Rows(table') /\ \A row : Has(table, row) => Has(table', row)
      BY <3>2, RowsAppended DEF SInv
    <3> QED
      BY <1>3, <3>1, <3>2
  <2>2. ASSUME NEW u \in Turn PROVE Stored(u)'
    BY <1>3, <2>1 DEF SInv, Stored
  <2> QED
    BY <1>0, <1>3, <2>1, <2>2 DEF SInv, Rows
<1>4. ASSUME NEW t \in Turn, NEW pc, pc # "over", gen' = [gen EXCEPT ![t].pc = pc],
             UNCHANGED <<exists, parts, shown>>,
             table' = table \/ \E e : table' = Append(table, e)
      PROVE SInv'
  <2>1. \A u \in Turn \ {t} : gen'[u] = gen[u]
    BY <1>0, <1>4 DEF OInv, Typed
  <2>2. gen'[t].pc # "over"
    BY <1>0, <1>4 DEF OInv, Typed, Generator
  <2> QED
    BY <1>3, <1>4, <2>1, <2>2
<1>5. ASSUME NEW t \in Turn, gen[t].pc # "over", gen'[t].pc # "over",
             \A u \in Turn \ {t} : gen'[u] = gen[u] /\ parts'[u] = parts[u],
             UNCHANGED <<exists, table>>, parts' = shown', DOMAIN parts' = Turn
      PROVE SInv'
  BY <1>0, <1>5 DEF SInv, Stored, Rows
<1>6. ASSUME NEW t \in Turn, Save(t) PROVE SInv'
  <2>1. \A u \in Turn \ {t} : gen'[u] = gen[u]
    BY <1>0, <1>6 DEF OInv, Typed, Save
  <2>2. Stored(t)'
    BY <1>6, RowsAppended DEF SInv, Stored, Save, Reply, add_message
  <2>3. table' = table \/ \E e : table' = Append(table, e)
    BY <1>6 DEF Save, add_message
  <2> QED
    BY <1>3, <1>6, <2>1, <2>2, <2>3 DEF Save, client
<1>7. ASSUME NEW t \in Turn, Leave(t) PROVE SInv'
  <2>1. /\ gen' = [gen EXCEPT ![t] = Idle] /\ parts' = [parts EXCEPT ![t] = <<>>]
        /\ shown' = [shown EXCEPT ![t] = <<>>] /\ UNCHANGED <<exists, table>>
    BY <1>7 DEF Leave, conversation
  <2>2. gen'[t].pc # "over" /\ \A u \in Turn \ {t} : gen'[u] = gen[u] /\ parts'[u] = parts[u]
    BY <1>0, <2>1 DEF SInv, OInv, Typed, Idle
  <2> QED
    BY <1>0, <2>1, <2>2 DEF SInv, Stored, Rows
<1>8. ASSUME NEW t \in Turn, Yield(t) \/ YieldRest(t) PROVE SInv'
  <2>1. gen[t].pc \in {"streaming", "finishing"} /\ UNCHANGED <<exists, table>>
    BY <1>8 DEF Yield, YieldRest, conversation
  <2>2. YieldThinking(t) \/ \E content : YieldText(t, content)
    BY <1>8 DEF Yield, YieldRest, Lines
  <2>3. CASE YieldThinking(t)
    <3>1. gen'[t].pc = gen[t].pc /\ \A u \in Turn \ {t} : gen'[u] = gen[u]
      BY <1>0, <2>3 DEF OInv, Typed, Generator, YieldThinking
    <3> QED
      BY <1>5, <2>1, <2>3, <3>1 DEF YieldThinking, SInv
  <2>4. ASSUME NEW content, YieldText(t, content) PROVE SInv'
    <3>1. gen'[t].pc = gen[t].pc /\ \A u \in Turn \ {t} : gen'[u] = gen[u]
      BY <1>0, <2>4 DEF OInv, Typed, Generator, YieldText
    <3>2. /\ parts' = [parts EXCEPT ![t] = @ \o content]
          /\ shown' = [shown EXCEPT ![t] = @ \o content]
      BY <2>4 DEF YieldText
    <3> QED
      BY <1>5, <2>1, <3>1, <3>2 DEF SInv
  <2> QED
    BY <2>2, <2>3, <2>4
<1>9. ASSUME NEW t \in Turn, Finish(t) PROVE SInv'
  <2>1. gen'[t].pc = "saving" /\ \A u \in Turn \ {t} : gen'[u] = gen[u]
    BY <1>0, <1>9 DEF OInv, Typed, Generator, Finish
  <2>2. UNCHANGED <<exists, table, parts, shown>> /\ gen[t].pc = "finishing"
    BY <1>9 DEF Finish, conversation
  <2> QED
    BY <1>5, <2>1, <2>2 DEF SInv
<1>10. ASSUME NEW t \in Turn,
              Post(t) \/ AddUser(t) \/ Start(t) \/ ReadEnd(t) \/ ReadError(t) \/ SaveFails(t)
              \/ Interrupt(t) \/ Cut(t)
       PROVE SInv'
  <2>1. CASE Post(t)
    BY <1>4, <2>1 DEF Post, client, conversation
  <2>2. CASE AddUser(t)
    BY <1>4, <2>2 DEF AddUser, client, add_message
  <2>3. CASE Start(t)
    BY <1>4, <2>3 DEF Start, client
  <2>4. CASE ReadEnd(t)
    BY <1>4, <2>4 DEF ReadEnd, client, conversation
  <2>5. CASE ReadError(t)
    BY <1>4, <2>5 DEF ReadError, conversation
  <2>6. CASE Cut(t)
    BY <1>4, <2>6 DEF Cut, client, conversation
  <2>7. CASE SaveFails(t)
    BY <1>4, <2>7 DEF SaveFails, client, conversation
  <2>8. CASE Interrupt(t)
    BY <1>4, <2>8 DEF Interrupt, client, conversation
  <2> QED
    BY <1>10, <2>1, <2>2, <2>3, <2>4, <2>5, <2>6, <2>7, <2>8
<1>11. ASSUME NEW t \in Turn, ReadText(t) \/ ReadCalls(t) PROVE SInv'
  BY <1>1, <1>11 DEF ReadText, ReadCalls, client, conversation, stream
<1> QED
  BY <1>1, <1>2, <1>6, <1>7, <1>8, <1>9, <1>10, <1>11
     DEF Next, vars, Analyze, CallTools, PlanAgain, Plan, Execute, Respond,
         GraphFails, Say, Cancel, stream, client, conversation

\* A turn that was not cut stores what it has shown.
THEOREM RepliesSaved == Spec => []SavedAsShown
<1>1. SInv => SavedAsShown
  BY DEF SInv, Stored, Has, Reply, SavedAsShown
<1> QED
  BY SavedInit, SavedKept, <1>1, PTL DEF Spec

-----------------------------------------------------------------------------
\* Tool calls and their answers.

RunsTyped ==
    /\ run \in [Turn -> Run]
    /\ thread \in Seq(ThreadMessage)

\* Every message with tool calls is followed by its answers, but for the last
\* message, which execute is about to answer.
Answered(s) == \A i \in 1..Len(s) : s[i] = "calls" => i < Len(s) /\ s[i + 1] = "tools"

Waiting(s) == \A i \in 1..Len(s) : i < Len(s) /\ s[i] = "calls" => s[i + 1] = "tools"

\* While no turn meets another one, a run works on the thread itself.
Alone ==
    /\ \A t, u \in Turn : Busy(t) /\ Busy(u) => t = u
    /\ \A t \in Turn : Busy(t) => run[t].branch = thread
    /\ IF \E t \in Turn : run[t].node = "execute" THEN Waiting(thread) ELSE Answered(thread)

AInv == RunsTyped /\ (calm => Alone)

\* A turn that was cut has ended the calm.
CInv == OInv /\ (calm => \A t \in Turn : gen[t].pc \notin {"cancelling", "cut"})

LEMMA CutKept == CInv /\ [Next]_vars => CInv'
<1> SUFFICES ASSUME CInv, [Next]_vars PROVE CInv'
  OBVIOUS
<1>0. OInv /\ OInv'
  BY OrderKept DEF CInv
<1>1. ASSUME NEW t \in Turn, NEW pc, pc # "cancelling", pc # "cut", calm' => calm,
             gen' = [gen EXCEPT ![t].pc = pc]
      PROVE  CInv'
  BY <1>0, <1>1 DEF CInv, OInv, Typed, Generator
<1>2. ASSUME UNCHANGED gen, calm' => calm PROVE CInv'
  BY <1>0, <1>2 DEF CInv
<1>3. ASSUME NEW t \in Turn,
             \/ Post(t) \/ AddUser(t) \/ Start(t) \/ ReadEnd(t) \/ ReadError(t)
             \/ Save(t) \/ SaveFails(t)
      PROVE  CInv'
  <2>1. CASE Post(t)
    BY <1>1, <2>1 DEF Post, history
  <2>2. CASE AddUser(t)
    BY <1>1, <2>2 DEF AddUser, history
  <2>3. CASE Start(t)
    BY <1>1, <2>3 DEF Start
  <2>4. CASE ReadEnd(t)
    BY <1>1, <2>4 DEF ReadEnd, history
  <2>5. CASE ReadError(t)
    BY <1>1, <2>5 DEF ReadError, history
  <2>6. CASE Save(t)
    BY <1>1, <2>6 DEF Save, history
  <2>7. CASE SaveFails(t)
    BY <1>1, <2>7 DEF SaveFails, history
  <2> QED BY <1>3, <2>1, <2>2, <2>3, <2>4, <2>5, <2>6, <2>7
<1>4. ASSUME NEW t \in Turn, Cut(t) \/ Interrupt(t) PROVE CInv'
  BY <1>0, <1>4 DEF CInv, Cut, Interrupt
<1>5. ASSUME NEW t \in Turn, Leave(t) PROVE CInv'
  BY <1>0, <1>5 DEF CInv, Leave, Idle, OInv, Typed
<1>6. ASSUME NEW t \in Turn, Yield(t) \/ YieldRest(t) \/ Finish(t) PROVE CInv'
  <2>1. calm' = calm
    BY <1>6 DEF Yield, YieldRest, Finish, history
  <2>2. \A u \in Turn : gen'[u].pc = gen[u].pc \/ gen'[u].pc = "saving"
    <3>1. CASE Finish(t)
      BY <1>0, <3>1 DEF Finish, OInv, Typed, Generator
    <3>2. CASE YieldThinking(t)
      BY <1>0, <3>2 DEF YieldThinking, OInv, Typed, Generator
    <3>3. ASSUME NEW content, YieldText(t, content)
          PROVE  \A u \in Turn : gen'[u].pc = gen[u].pc
      BY <1>0, <3>3 DEF YieldText, OInv, Typed, Generator
    <3> QED BY <1>6, <3>1, <3>2, <3>3 DEF Yield, YieldRest, Lines
  <2> QED BY <1>0, <2>1, <2>2 DEF CInv
<1>7. ASSUME NEW t \in Turn,
             \/ Analyze(t) \/ PlanAgain(t) \/ Plan(t) \/ Execute(t)
             \/ Respond(t) \/ GraphFails(t) \/ \E c \in Chunk : Say(t, c)
             \/ \E c \in Chunk \cup {<<>>} : CallTools(t, c)
      PROVE  CInv'
  <2>1. gen' = gen /\ (calm' => calm)
    <3>1. CASE Analyze(t)
      BY <3>1 DEF Analyze, stream, history
    <3>4. CASE Plan(t)
      BY <3>4 DEF Plan, stream, history
    <3>5. CASE Execute(t)
      BY <3>5 DEF Execute, stream, history
    <3>6. CASE Respond(t)
      BY <3>6 DEF Respond, stream, history
    <3>2. CASE PlanAgain(t) \/ GraphFails(t)
      BY <3>2 DEF PlanAgain, GraphFails, stream, history
    <3>7. ASSUME NEW c, CallTools(t, c) PROVE gen' = gen /\ (calm' => calm)
      BY <3>7 DEF CallTools, stream
    <3>3. ASSUME NEW c \in Chunk, Say(t, c) PROVE gen' = gen /\ (calm' => calm)
      BY <3>3 DEF Say, stream
    <3> QED BY <1>7, <3>1, <3>2, <3>3, <3>4, <3>5, <3>6, <3>7
  <2> QED BY <1>2, <2>1
<1>8. ASSUME NEW t \in Turn, Cancel(t) \/ ReadText(t) \/ ReadCalls(t) PROVE CInv'
  <2>1. gen' = gen /\ calm' = calm
    BY <1>8 DEF Cancel, ReadText, ReadCalls, stream, history
  <2> QED BY <1>2, <2>1
<1>9. CASE Delete \/ UNCHANGED vars
  BY <1>2, <1>9 DEF Delete, vars, stream, history
<1> QED
  BY <1>3, <1>4, <1>5, <1>6, <1>7, <1>8, <1>9 DEF Next

LEMMA AppendAnswers ==
    ASSUME NEW s \in Seq(ThreadMessage)
    PROVE  /\ \A m \in ThreadMessage :
                /\ Append(s, m) \in Seq(ThreadMessage)
                /\ s \o <<m>> = Append(s, m)
                /\ m # "calls" /\ Answered(s) => Answered(Append(s, m))
           /\ s \o <<>> = s
           /\ Waiting(s) => Answered(Append(s, "tools"))
           /\ Answered(s) => Waiting(Append(s, "calls"))
<1>1. ASSUME NEW m \in ThreadMessage
      PROVE  /\ Append(s, m) \in Seq(ThreadMessage)
             /\ Len(Append(s, m)) = Len(s) + 1
             /\ \A i \in 1..Len(s) : Append(s, m)[i] = s[i]
             /\ Append(s, m)[Len(s) + 1] = m
             /\ s \o <<m>> = Append(s, m)
  BY AppendProperties
<1>2. Len(s) \in Nat /\ s \o <<>> = s
  OBVIOUS
<1>3. ASSUME NEW m \in ThreadMessage, m # "calls", Answered(s)
      PROVE  Answered(Append(s, m))
  BY <1>1, <1>2, <1>3 DEF Answered
<1>4. ASSUME Waiting(s) PROVE Answered(Append(s, "tools"))
  BY <1>1, <1>2, <1>4 DEF Answered, Waiting, ThreadMessage
<1>5. ASSUME Answered(s) PROVE Waiting(Append(s, "calls"))
  BY <1>1, <1>2, <1>5 DEF Answered, Waiting, ThreadMessage
<1> QED BY <1>1, <1>2, <1>3, <1>4, <1>5

\* The runs and the thread stand still, or a run that is over goes.
LEMMA AloneStays ==
    ASSUME AInv, thread' = thread, calm' => calm, run' \in [Turn -> Run],
           \A t \in Turn : \/ run'[t].node = run[t].node /\ run'[t].branch = run[t].branch
                           \/ ~Busy(t) /\ run'[t].node = "none"
    PROVE  AInv'
<1>1. \A t \in Turn : Busy(t)' => Busy(t) /\ run'[t].branch = run[t].branch
  BY DEF Busy
<1>2. \A t \in Turn : run'[t].node = "execute" <=> run[t].node = "execute"
  BY DEF Busy
<1> QED BY <1>1, <1>2 DEF AInv, RunsTyped, Alone

\* The one run that is busy saves a checkpoint.
LEMMA AloneSaves ==
    ASSUME AInv, NEW t \in Turn, NEW r \in Run, calm' => calm,
           run' = [run EXCEPT ![t] = r], thread' = r.branch,
           calm' => /\ \A u \in Turn \ {t} : ~Busy(u)
                    /\ IF r.node = "execute" THEN Waiting(r.branch) ELSE Answered(r.branch)
    PROVE  AInv'
<1>1. run' \in [Turn -> Run] /\ run'[t] = r /\ \A u \in Turn \ {t} : run'[u] = run[u]
  BY DEF AInv, RunsTyped
<1>2. thread' \in Seq(ThreadMessage)
  BY DEF Run
<1>3. ASSUME calm' PROVE Alone'
  <2>1. \A u \in Turn : Busy(u)' => u = t
    BY <1>1, <1>3 DEF Busy
  <2>2. (\E u \in Turn : run'[u].node = "execute") <=> r.node = "execute"
    BY <1>1, <1>3 DEF Busy
  <2> QED BY <1>1, <1>3, <2>1, <2>2 DEF Alone
<1> QED BY <1>1, <1>2, <1>3 DEF AInv, RunsTyped

LEMMA AnsweredKept == AInv /\ CInv /\ [Next]_vars => AInv'
<1> SUFFICES ASSUME AInv, CInv, [Next]_vars PROVE AInv'
  OBVIOUS
<1>0. /\ run \in [Turn -> Run] /\ thread \in Seq(ThreadMessage)
      /\ \A t \in Turn : run[t] \in Run /\ run[t].branch \in Seq(ThreadMessage)
  BY DEF AInv, RunsTyped, Run
<1>1. ASSUME UNCHANGED <<run, thread, calm>> PROVE AInv'
  BY <1>1 DEF AInv, RunsTyped, Alone, Busy
<1>2. ASSUME NEW t \in Turn, NEW r \in Run, UNCHANGED <<thread>>, calm' => calm,
             run' = [run EXCEPT ![t] = r],
             \/ r.node = run[t].node /\ r.branch = run[t].branch
             \/ ~Busy(t) /\ r.node = "none"
      PROVE  AInv'
  BY <1>0, <1>2, AloneStays
<1>3. ASSUME NEW t \in Turn, Start(t) PROVE AInv'
  <2> DEFINE r == [NoRun EXCEPT !.node = "analyze", !.branch = Append(thread, "human")]
  <2>1. Append(thread, "human") \in Seq(ThreadMessage)
    BY <1>0, AppendAnswers DEF ThreadMessage
  <2>2. r \in Run /\ r.branch = Append(thread, "human") /\ r.node = "analyze"
    <3>1. NoRun \in Run
      BY DEF NoRun, Run
    <3> QED BY <2>1, <3>1 DEF Run
  <2>3. run' = [run EXCEPT ![t] = r] /\ thread' = Append(thread, "human")
        /\ (calm' <=> calm /\ \A u \in Turn : ~Busy(u))
    BY <1>3 DEF Start
  <2>4. calm' => Answered(thread)
    BY <2>3 DEF AInv, Alone, Busy
  <2>5. calm' => Answered(Append(thread, "human"))
    BY <1>0, <2>4, AppendAnswers DEF ThreadMessage
  <2> HIDE DEF r
  <2> QED BY <2>2, <2>3, <2>5, AloneSaves
<1>4. ASSUME NEW t \in Turn, Busy(t), NEW r \in Run, calm' = calm,
             run' = [run EXCEPT ![t] = r], thread' = r.branch,
             NEW m \in ThreadMessage,
             r.branch = run[t].branch \/ r.branch = Append(run[t].branch, m),
             \/ /\ r.branch = run[t].branch
                /\ run[t].node # "execute" /\ r.node # "execute"
             \/ /\ r.branch = Append(run[t].branch, m) /\ m # "calls"
                /\ run[t].node # "execute" /\ r.node # "execute"
             \/ /\ r.branch = Append(run[t].branch, "calls")
                /\ run[t].node # "execute" /\ r.node = "execute"
             \/ /\ r.branch = Append(run[t].branch, "tools")
                /\ run[t].node = "execute" /\ r.node # "execute"
      PROVE  AInv'
  <2>1. ASSUME calm'
        PROVE  /\ \A u \in Turn \ {t} : ~Busy(u)
               /\ IF r.node = "execute" THEN Waiting(r.branch) ELSE Answered(r.branch)
    <3>1. Alone
      BY <1>4, <2>1 DEF AInv
    <3>2. (\A u \in Turn \ {t} : ~Busy(u)) /\ run[t].branch = thread
      BY <1>4, <3>1 DEF Alone
    <3>3. run[t].node = "execute" => Waiting(thread)
      BY <3>1 DEF Alone
    <3>4. run[t].node # "execute" => Answered(thread)
      BY <3>1, <3>2 DEF Alone, Busy
    <3> QED BY <1>0, <1>4, <3>2, <3>3, <3>4, AppendAnswers
  <2> QED BY <1>4, <2>1, AloneSaves
<1>5. ASSUME NEW t \in Turn, NEW messages, NEW next, Checkpoint(t, messages, next),
             run[t].branch \o messages \in Seq(ThreadMessage),
             next \in {"plan", "execute", "respond"}
      PROVE  /\ [run[t] EXCEPT !.branch = @ \o messages, !.node = next] \in Run
             /\ run' = [run EXCEPT ![t] = [run[t] EXCEPT !.branch = @ \o messages, !.node = next]]
             /\ thread' = run[t].branch \o messages
  BY <1>0, <1>5 DEF Checkpoint, Run
<1>6. ASSUME NEW t \in Turn, Analyze(t) PROVE AInv'
  <2> DEFINE r == [run[t] EXCEPT !.branch = @ \o <<>>, !.node = "plan"]
  <2>1. run[t].branch \o <<>> = run[t].branch
    BY <1>0, AppendAnswers
  <2>2. r \in Run /\ run' = [run EXCEPT ![t] = r] /\ thread' = run[t].branch
    BY <1>0, <1>5, <1>6, <2>1 DEF Analyze
  <2>3. r.branch = run[t].branch /\ r.node = "plan"
    BY <1>0, <2>1 DEF Run
  <2>4. run[t].node = "analyze" /\ calm' = calm
    BY <1>6 DEF Analyze, history
  <2> HIDE DEF r
  <2> QED BY <1>4, <2>2, <2>3, <2>4 DEF Busy, ThreadMessage
<1>7. ASSUME NEW t \in Turn, Plan(t) PROVE AInv'
  <2> DEFINE m == IF run[t].tools = "called" THEN "calls" ELSE "ai"
             r == [run[t] EXCEPT !.branch = @ \o <<m>>, !.node = should_execute(m)]
  <2>1. /\ run[t].branch \o <<m>> = Append(run[t].branch, m)
        /\ Append(run[t].branch, m) \in Seq(ThreadMessage) /\ m \in ThreadMessage
    BY <1>0, AppendAnswers DEF ThreadMessage
  <2>2. r \in Run /\ run' = [run EXCEPT ![t] = r] /\ thread' = Append(run[t].branch, m)
    BY <1>0, <1>5, <1>7, <2>1 DEF Plan, should_execute
  <2>3. r.branch = Append(run[t].branch, m) /\ r.node = should_execute(m)
    BY <1>0, <2>1 DEF Run
  <2>4. run[t].node = "plan" /\ calm' = calm
    BY <1>7 DEF Plan, history
  <2>5. (m = "calls" /\ r.node = "execute") \/ (m = "ai" /\ r.node = "respond")
    BY <2>3 DEF should_execute
  <2> HIDE DEF r, m
  <2> QED BY <1>4, <2>1, <2>2, <2>3, <2>4, <2>5 DEF Busy
<1>8. ASSUME NEW t \in Turn, Execute(t) PROVE AInv'
  <2> DEFINE r == [run[t] EXCEPT !.branch = @ \o <<"tools">>, !.node = "respond"]
  <2>1. /\ run[t].branch \o <<"tools">> = Append(run[t].branch, "tools")
        /\ Append(run[t].branch, "tools") \in Seq(ThreadMessage)
    BY <1>0, AppendAnswers DEF ThreadMessage
  <2>2. r \in Run /\ run' = [run EXCEPT ![t] = r] /\ thread' = Append(run[t].branch, "tools")
    BY <1>0, <1>5, <1>8, <2>1 DEF Execute, Results
  <2>3. r.branch = Append(run[t].branch, "tools") /\ r.node = "respond"
    BY <1>0, <2>1 DEF Run
  <2>4. run[t].node = "execute" /\ calm' = calm
    BY <1>8 DEF Execute, history
  <2> HIDE DEF r
  <2> QED BY <1>4, <2>2, <2>3, <2>4 DEF Busy, ThreadMessage
<1>9. ASSUME NEW t \in Turn, Respond(t) PROVE AInv'
  <2> DEFINE b == Append(run[t].branch, "ai")
             f == Append(run[t].feed, [kind |-> "end"])
             r == [run[t] EXCEPT !.branch = b, !.node = "end", !.feed = f]
  <2>1. b \in Seq(ThreadMessage)
    BY <1>0, AppendAnswers DEF ThreadMessage
  <2>2. f \in Seq(GraphEvent)
    BY <1>0, AppendProperties DEF Run, GraphEvent
  <2>3. run' = [run EXCEPT ![t] = r] /\ thread' = b
    BY <1>0, <1>9 DEF Respond
  <2>4. run[t].node = "respond" /\ calm' = calm
    BY <1>9 DEF Respond, history
  <2> HIDE DEF b, f
  <2>5. r \in Run /\ r.branch = b /\ r.node = "end"
    BY <1>0, <2>1, <2>2 DEF Run
  <2> HIDE DEF r
  <2> QED BY <1>4, <2>3, <2>4, <2>5 DEF Busy, ThreadMessage, b
<1>10. ASSUME NEW t \in Turn, NEW f \in Seq(GraphEvent), NEW tools \in {"bound", "called", "unbound"},
              run' = [run EXCEPT ![t] = [run[t] EXCEPT !.feed = f, !.tools = tools]],
              thread' = thread, calm' = calm
       PROVE AInv'
  <2> DEFINE r == [run[t] EXCEPT !.feed = f, !.tools = tools]
  <2>1. r \in Run /\ r.branch = run[t].branch /\ r.node = run[t].node
    BY <1>0 DEF Run
  <2> HIDE DEF r
  <2> QED BY <1>2, <1>10, <2>1 DEF r
<1>11. ASSUME NEW t \in Turn, NEW r \in Run, run' = [run EXCEPT ![t] = r],
              thread' = thread, ~calm'
       PROVE  AInv'
  BY <1>0, <1>11 DEF AInv, RunsTyped
<1>12. ASSUME NEW t \in Turn, GraphFails(t) PROVE AInv'
  <2> DEFINE f == Append(run[t].feed, [kind |-> "error"])
             r == [run[t] EXCEPT !.node = "failed", !.feed = f]
  <2>1. f \in Seq(GraphEvent)
    BY <1>0, AppendProperties DEF Run, GraphEvent
  <2>2. run' = [run EXCEPT ![t] = r] /\ thread' = thread /\ ~calm'
    BY <1>0, <1>12 DEF GraphFails, conversation
  <2> HIDE DEF f
  <2>3. r \in Run
    BY <1>0, <2>1 DEF Run
  <2> HIDE DEF r
  <2> QED BY <1>11, <2>2, <2>3
<1>13. ASSUME NEW t \in Turn, Cancel(t) PROVE AInv'
  <2> DEFINE r == [run[t] EXCEPT !.node = "cancelled"]
  <2>1. run' = [run EXCEPT ![t] = r] /\ thread' = thread /\ ~calm'
    BY <1>0, <1>13 DEF Cancel, conversation, history, CInv
  <2>2. r \in Run
    BY <1>0 DEF Run
  <2> HIDE DEF r
  <2> QED BY <1>11, <2>1, <2>2
<1>14. ASSUME NEW t \in Turn, Leave(t) PROVE AInv'
  <2>1. NoRun \in Run /\ NoRun.node = "none"
    BY DEF NoRun, Run
  <2> QED BY <1>2, <1>14, <2>1 DEF Leave, conversation
<1>15. ASSUME NEW t \in Turn, NEW c \in Chunk, Say(t, c) PROVE AInv'
  <2> DEFINE f == Append(run[t].feed, [kind |-> "text", chunk |-> c])
  <2>1. f \in Seq(GraphEvent)
    BY <1>0, AppendProperties DEF Run, GraphEvent
  <2>2. /\ run' = [run EXCEPT ![t] = [run[t] EXCEPT !.feed = f, !.tools = run[t].tools]]
        /\ run[t].tools \in {"bound", "called", "unbound"}
        /\ UNCHANGED <<thread, calm>>
    BY <1>0, <1>15 DEF Say, Run, conversation
  <2> HIDE DEF f
  <2> QED BY <1>10, <2>1, <2>2
<1>16. ASSUME NEW t \in Turn, NEW c \in Chunk \cup {<<>>}, CallTools(t, c) PROVE AInv'
  <2> DEFINE f == Append(run[t].feed, [kind |-> "calls", chunk |-> c])
  <2>1. f \in Seq(GraphEvent)
    BY <1>0, AppendProperties DEF Run, GraphEvent
  <2>2. /\ run' = [run EXCEPT ![t] = [run[t] EXCEPT !.feed = f, !.tools = "called"]]
        /\ UNCHANGED <<thread, calm>>
    BY <1>0, <1>16 DEF CallTools, Run, conversation
  <2> HIDE DEF f
  <2> QED BY <1>10, <2>1, <2>2
<1>17. ASSUME NEW t \in Turn, PlanAgain(t) PROVE AInv'
  <2>1. /\ run' = [run EXCEPT ![t] = [run[t] EXCEPT !.feed = run[t].feed, !.tools = "unbound"]]
        /\ run[t].feed \in Seq(GraphEvent)
        /\ UNCHANGED <<thread, calm>>
    BY <1>0, <1>17 DEF PlanAgain, Run, conversation, history
  <2> QED BY <1>10, <2>1
<1>18. ASSUME NEW t \in Turn, NEW kind, Reads(t, kind), UNCHANGED <<thread, calm>> PROVE AInv'
  <2> DEFINE f == Tail(run[t].feed)
  <2>1. f \in Seq(GraphEvent)
    BY <1>0, <1>18, HeadTailProperties DEF Reads, Run
  <2>2. /\ run' = [run EXCEPT ![t] = [run[t] EXCEPT !.feed = f, !.tools = run[t].tools]]
        /\ run[t].tools \in {"bound", "called", "unbound"}
    BY <1>0, <1>18 DEF Reads, Run
  <2> HIDE DEF f
  <2> QED BY <1>10, <1>18, <2>1, <2>2
<1>19. ASSUME NEW t \in Turn, ReadText(t) \/ ReadCalls(t) \/ ReadEnd(t) \/ ReadError(t)
       PROVE  AInv'
  BY <1>18, <1>19 DEF ReadText, ReadCalls, ReadEnd, ReadError, conversation, history
<1>20. ASSUME NEW t \in Turn,
              \/ Post(t) \/ AddUser(t) \/ Yield(t) \/ YieldRest(t) \/ Finish(t)
              \/ Save(t) \/ SaveFails(t)
       PROVE  AInv'
  BY <1>1, <1>20
     DEF Post, AddUser, Yield, YieldRest, Finish, Save, SaveFails, conversation, history
<1>21. ASSUME NEW t \in Turn, Cut(t) \/ Interrupt(t) PROVE AInv'
  BY <1>0, <1>21 DEF Cut, Interrupt, AInv, RunsTyped, conversation
<1>22. CASE Delete \/ UNCHANGED vars
  BY <1>1, <1>22 DEF Delete, vars, conversation, history
<1> QED
  BY <1>3, <1>6, <1>7, <1>8, <1>9, <1>12, <1>13, <1>14, <1>15, <1>16, <1>17, <1>19, <1>20,
     <1>21, <1>22 DEF Next

LEMMA CalmInit == Init => AInv /\ CInv
<1> SUFFICES ASSUME Init PROVE AInv /\ CInv
  OBVIOUS
<1>1. \A t \in Turn : ~Busy(t) /\ run[t].node # "execute"
  BY DEF Init, Busy, NoRun
<1>2. RunsTyped
  BY DEF Init, RunsTyped, NoRun, Run
<1>3. Answered(thread)
  BY DEF Init, Answered
<1> QED BY <1>1, <1>2, <1>3, OrderInit DEF AInv, Alone, CInv, Init, Idle

\* On a thread where no turn was cut, failed or met another one, a model sees
\* every tool call answered.
THEOREM CallsAnswered == Spec => []ToolCallsAnswered
<1>1. AInv => ToolCallsAnswered
  <2> SUFFICES ASSUME RunsTyped, Alone, NEW t \in Turn, run[t].node \in {"plan", "respond"},
                      NEW i \in DOMAIN run[t].branch, run[t].branch[i] = "calls"
               PROVE  i < Len(run[t].branch) /\ run[t].branch[i + 1] = "tools"
    BY DEF AInv, ToolCallsAnswered
  <2>1. run[t].branch = thread /\ \A u \in Turn : Busy(u) => u = t
    BY DEF Alone, Busy
  <2>2. Answered(thread)
    BY <2>1 DEF Alone, Busy
  <2>3. DOMAIN thread = 1..Len(thread)
    BY DEF RunsTyped
  <2> QED BY <2>1, <2>2, <2>3 DEF Answered
<1> QED
  BY CalmInit, <1>1, AnsweredKept, CutKept, PTL DEF Spec

-----------------------------------------------------------------------------
\* Types.

Row == [role : {"user", "assistant"}, content : Seq(Symbol)]

DataTyped ==
    /\ exists \in BOOLEAN /\ calm \in BOOLEAN
    /\ table \in Seq(Row)
    /\ think_filter \in [Turn -> Filter]
    /\ parts \in [Turn -> Seq(Symbol)] /\ shown \in [Turn -> Seq(Symbol)]
    /\ said \in [Turn -> Seq(Symbol)]
    /\ garbled \in [Turn -> BOOLEAN]

TInv == AInv /\ CInv /\ DataTyped

\* What the steps put into these variables.
LEMMA FilterTyped ==
    ASSUME NEW b \in Seq(Symbol), NEW i \in BOOLEAN, NEW es \in Seq(FilterEvent)
    PROVE  /\ [buffer |-> b, in_think |-> i, todo |-> es] \in Filter
           /\ Flush(b, i) \in Seq(FilterEvent)
           /\ es # <<>> => Head(es) \in FilterEvent /\ Tail(es) \in Seq(FilterEvent)
<1>1. [buffer |-> b, in_think |-> i, todo |-> es] \in Filter
  BY DEF Filter
<1>2. Flush(b, i) \in Seq(FilterEvent)
  BY EventType DEF Flush
<1>3. es # <<>> => Head(es) \in FilterEvent /\ Tail(es) \in Seq(FilterEvent)
  BY HeadTailProperties
<1> QED BY <1>1, <1>2, <1>3

LEMMA EventsTyped ==
    /\ \A c \in Chunk : c \in Seq(Symbol) /\ c # <<>> /\ [kind |-> "text", chunk |-> c] \in GraphEvent
    /\ \A c \in Chunk \cup {<<>>} : /\ c \in Seq(Symbol)
                                    /\ [kind |-> "calls", chunk |-> c] \in GraphEvent
    /\ \A e \in GraphEvent : /\ e.kind \in {"text", "calls", "end", "error"}
                             /\ e.kind = "text" => e.chunk \in Chunk
    /\ \A k \in {"end", "error"} : [kind |-> k] \in GraphEvent
<1>1. \A c \in Chunk : c \in Seq(Symbol) /\ c # <<>>
  BY ChunkAssumption
<1>2. \A c \in Chunk \cup {<<>>} : c \in Seq(Symbol)
  <2>1. <<>> \in Seq(Symbol)
    OBVIOUS
  <2> QED BY <1>1, <2>1
<1>3. \A c \in Chunk : [kind |-> "text", chunk |-> c] \in GraphEvent
  BY DEF GraphEvent
<1>4. \A c \in Chunk \cup {<<>>} : [kind |-> "calls", chunk |-> c] \in GraphEvent
  BY DEF GraphEvent
<1>5. \A e \in GraphEvent : /\ e.kind \in {"text", "calls", "end", "error"}
                            /\ e.kind = "text" => e.chunk \in Chunk
  BY DEF GraphEvent
<1>6. \A k \in {"end", "error"} : [kind |-> k] \in GraphEvent
  BY DEF GraphEvent
<1>7. \A c \in Chunk : c \in Seq(Symbol) /\ c # <<>> /\ [kind |-> "text", chunk |-> c] \in GraphEvent
  BY <1>1, <1>3
<1>8. \A c \in Chunk \cup {<<>>} : /\ c \in Seq(Symbol)
                                   /\ [kind |-> "calls", chunk |-> c] \in GraphEvent
  BY <1>2, <1>4
<1> QED BY <1>5, <1>6, <1>7, <1>8

LEMMA RowAdded ==
    ASSUME table \in Seq(Row), NEW role \in {"user", "assistant"}, NEW content \in Seq(Symbol)
    PROVE  add_message(role, content) \in Seq(Row)
<1>1. [role |-> role, content |-> content] \in Row
  BY DEF Row
<1> QED BY <1>1 DEF add_message

LEMMA TypeInit == Init => DataTyped
<1> SUFFICES ASSUME Init PROVE DataTyped
  OBVIOUS
<1>1. NewFilter \in Filter
  BY DEF NewFilter, Filter
<1> QED BY <1>1 DEF Init, DataTyped

LEMMA TypeKept == TInv /\ [Next]_vars => TInv'
<1> SUFFICES ASSUME TInv, [Next]_vars PROVE DataTyped'
  BY AnsweredKept, CutKept DEF TInv
<1>0. /\ DataTyped
      /\ \A t \in Turn : /\ think_filter[t] \in Filter /\ run[t] \in Run
                         /\ think_filter[t].buffer \in Seq(Symbol)
                         /\ think_filter[t].in_think \in BOOLEAN
                         /\ think_filter[t].todo \in Seq(FilterEvent)
                         /\ run[t].feed \in Seq(GraphEvent)
  BY DEF TInv, AInv, RunsTyped, DataTyped, Filter, Run
<1>1. CASE UNCHANGED <<exists, table, think_filter, parts, shown, said, garbled, calm>>
  BY <1>0, <1>1 DEF DataTyped
<1>2. CASE Delete
  <2>1. <<>> \in Seq(Row)
    OBVIOUS
  <2>2. /\ exists' = FALSE /\ table' = <<>>
        /\ UNCHANGED <<think_filter, parts, shown, said, garbled, calm>>
    BY <1>2 DEF Delete, stream, client, history
  <2> QED BY <1>0, <2>1, <2>2 DEF DataTyped
<1>3. ASSUME NEW t \in Turn, Post(t) \/ Analyze(t) \/ PlanAgain(t) \/ Plan(t)
             \/ Execute(t) \/ Respond(t) \/ Cancel(t) \/ ReadCalls(t) \/ ReadError(t) \/ Finish(t)
             \/ SaveFails(t)
      PROVE  DataTyped'
  <2>1. UNCHANGED <<exists, table, think_filter, parts, shown, said, garbled, calm>>
    <3>1. CASE Post(t) \/ Cancel(t) \/ SaveFails(t)
      BY <3>1 DEF Post, Cancel, SaveFails, conversation, client, history, stream
    <3>2. CASE Analyze(t)
      BY <3>2 DEF Analyze, stream, client, history
    <3>3. CASE PlanAgain(t)
      BY <3>3 DEF PlanAgain, conversation, stream, client, history
    <3>4. CASE Plan(t)
      BY <3>4 DEF Plan, stream, client, history
    <3>5. CASE Execute(t)
      BY <3>5 DEF Execute, stream, client, history
    <3>6. CASE Respond(t)
      BY <3>6 DEF Respond, stream, client, history
    <3>7. CASE ReadCalls(t) \/ ReadError(t)
      BY <3>7 DEF ReadCalls, ReadError, conversation, stream, history
    <3>8. CASE Finish(t)
      BY <3>8 DEF Finish, conversation, history
    <3> QED BY <1>3, <3>1, <3>2, <3>3, <3>4, <3>5, <3>6, <3>7, <3>8
  <2> QED BY <1>1, <2>1
<1>4. ASSUME NEW t \in Turn, Start(t) \/ Interrupt(t) \/ Cut(t) \/ GraphFails(t)
      PROVE  DataTyped'
  <2>1. UNCHANGED <<exists, table, think_filter, parts, shown, said, garbled>>
    BY <1>4 DEF Start, Interrupt, Cut, GraphFails, conversation, client, stream
  <2>2. calm' \in BOOLEAN
    BY <1>4 DEF Start, Interrupt, Cut, GraphFails
  <2> QED BY <1>0, <2>1, <2>2 DEF DataTyped
<1>5. ASSUME NEW t \in Turn, AddUser(t) \/ Save(t) PROVE DataTyped'
  <2>1. UNCHANGED <<exists, think_filter, parts, shown, said, garbled, calm>>
    BY <1>5 DEF AddUser, Save, client, history
  <2>2. <<>> \in Seq(Symbol) /\ parts[t] \in Seq(Symbol) /\ table \in Seq(Row)
    BY <1>0 DEF DataTyped
  <2>3. \/ table' = table
        \/ table' = add_message("user", <<>>)
        \/ table' = add_message("assistant", parts[t])
    BY <1>5 DEF AddUser, Save
  <2>4. table' \in Seq(Row)
    BY <2>2, <2>3, RowAdded
  <2> QED BY <1>0, <2>1, <2>4 DEF DataTyped
<1>6. ASSUME NEW t \in Turn, NEW c \in Chunk, Say(t, c) PROVE DataTyped'
  <2>1. UNCHANGED <<exists, table, think_filter, parts, shown, garbled, calm>>
    BY <1>6 DEF Say, conversation, stream, client
  <2>2. said[t] \o c \in Seq(Symbol)
    BY <1>0, EventsTyped, ConcatProperties DEF DataTyped
  <2>3. said' = [said EXCEPT ![t] = said[t] \o c]
    BY <1>6 DEF Say
  <2> QED BY <1>0, <2>1, <2>2, <2>3 DEF DataTyped
<1>12. ASSUME NEW t \in Turn, NEW c \in Chunk \cup {<<>>}, CallTools(t, c) PROVE DataTyped'
  <2>1. UNCHANGED <<exists, table, think_filter, parts, shown, calm>>
    BY <1>12 DEF CallTools, conversation, stream, client
  <2>2. said[t] \o c \in Seq(Symbol)
    BY <1>0, EventsTyped, ConcatProperties DEF DataTyped
  <2>3. said' = [said EXCEPT ![t] = said[t] \o c]
    BY <1>12 DEF CallTools
  <2>4. garbled' \in [Turn -> BOOLEAN]
    BY <1>0, <1>12 DEF CallTools, DataTyped
  <2> QED BY <1>0, <2>1, <2>2, <2>3, <2>4 DEF DataTyped
<1>7. ASSUME NEW t \in Turn, NEW f \in Filter, think_filter' = [think_filter EXCEPT ![t] = f],
             NEW broken \in BOOLEAN, garbled' = [garbled EXCEPT ![t] = broken],
             NEW text \in Seq(Symbol), NEW part \in Seq(Symbol),
             shown' = [shown EXCEPT ![t] = text], parts' = [parts EXCEPT ![t] = part],
             UNCHANGED <<exists, table, said, calm>>
      PROVE  DataTyped'
  BY <1>0, <1>7 DEF DataTyped
<1>a. \A t \in Turn : /\ garbled = [garbled EXCEPT ![t] = garbled[t]] /\ garbled[t] \in BOOLEAN
                      /\ shown = [shown EXCEPT ![t] = shown[t]] /\ shown[t] \in Seq(Symbol)
                      /\ parts = [parts EXCEPT ![t] = parts[t]] /\ parts[t] \in Seq(Symbol)
  BY <1>0 DEF DataTyped
<1>8. ASSUME NEW t \in Turn, ReadText(t) PROVE DataTyped'
  <2> DEFINE c == Head(run[t].feed).chunk
             s == think_filter[t].buffer \o c
             r == Process[s][think_filter[t].in_think]
             f == [buffer |-> r.buffer, in_think |-> r.in_think, todo |-> r.events]
             broken == garbled[t] \/ (r.in_think /\ Last(c) = "</th")
  <2>1. Head(run[t].feed) \in GraphEvent /\ Head(run[t].feed).kind = "text"
    BY <1>0, <1>8, HeadTailProperties DEF ReadText, Reads
  <2>2. c \in Seq(Symbol)
    BY <2>1, EventsTyped
  <2>3. s \in Seq(Symbol)
    BY <1>0, <2>2, ConcatProperties
  <2>4. r \in Output
    <3> HIDE DEF s
    <3> QED BY <1>0, <2>3, ProcessType
  <2>5. think_filter' = [think_filter EXCEPT ![t] = f] /\ garbled' = [garbled EXCEPT ![t] = broken]
    BY <1>8 DEF ReadText, FilterChunk
  <2>6. f \in Filter
    <3> HIDE DEF r
    <3> QED BY <2>4, FilterTyped DEF Output
  <2>7. broken \in BOOLEAN
    BY <1>a
  <2>8. UNCHANGED <<exists, table, said, calm, shown, parts>>
    BY <1>8 DEF ReadText, conversation, client
  <2> HIDE DEF f, broken
  <2> QED BY <1>7, <1>a, <2>5, <2>6, <2>7, <2>8
<1>9. ASSUME NEW t \in Turn, ReadEnd(t) PROVE DataTyped'
  <2> DEFINE old == think_filter[t]
             es == Flush(old.buffer, old.in_think)
             f == [old EXCEPT !.todo = es, !.buffer = <<>>]
  <2>1. es \in Seq(FilterEvent) /\ <<>> \in Seq(Symbol) /\ old \in Filter
    <3>1. old.buffer \in Seq(Symbol) /\ old.in_think \in BOOLEAN /\ <<>> \in Seq(FilterEvent)
      BY <1>0
    <3> HIDE DEF old
    <3>2. es \in Seq(FilterEvent)
      BY <3>1, FilterTyped
    <3> QED BY <1>0, <3>2 DEF old
  <2>2. f \in Filter
    <3> HIDE DEF es, old
    <3> QED BY <2>1 DEF Filter
  <2>3. think_filter' = [think_filter EXCEPT ![t] = f]
    BY <1>0, <1>9 DEF ReadEnd, DataTyped
  <2>4. UNCHANGED <<exists, table, said, calm, shown, parts, garbled>>
    BY <1>9 DEF ReadEnd, conversation, client, history
  <2> HIDE DEF f
  <2> QED BY <1>7, <1>a, <2>2, <2>3, <2>4
<1>10. ASSUME NEW t \in Turn, Yield(t) \/ YieldRest(t) PROVE DataTyped'
  <2> DEFINE e == Head(think_filter[t].todo)
             f == [think_filter[t] EXCEPT !.todo = Tail(@)]
  <2>1. /\ e \in FilterEvent /\ f \in Filter
        /\ e.type = "thinking" \/ e.type = "chunk"
        /\ e.content \in Seq(Symbol)
    <3>1. think_filter[t].todo # <<>>
      BY <1>10 DEF Yield, YieldRest
    <3>2. e \in FilterEvent /\ Tail(think_filter[t].todo) \in Seq(FilterEvent)
      BY <1>0, <3>1, FilterTyped
    <3> QED BY <1>0, <3>2 DEF FilterEvent, Filter
  <2>2. think_filter' = [think_filter EXCEPT ![t] = f]
    BY <1>10 DEF Yield, YieldRest, TakeEvent
  <2>3. UNCHANGED <<exists, table, said, calm, garbled>>
    BY <1>10 DEF Yield, YieldRest, conversation, history
  <2>4. YieldThinking(t) \/ YieldText(t, e.content)
    BY <1>10 DEF Yield, YieldRest, Lines
  <2> HIDE DEF e, f
  <2>5. CASE YieldThinking(t)
    BY <1>7, <1>a, <2>1, <2>2, <2>3, <2>5 DEF YieldThinking
  <2>6. CASE YieldText(t, e.content)
    <3>1. shown[t] \o e.content \in Seq(Symbol) /\ parts[t] \o e.content \in Seq(Symbol)
      BY <1>a, <2>1, ConcatProperties
    <3>2. /\ shown' = [shown EXCEPT ![t] = shown[t] \o e.content]
          /\ parts' = [parts EXCEPT ![t] = parts[t] \o e.content]
      BY <2>6 DEF YieldText
    <3> QED BY <1>7, <1>a, <2>1, <2>2, <2>3, <3>1, <3>2
  <2> QED BY <2>4, <2>5, <2>6
<1>11. ASSUME NEW t \in Turn, Leave(t) PROVE DataTyped'
  <2>1. NewFilter \in Filter /\ <<>> \in Seq(Symbol)
    BY DEF NewFilter, Filter
  <2> QED BY <1>0, <1>11, <2>1 DEF Leave, DataTyped, conversation
<1> QED
  BY <1>1, <1>2, <1>3, <1>4, <1>5, <1>6, <1>8, <1>9, <1>10, <1>11, <1>12
     DEF Next, vars, conversation, stream, client, history

\* Every variable keeps its type, the events and the buffer of the filter included.
THEOREM Types == Spec => []TypeOK
<1>1. Init => AInv /\ CInv
  BY CalmInit
<1>2. TInv => TypeOK
  BY DEF TInv, AInv, RunsTyped, CInv, OInv, Typed, DataTyped, Row, TypeOK
<1>3. Init => TInv
  BY <1>1, TypeInit DEF TInv
<1> QED
  BY <1>2, <1>3, TypeKept, PTL DEF Spec

-----------------------------------------------------------------------------
\* What is shown.  A reader who heard what the generator has read of the graph's
\* events has the text that is shown and the text that is about to be.

ChunkOf == [e \in GraphEvent |-> IF e.kind = "text" THEN e.chunk ELSE <<>>]

Spelled(feed) == Says(ChunkOf, feed)

Streams(words, feed, filter, text) ==
    \E heard \in Seq(Symbol), x \in Reader :
       /\ x = Seen[heard][Unread]
       /\ words = heard \o Spelled(feed)
       /\ x.text = text \o TextOf(filter.todo)
       /\ x.inside <=> filter.in_think
       /\ Keeps(x, filter.buffer)

LEMMA ChunkType == ChunkOf \in [GraphEvent -> Seq(Symbol)]
<1>1. ASSUME NEW e \in GraphEvent
      PROVE  (IF e.kind = "text" THEN e.chunk ELSE <<>>) \in Seq(Symbol)
  <2>1. e.kind = "text" => e.chunk \in Chunk
    BY EventsTyped
  <2>2. \A c \in Chunk : c \in Seq(Symbol)
    BY ChunkAssumption
  <2> QED BY <2>1, <2>2
<1> QED BY <1>1 DEF ChunkOf

LEMMA SpelledGrows ==
    ASSUME NEW feed \in Seq(GraphEvent)
    PROVE  /\ Spelled(<<>>) = <<>> /\ Spelled(feed) \in Seq(Symbol)
           /\ \A e \in GraphEvent : /\ Spelled(Append(feed, e)) = Spelled(feed) \o ChunkOf[e]
                                    /\ ChunkOf[e] \in Seq(Symbol)
           /\ feed # <<>> => /\ Head(feed) \in GraphEvent /\ Tail(feed) \in Seq(GraphEvent)
                             /\ Spelled(feed) = ChunkOf[Head(feed)] \o Spelled(Tail(feed))
<1>1. /\ Says(ChunkOf, <<>>) = <<>>
      /\ Says(ChunkOf, feed) \in Seq(Symbol)
      /\ \A e \in GraphEvent :
            Says(ChunkOf, Append(feed, e)) = Says(ChunkOf, feed) \o ChunkOf[e]
      /\ feed # <<>> => /\ Head(feed) \in GraphEvent /\ Tail(feed) \in Seq(GraphEvent)
                        /\ Says(ChunkOf, feed) = ChunkOf[Head(feed)] \o Says(ChunkOf, Tail(feed))
  BY ChunkType, SaysGrows
<1>2. \A e \in GraphEvent : ChunkOf[e] \in Seq(Symbol)
  BY ChunkType
<1> QED BY <1>1, <1>2 DEF Spelled

LEMMA TextGrows ==
    ASSUME NEW es \in Seq(FilterEvent)
    PROVE  /\ TextOf(<<>>) = <<>> /\ TextOf(es) \in Seq(Symbol)
           /\ es # <<>> => /\ Head(es) \in FilterEvent /\ Tail(es) \in Seq(FilterEvent)
                           /\ Text[Head(es)] \in Seq(Symbol)
                           /\ TextOf(es) = Text[Head(es)] \o TextOf(Tail(es))
<1>1. /\ Says(Text, <<>>) = <<>> /\ Says(Text, es) \in Seq(Symbol)
      /\ es # <<>> => /\ Head(es) \in FilterEvent /\ Tail(es) \in Seq(FilterEvent)
                      /\ Says(Text, es) = Text[Head(es)] \o Says(Text, Tail(es))
  BY TextType, SaysGrows
<1>2. \A e \in FilterEvent : Text[e] \in Seq(Symbol)
  BY TextType
<1> QED BY <1>1, <1>2 DEF TextOf

LEMMA StreamStarts == Streams(<<>>, <<>>, NewFilter, <<>>)
<1>1. Unread \in Reader /\ Unread.text = <<>> /\ ~Unread.inside /\ ~Unread.held
  BY DEF Unread, Reader
<1>2. Seen[<<>>][Unread] = Unread
  BY <1>1, SeenReads
<1>3. <<>> \in Seq(GraphEvent) /\ <<>> \in Seq(FilterEvent) /\ <<>> \in Seq(Symbol)
  OBVIOUS
<1>4. Spelled(<<>>) = <<>> /\ TextOf(<<>>) = <<>>
  BY <1>3, SpelledGrows, TextGrows
<1>5. <<>> \o <<>> = <<>>
  BY <1>3, ConcatEmptySeq
<1>6. NewFilter.todo = <<>> /\ NewFilter.buffer = <<>> /\ ~NewFilter.in_think
  BY DEF NewFilter
<1>7. Keeps(Unread, NewFilter.buffer)
  BY <1>1, <1>6 DEF Keeps
<1> QED BY <1>1, <1>2, <1>3, <1>4, <1>5, <1>6, <1>7 DEF Streams

\* The graph emits an event.
LEMMA StreamSays ==
    ASSUME NEW words, NEW feed \in Seq(GraphEvent), NEW filter, NEW text,
           Streams(words, feed, filter, text), NEW e \in GraphEvent
    PROVE  Streams(words \o ChunkOf[e], Append(feed, e), filter, text)
<1>1. PICK heard \in Seq(Symbol), x \in Reader :
         /\ x = Seen[heard][Unread]
         /\ words = heard \o Spelled(feed)
         /\ x.text = text \o TextOf(filter.todo)
         /\ x.inside <=> filter.in_think
         /\ Keeps(x, filter.buffer)
  BY DEF Streams
<1> DEFINE p == Spelled(feed)
           c == ChunkOf[e]
<1>2. p \in Seq(Symbol) /\ c \in Seq(Symbol) /\ Spelled(Append(feed, e)) = p \o c
  BY SpelledGrows
<1>3. (heard \o p) \o c = heard \o (p \o c)
  <2> HIDE DEF p, c
  <2>1. heard \in Seq(Symbol) /\ p \in Seq(Symbol) /\ c \in Seq(Symbol)
    BY <1>2
  <2> QED BY ONLY <2>1
<1>4. words \o c = heard \o Spelled(Append(feed, e))
  BY <1>1, <1>2, <1>3
<1> QED BY <1>1, <1>4 DEF Streams

\* The generator reads what a model said.
LEMMA StreamReads ==
    ASSUME NEW words, NEW feed \in Seq(GraphEvent), NEW filter \in Filter,
           NEW text \in Seq(Symbol),
           Streams(words, feed, filter, text), filter.todo = <<>>,
           feed # <<>>, Head(feed).kind = "text",
           NEW after \in Filter,
           LET r == Process[filter.buffer \o Head(feed).chunk][filter.in_think] IN
             /\ after.buffer = r.buffer /\ after.todo = r.events
             /\ after.in_think <=> r.in_think
             /\ ~(r.in_think /\ Last(Head(feed).chunk) = "</th")
    PROVE  Streams(words, Tail(feed), after, text)
<1>1. PICK heard \in Seq(Symbol), x \in Reader :
         /\ x = Seen[heard][Unread]
         /\ words = heard \o Spelled(feed)
         /\ x.text = text \o TextOf(filter.todo)
         /\ x.inside <=> filter.in_think
         /\ Keeps(x, filter.buffer)
  BY DEF Streams
<1> DEFINE c == Head(feed).chunk
           b == filter.buffer
           r == Process[b \o c][x.inside]
           z == Seen[c][x]
           p == Spelled(Tail(feed))
<1>2. /\ Head(feed) \in GraphEvent /\ Tail(feed) \in Seq(GraphEvent)
      /\ Spelled(feed) = ChunkOf[Head(feed)] \o Spelled(Tail(feed))
      /\ Spelled(Tail(feed)) \in Seq(Symbol)
  BY SpelledGrows
<1>3. c \in Seq(Symbol) /\ c # <<>> /\ ChunkOf[Head(feed)] = c
  BY <1>2, EventsTyped DEF ChunkOf
<1>4. x.inside = filter.in_think /\ b \in Seq(Symbol)
  BY <1>1 DEF Filter, Reader
<1>5. /\ after.buffer = r.buffer /\ after.todo = r.events
      /\ after.in_think <=> r.in_think
      /\ ~(r.in_think /\ Last(c) = "</th")
  BY <1>4
<1>6. x.text = text
  <2>1. TextOf(<<>>) = <<>>
    <3>1. <<>> \in Seq(FilterEvent)
      OBVIOUS
    <3> QED BY <3>1, TextGrows
  <2>2. text \o <<>> = text
    BY ConcatEmptySeq
  <2> QED BY <1>1, <2>1, <2>2
<1>7. /\ z.text = x.text \o TextOf(r.events)
      /\ z.inside <=> r.in_think
      /\ Keeps(z, r.buffer)
  <2>1. Keeps(x, b)
    BY <1>1
  <2>2. ~(Process[b \o c][x.inside].in_think /\ Last(c) = "</th")
    BY <1>5
  <2>3. x \in Reader /\ b \in Seq(Symbol) /\ c \in Seq(Symbol) /\ c # <<>>
    BY <1>3, <1>4
  <2> HIDE DEF c, b, r, z, p
  <2>4. /\ Seen[c][x].text = x.text \o TextOf(Process[b \o c][x.inside].events)
        /\ Seen[c][x].inside <=> Process[b \o c][x.inside].in_think
        /\ Keeps(Seen[c][x], Process[b \o c][x.inside].buffer)
    BY ONLY <2>1, <2>2, <2>3, FilterResumes
  <2> QED BY <2>4 DEF r, z
<1>8. heard \o c \in Seq(Symbol) /\ z \in Reader /\ z = Seen[heard \o c][Unread]
  <2>1. Unread \in Reader
    BY DEF Unread, Reader
  <2> HIDE DEF c
  <2>2. heard \o c \in Seq(Symbol)
    BY <1>3, ConcatProperties
  <2>3. Seen[heard \o c][Unread] = Seen[c][Seen[heard][Unread]]
    BY <1>3, <2>1, SeenConcat
  <2>4. z \in Reader
    BY <1>3, SeenReads
  <2> QED BY <1>1, <2>2, <2>3, <2>4
<1>9. words = (heard \o c) \o p
  <2>1. (heard \o c) \o p = heard \o (c \o p)
    <3>1. heard \in Seq(Symbol) /\ c \in Seq(Symbol) /\ p \in Seq(Symbol)
      BY <1>2, <1>3
    <3> HIDE DEF c, p
    <3> QED BY ONLY <3>1
  <2> QED BY <1>1, <1>2, <1>3, <2>1
<1> DEFINE h == heard \o c
<1>10. h \in Seq(Symbol) /\ z = Seen[h][Unread] /\ words = h \o p /\ z \in Reader
  BY <1>8, <1>9
<1> HIDE DEF c, b, r, z, p, h
<1>11. /\ z.text = text \o TextOf(after.todo)
       /\ z.inside <=> after.in_think
       /\ Keeps(z, after.buffer)
  BY <1>5, <1>6, <1>7
<1> QED BY <1>10, <1>11 DEF Streams, p

\* It reads an event that says nothing.
LEMMA StreamSkips ==
    ASSUME NEW words, NEW feed \in Seq(GraphEvent), NEW filter, NEW text,
           Streams(words, feed, filter, text), feed # <<>>, Head(feed).kind # "text"
    PROVE  Streams(words, Tail(feed), filter, text)
<1>1. /\ Head(feed) \in GraphEvent /\ Tail(feed) \in Seq(GraphEvent)
      /\ Spelled(feed) = ChunkOf[Head(feed)] \o Spelled(Tail(feed))
      /\ Spelled(Tail(feed)) \in Seq(Symbol)
  BY SpelledGrows
<1>2. ChunkOf[Head(feed)] = <<>>
  BY <1>1 DEF ChunkOf
<1>3. <<>> \o Spelled(Tail(feed)) = Spelled(Tail(feed))
  BY <1>1, ConcatEmptySeq
<1>4. Spelled(feed) = Spelled(Tail(feed))
  BY <1>1, <1>2, <1>3
<1> QED BY <1>4 DEF Streams

\* It reads the end of the graph, the last event, and flushes the filter.
LEMMA StreamEnds ==
    ASSUME NEW words, NEW feed \in Seq(GraphEvent), NEW filter \in Filter,
           NEW text \in Seq(Symbol),
           Streams(words, feed, filter, text), filter.todo = <<>>, feed = <<>>
    PROVE  text \o TextOf(Flush(filter.buffer, filter.in_think)) = Visible(words)
<1>1. PICK heard \in Seq(Symbol), x \in Reader :
         /\ x = Seen[heard][Unread]
         /\ words = heard \o Spelled(feed)
         /\ x.text = text \o TextOf(filter.todo)
         /\ x.inside <=> filter.in_think
         /\ Keeps(x, filter.buffer)
  BY DEF Streams
<1>2. Spelled(<<>>) = <<>> /\ TextOf(<<>>) = <<>>
  <2>1. <<>> \in Seq(GraphEvent) /\ <<>> \in Seq(FilterEvent)
    OBVIOUS
  <2> QED BY <2>1, SpelledGrows, TextGrows
<1>3. heard \o <<>> = heard /\ text \o <<>> = text
  BY ConcatEmptySeq
<1>4. words = heard /\ x.text = text
  BY <1>1, <1>2, <1>3
<1>5. x.inside = filter.in_think /\ filter.buffer \in Seq(Symbol)
  BY <1>1 DEF Filter, Reader
<1>6. Visible(heard) = x.text \o TextOf(Flush(filter.buffer, x.inside))
  <2> DEFINE b == filter.buffer
  <2>1. /\ heard \in Seq(Symbol) /\ x \in Reader /\ x = Seen[heard][Unread]
        /\ b \in Seq(Symbol) /\ Keeps(x, b)
    BY <1>1, <1>5
  <2> HIDE DEF b
  <2>2. Visible(heard) = x.text \o TextOf(Flush(b, x.inside))
    BY ONLY <2>1, FlushShows
  <2> QED BY <2>2 DEF b
<1> QED BY <1>4, <1>5, <1>6

\* It yields the next of the filtered events.
LEMMA Yielded ==
    ASSUME NEW es \in Seq(FilterEvent), es # <<>>, NEW text \in Seq(Symbol)
    PROVE  text \o TextOf(es) = (text \o Text[Head(es)]) \o TextOf(Tail(es))
<1> DEFINE a == Text[Head(es)]
           b == TextOf(Tail(es))
<1>1. a \in Seq(Symbol) /\ b \in Seq(Symbol) /\ TextOf(es) = a \o b
  BY TextGrows
<1> HIDE DEF a, b
<1>2. text \o (a \o b) = (text \o a) \o b
  <2>1. text \in Seq(Symbol) /\ a \in Seq(Symbol) /\ b \in Seq(Symbol)
    BY <1>1
  <2> QED BY ONLY <2>1
<1> QED BY <1>1, <1>2 DEF a, b

LEMMA StreamYields ==
    ASSUME NEW words, NEW feed, NEW filter \in Filter, NEW text \in Seq(Symbol),
           Streams(words, feed, filter, text), filter.todo # <<>>,
           NEW after \in Filter, after.buffer = filter.buffer,
           after.in_think <=> filter.in_think, after.todo = Tail(filter.todo)
    PROVE  Streams(words, feed, after, text \o Text[Head(filter.todo)])
<1>1. filter.todo \in Seq(FilterEvent)
  BY DEF Filter
<1>2. text \o TextOf(filter.todo) = (text \o Text[Head(filter.todo)]) \o TextOf(after.todo)
  BY <1>1, Yielded
<1> QED BY <1>2 DEF Streams

\* The graph's last event is its end or its error, and then it says no more.
Ends(t) ==
    \A i \in 1..Len(run[t].feed) :
       run[t].feed[i].kind \in {"end", "error"} => i = Len(run[t].feed) /\ ~Busy(t)

Fresh(t) ==
    /\ said[t] = <<>> /\ shown[t] = <<>>
    /\ think_filter[t] = NewFilter /\ run[t] = NoRun

Watched(t) ==
    /\ Ends(t)
    /\ gen[t].pc \in {"idle", "checked", "admitted"} => Fresh(t)
    /\ gen[t].pc = "streaming" /\ ~garbled[t] =>
          Streams(said[t], run[t].feed, think_filter[t], shown[t])
    /\ gen[t].pc = "finishing" =>
          /\ ~Busy(t)
          /\ ~garbled[t] => shown[t] \o TextOf(think_filter[t].todo) = Visible(said[t])
    /\ view[t].ended = "stop" => ~Busy(t) /\ (~garbled[t] => shown[t] = Visible(said[t]))

VInv == TInv /\ \A t \in Turn : Watched(t)

\* A step that is not of t's stream, or of its generator alone.
Still(t) ==
    /\ think_filter'[t] = think_filter[t] /\ run'[t] = run[t]
    /\ view'[t].ended = view[t].ended /\ shown'[t] = shown[t]
    /\ said'[t] = said[t] /\ garbled'[t] = garbled[t]

LEMMA StillWatched ==
    ASSUME NEW t \in Turn, Watched(t), Still(t),
           \/ gen'[t].pc = gen[t].pc
           \/ gen[t].pc \in {"idle", "checked"} /\ gen'[t].pc \in {"idle", "checked", "admitted"}
           \/ gen'[t].pc \in {"saving", "over", "unsaved", "cancelling", "cut"}
    PROVE  Watched(t)'
<1>1. Ends(t)'
  BY DEF Watched, Ends, Still, Busy
<1>2. gen'[t].pc \in {"idle", "checked", "admitted"} => Fresh(t)'
  BY DEF Watched, Fresh, Still
<1>3. (gen[t].pc = "streaming" /\ ~garbled[t] =>
          Streams(said[t], run[t].feed, think_filter[t], shown[t]))'
  BY DEF Watched, Still
<1>4. (gen[t].pc = "finishing" =>
          /\ ~Busy(t)
          /\ ~garbled[t] => shown[t] \o TextOf(think_filter[t].todo) = Visible(said[t]))'
  BY DEF Watched, Still, Busy
<1>5. (view[t].ended = "stop" => ~Busy(t) /\ (~garbled[t] => shown[t] = Visible(said[t])))'
  BY DEF Watched, Still, Busy
<1> QED BY <1>1, <1>2, <1>3, <1>4, <1>5 DEF Watched

\* A step of t's run, and what it adds to the events.
LEMMA RunWatched ==
    ASSUME TInv, NEW t \in Turn, Watched(t), Busy(t), run'[t] \in Run,
           gen'[t].pc = gen[t].pc, think_filter'[t] = think_filter[t],
           view'[t].ended = view[t].ended, shown'[t] = shown[t], garbled[t] => garbled'[t],
           \/ run'[t].feed = run[t].feed /\ said'[t] = said[t]
           \/ \E e \in GraphEvent : /\ run'[t].feed = Append(run[t].feed, e)
                                    /\ garbled'[t] \/ said'[t] = said[t] \o ChunkOf[e]
                                    /\ e.kind \in {"end", "error"} => ~Busy(t)'
    PROVE  Watched(t)'
<1>1. /\ gen[t].pc \notin {"idle", "checked", "admitted", "finishing"}
      /\ view[t].ended # "stop"
      /\ run[t].feed \in Seq(GraphEvent)
  <2>1. run[t].feed \in Seq(GraphEvent)
    BY DEF TInv, AInv, RunsTyped, Run
  <2>2. run[t] # NoRun
    BY DEF Busy, NoRun
  <2> QED BY <2>1, <2>2 DEF Watched, Fresh
<1>2. \A i \in 1..Len(run[t].feed) : run[t].feed[i].kind \notin {"end", "error"}
  BY DEF Watched, Ends
<1>3. CASE run'[t].feed = run[t].feed /\ said'[t] = said[t]
  <2>1. Ends(t)'
    BY <1>2, <1>3 DEF Ends
  <2>2. (gen[t].pc = "streaming" /\ ~garbled[t] =>
            Streams(said[t], run[t].feed, think_filter[t], shown[t]))'
    BY <1>3 DEF Watched
  <2> QED BY <1>1, <2>1, <2>2 DEF Watched
<1>4. ASSUME NEW e \in GraphEvent, run'[t].feed = Append(run[t].feed, e),
             garbled'[t] \/ said'[t] = said[t] \o ChunkOf[e],
             e.kind \in {"end", "error"} => ~Busy(t)'
      PROVE  Watched(t)'
  <2>1. Ends(t)'
    <3> DEFINE f == run[t].feed
               a == Append(f, e)
    <3>1. /\ Len(a) = Len(f) + 1 /\ Len(f) \in Nat
          /\ \A i \in 1..Len(f) : a[i] = f[i]
          /\ a[Len(f) + 1] = e
      BY <1>1, AppendProperties
    <3>2. \A i \in 1..Len(f) : f[i].kind \notin {"end", "error"}
      BY <1>2
    <3>3. run'[t].feed = a
      BY <1>4
    <3> HIDE DEF f, a
    <3>4. \A i \in 1..Len(a) : a[i].kind \in {"end", "error"} =>
                                i = Len(a) /\ e.kind \in {"end", "error"}
      <4>1. \A i \in 1..Len(a) : i \in 1..Len(f) \/ i = Len(f) + 1
        BY <3>1
      <4> QED BY <3>1, <3>2, <4>1
    <3> QED BY <1>4, <3>3, <3>4 DEF Ends
  <2>2. (gen[t].pc = "streaming" /\ ~garbled[t] =>
            Streams(said[t], run[t].feed, think_filter[t], shown[t]))'
    <3> SUFFICES ASSUME gen[t].pc = "streaming", ~garbled'[t]
                 PROVE  Streams(said'[t], run'[t].feed, think_filter'[t], shown'[t])
      OBVIOUS
    <3>1. Streams(said[t], run[t].feed, think_filter[t], shown[t])
      BY DEF Watched
    <3>2. Streams(said[t] \o ChunkOf[e], Append(run[t].feed, e), think_filter[t], shown[t])
      BY <1>1, <3>1, StreamSays
    <3> QED BY <1>4, <3>2
  <2> QED BY <1>1, <2>1, <2>2 DEF Watched
<1> QED BY <1>3, <1>4

\* The generator takes an event from the feed.
LEMMA EndsRead ==
    ASSUME TInv, NEW t \in Turn, Ends(t), NEW kind, Reads(t, kind)
    PROVE  /\ Ends(t)' /\ (Busy(t)' <=> Busy(t))
           /\ run'[t].feed = Tail(run[t].feed)
           /\ kind \in {"end", "error"} => Tail(run[t].feed) = <<>> /\ ~Busy(t)
           /\ Head(run[t].feed).kind = kind /\ run[t].feed # <<>>
           /\ run[t].feed \in Seq(GraphEvent) /\ gen[t].pc = "streaming"
           /\ think_filter[t].todo = <<>>
           /\ \A u \in Turn \ {t} : run'[u] = run[u]
<1> DEFINE f == run[t].feed
           g == Tail(f)
<1>1. run[t] \in Run /\ f \in Seq(GraphEvent) /\ run \in [Turn -> Run]
  BY DEF TInv, AInv, RunsTyped, Run
<1>2. f # <<>> /\ Head(f).kind = kind /\ run' = [run EXCEPT ![t].feed = Tail(@)]
  BY DEF Reads
<1>3. run'[t].feed = g /\ run'[t].node = run[t].node /\ \A u \in Turn \ {t} : run'[u] = run[u]
  BY <1>1, <1>2 DEF Run
<1>4. /\ g \in Seq(GraphEvent) /\ Len(g) = Len(f) - 1 /\ Len(f) \in Nat /\ Len(f) > 0
      /\ \A i \in 1..Len(g) : g[i] = f[i + 1]
      /\ Head(f) = f[1]
  BY <1>1, <1>2, HeadTailProperties, EmptySeq
<1> HIDE DEF f, g
<1>5. Busy(t)' <=> Busy(t)
  BY <1>3 DEF Busy
<1>6. \A i \in 1..Len(f) : f[i].kind \in {"end", "error"} => i = Len(f) /\ ~Busy(t)
  BY DEF Ends, f
<1>7. Ends(t)'
  <2>1. \A i \in 1..Len(g) : g[i].kind \in {"end", "error"} => i = Len(g) /\ ~Busy(t)
    <3> SUFFICES ASSUME NEW i \in 1..Len(g), g[i].kind \in {"end", "error"}
                 PROVE  i = Len(g) /\ ~Busy(t)
      OBVIOUS
    <3>1. i + 1 \in 1..Len(f)
      BY <1>4
    <3> QED BY <1>4, <1>6, <3>1
  <2> QED BY <1>3, <1>5, <2>1 DEF Ends
<1>8. ASSUME kind \in {"end", "error"} PROVE g = <<>> /\ ~Busy(t)
  <2>1. 1 \in 1..Len(f)
    BY <1>4
  <2>4. f[1].kind \in {"end", "error"}
    <3>1. f[1].kind = kind
      BY <1>2, <1>4
    <3> QED BY <1>8, <3>1
  <2>2. 1 = Len(f) /\ ~Busy(t)
    BY <1>6, <2>1, <2>4
  <2>3. Len(g) = 0
    <3>1. Len(g) = Len(f) - 1
      BY <1>4
    <3>2. Len(f) = 1
      BY <2>2
    <3>3. Len(g) = 1 - 1
      BY <3>1, <3>2
    <3> QED BY <3>3
  <2> QED BY <1>4, <2>2, <2>3, EmptySeq
<1> QED BY <1>1, <1>2, <1>3, <1>5, <1>7, <1>8 DEF f, g, Reads

LEMMA ShownKept == VInv /\ [Next]_vars => VInv'
<1> SUFFICES ASSUME VInv, [Next]_vars PROVE VInv'
  OBVIOUS
<1>0. TInv /\ TInv' /\ \A t \in Turn : Watched(t)
  BY TypeKept DEF VInv
<1>a. /\ gen \in [Turn -> Generator] /\ view \in [Turn -> View] /\ run \in [Turn -> Run]
      /\ think_filter \in [Turn -> Filter] /\ shown \in [Turn -> Seq(Symbol)]
      /\ said \in [Turn -> Seq(Symbol)] /\ garbled \in [Turn -> BOOLEAN]
  BY <1>0 DEF TInv, AInv, RunsTyped, CInv, OInv, Typed, DataTyped
<1>b. run' \in [Turn -> Run] /\ think_filter' \in [Turn -> Filter]
  BY <1>0 DEF TInv, AInv, RunsTyped, DataTyped
<1>c. \A t \in Turn : view[t].ended = "stop" => gen[t].pc \in {"saving", "over", "unsaved", "cancelling", "cut"}
  BY <1>0 DEF TInv, CInv, OInv, Finished
<1>d. \A t \in Turn : view'[t].ended = "stop" => gen'[t].pc \in {"saving", "over", "unsaved", "cancelling", "cut"}
  BY <1>0 DEF TInv, CInv, OInv, Finished
<1>1. ASSUME NEW t \in Turn, Watched(t)',
             \A u \in Turn \ {t} : Still(u) /\ gen'[u].pc = gen[u].pc
      PROVE  VInv'
  <2>1. ASSUME NEW u \in Turn PROVE Watched(u)'
    BY <1>0, <1>1, StillWatched
  <2> QED BY <1>0, <2>1 DEF VInv
<1>2. CASE Delete \/ UNCHANGED vars
  <2>1. UNCHANGED <<gen, think_filter, run, view, shown, said, garbled>>
    BY <1>2 DEF Delete, vars, stream, client, history
  <2>2. \A u \in Turn : Still(u) /\ gen'[u].pc = gen[u].pc
    BY <2>1 DEF Still
  <2>3. ASSUME NEW u \in Turn PROVE Watched(u)'
    BY <1>0, <2>2, StillWatched
  <2> QED BY <1>0, <2>3 DEF VInv
<1>3. ASSUME NEW t \in Turn, NEW pc, gen' = [gen EXCEPT ![t].pc = pc],
             UNCHANGED <<think_filter, run, client, said, garbled>>,
             \/ gen[t].pc \in {"idle", "checked"} /\ pc \in {"idle", "checked", "admitted"}
             \/ pc \in {"saving", "over", "unsaved", "cancelling", "cut"}
      PROVE  VInv'
  <2>1. gen'[t].pc = pc /\ \A u \in Turn \ {t} : gen'[u] = gen[u]
    BY <1>a, <1>3 DEF Generator
  <2>2. \A u \in Turn : Still(u)
    BY <1>3 DEF Still, client
  <2>3. Watched(t)'
    BY <1>0, <1>3, <2>1, <2>2, StillWatched
  <2> QED BY <1>1, <2>1, <2>2, <2>3
<1>4. ASSUME NEW t \in Turn,
             Post(t) \/ AddUser(t) \/ Save(t) \/ SaveFails(t) \/ Interrupt(t) \/ Cut(t)
      PROVE  VInv'
  <2>1. CASE Post(t)
    BY <1>3, <2>1 DEF Post, history
  <2>2. CASE AddUser(t)
    BY <1>3, <2>2 DEF AddUser, history
  <2>3. CASE Save(t)
    BY <1>3, <2>3 DEF Save, history
  <2>4. CASE Cut(t)
    BY <1>3, <2>4 DEF Cut
  <2>5. CASE SaveFails(t)
    BY <1>3, <2>5 DEF SaveFails, history
  <2>6. CASE Interrupt(t)
    BY <1>3, <2>6 DEF Interrupt
  <2> QED BY <1>4, <2>1, <2>2, <2>3, <2>4, <2>5, <2>6
<1>5. ASSUME NEW t \in Turn, Start(t) PROVE VInv'
  <2> DEFINE r == [NoRun EXCEPT !.node = "analyze", !.branch = Append(thread, "human")]
  <2>1. /\ gen'[t].pc = "streaming" /\ run'[t] = r
        /\ UNCHANGED <<think_filter, view, shown, said, garbled>>
        /\ \A u \in Turn \ {t} : gen'[u] = gen[u] /\ run'[u] = run[u]
    BY <1>a, <1>5 DEF Start, Generator, client
  <2>2. r.feed = <<>>
    BY DEF NoRun
  <2> HIDE DEF r
  <2>3. said[t] = <<>> /\ shown[t] = <<>> /\ think_filter[t] = NewFilter
    BY <1>0, <1>5 DEF Start, Watched, Fresh
  <2>4. Streams(said'[t], run'[t].feed, think_filter'[t], shown'[t])
    BY <2>1, <2>2, <2>3, StreamStarts
  <2>5. Watched(t)'
    <3>1. Ends(t)'
      BY <2>1, <2>2 DEF Ends
    <3> QED BY <1>d, <2>1, <2>4, <3>1 DEF Watched
  <2>6. \A u \in Turn \ {t} : Still(u) /\ gen'[u].pc = gen[u].pc
    BY <2>1 DEF Still
  <2> QED BY <1>1, <2>5, <2>6
<1>6. ASSUME NEW t \in Turn, Busy(t), garbled[t] => garbled'[t],
             \A u \in Turn \ {t} :
                run'[u] = run[u] /\ said'[u] = said[u] /\ garbled'[u] = garbled[u],
             UNCHANGED <<stream, client>>,
             \/ run'[t].feed = run[t].feed /\ said'[t] = said[t]
             \/ \E e \in GraphEvent : /\ run'[t].feed = Append(run[t].feed, e)
                                      /\ garbled'[t] \/ said'[t] = said[t] \o ChunkOf[e]
                                      /\ e.kind \in {"end", "error"} => ~Busy(t)'
      PROVE  VInv'
  <2>1. UNCHANGED <<gen, think_filter, view, shown>>
    BY <1>6 DEF stream, client
  <2>2. run'[t] \in Run
    BY <1>b
  <2>3. Watched(t)'
    BY <1>0, <1>6, <2>1, <2>2, RunWatched
  <2>4. \A u \in Turn \ {t} : Still(u) /\ gen'[u].pc = gen[u].pc
    BY <1>6, <2>1 DEF Still
  <2> QED BY <1>1, <2>3, <2>4
<1>7. ASSUME NEW t \in Turn,
             Analyze(t) \/ PlanAgain(t) \/ Plan(t) \/ Execute(t) \/ Cancel(t)
      PROVE  VInv'
  <2>1. /\ Busy(t) /\ UNCHANGED <<stream, client, history>>
        /\ run'[t].feed = run[t].feed /\ \A u \in Turn \ {t} : run'[u] = run[u]
    <3>0. ASSUME NEW messages, NEW next, Checkpoint(t, messages, next)
          PROVE  run'[t].feed = run[t].feed /\ \A u \in Turn \ {t} : run'[u] = run[u]
      BY <1>a, <3>0 DEF Checkpoint, Run
    <3>1. CASE Analyze(t)
      BY <3>0, <3>1 DEF Analyze, Busy
    <3>2. CASE PlanAgain(t)
      BY <1>a, <3>2 DEF PlanAgain, Busy, Run
    <3>3. CASE Plan(t)
      BY <3>0, <3>3 DEF Plan, Busy
    <3>4. CASE Execute(t)
      BY <3>0, <3>4 DEF Execute, Busy
    <3>5. CASE Cancel(t)
      BY <1>a, <3>5 DEF Cancel, Run
    <3> QED BY <1>7, <3>1, <3>2, <3>3, <3>4, <3>5
  <2> QED BY <1>6, <2>1 DEF history
<1>8. ASSUME NEW t \in Turn, NEW e \in GraphEvent,
             Busy(t), UNCHANGED <<stream, client, garbled>>,
             \A u \in Turn \ {t} : run'[u] = run[u],
             run'[t].feed = Append(run[t].feed, e),
             said' = [said EXCEPT ![t] = said[t] \o ChunkOf[e]],
             e.kind \in {"end", "error"} => ~Busy(t)'
      PROVE  VInv'
  <2>1. said'[t] = said[t] \o ChunkOf[e] /\ \A u \in Turn \ {t} : said'[u] = said[u]
    BY <1>a, <1>8
  <2> QED BY <1>6, <1>8, <2>1
<1>9. ASSUME NEW t \in Turn, NEW c \in Chunk, Say(t, c) PROVE VInv'
  <2> DEFINE e == [kind |-> "text", chunk |-> c]
  <2>1. e \in GraphEvent /\ ChunkOf[e] = c /\ e.kind \notin {"end", "error"}
    BY EventsTyped DEF ChunkOf
  <2>2. /\ Busy(t) /\ UNCHANGED <<stream, client, garbled>>
        /\ \A u \in Turn \ {t} : run'[u] = run[u]
        /\ run'[t].feed = Append(run[t].feed, e)
        /\ said' = [said EXCEPT ![t] = said[t] \o c]
    BY <1>a, <1>9 DEF Say, Busy, Run
  <2> HIDE DEF e
  <2> QED BY <1>8, <2>1, <2>2
<1>18. ASSUME NEW t \in Turn, NEW c \in Chunk \cup {<<>>}, CallTools(t, c) PROVE VInv'
  <2> DEFINE e == [kind |-> "calls", chunk |-> c]
  <2>1. e \in GraphEvent /\ ChunkOf[e] = <<>> /\ e.kind = "calls"
    <3>1. e \in GraphEvent /\ e.kind = "calls"
      BY EventsTyped
    <3> HIDE DEF e
    <3> QED BY <3>1 DEF ChunkOf
  <2>2. /\ Busy(t) /\ UNCHANGED <<stream, client>>
        /\ \A u \in Turn \ {t} :
              run'[u] = run[u] /\ said'[u] = said[u] /\ garbled'[u] = garbled[u]
        /\ run'[t].feed = Append(run[t].feed, e)
        /\ said'[t] = said[t] \o c
        /\ garbled'[t] = (garbled[t] \/ c # <<>>)
    BY <1>a, <1>18 DEF CallTools, Busy, Run
  <2>3. garbled'[t] \/ said'[t] = said[t] \o ChunkOf[e]
    BY <2>1, <2>2
  <2>4. e.kind \notin {"end", "error"}
    OBVIOUS
  <2> HIDE DEF e
  <2> QED BY <1>6, <2>1, <2>2, <2>3, <2>4
<1>10. ASSUME NEW t \in Turn, Respond(t) \/ GraphFails(t) PROVE VInv'
  <2>1. \E k \in {"end", "error"} :
           /\ Busy(t) /\ UNCHANGED <<stream, client, garbled, said>>
           /\ \A u \in Turn \ {t} : run'[u] = run[u]
           /\ run'[t].feed = Append(run[t].feed, [kind |-> k])
           /\ k \in {"end", "error"} => ~Busy(t)'
    <3>2. CASE Respond(t)
      <4>1. /\ run'[t].node = "end" /\ run'[t].feed = Append(run[t].feed, [kind |-> "end"])
            /\ \A u \in Turn \ {t} : run'[u] = run[u]
        BY <1>a, <3>2 DEF Respond, Run
      <4> QED BY <3>2, <4>1 DEF Respond, Busy, history
    <3>3. CASE GraphFails(t)
      <4>1. /\ run'[t].node = "failed" /\ run'[t].feed = Append(run[t].feed, [kind |-> "error"])
            /\ \A u \in Turn \ {t} : run'[u] = run[u]
        BY <1>a, <3>3 DEF GraphFails, Run
      <4> QED BY <3>3, <4>1 DEF GraphFails, Busy
    <3> QED BY <1>10, <3>2, <3>3
  <2>2. PICK k \in {"end", "error"} :
           /\ Busy(t) /\ UNCHANGED <<stream, client, garbled, said>>
           /\ \A u \in Turn \ {t} : run'[u] = run[u]
           /\ run'[t].feed = Append(run[t].feed, [kind |-> k])
           /\ k \in {"end", "error"} => ~Busy(t)'
    BY <2>1
  <2> DEFINE e == [kind |-> k]
  <2>3. e \in GraphEvent /\ ChunkOf[e] = <<>> /\ e.kind = k
    <3>1. e \in GraphEvent /\ e.kind = k
      BY EventsTyped
    <3> HIDE DEF e
    <3> QED BY <3>1 DEF ChunkOf
  <2>4. said[t] \o <<>> = said[t]
    BY <1>a, ConcatEmptySeq
  <2>5. said' = [said EXCEPT ![t] = said[t] \o ChunkOf[e]]
    BY <1>a, <2>2, <2>3, <2>4
  <2>6. run'[t].feed = Append(run[t].feed, e)
    BY <2>2
  <2> HIDE DEF e
  <2> QED BY <1>8, <2>2, <2>3, <2>5, <2>6
<1>11. ASSUME NEW t \in Turn, ReadText(t) PROVE VInv'
  <2> DEFINE c == Head(run[t].feed).chunk
             r == Process[think_filter[t].buffer \o c][think_filter[t].in_think]
             broken == garbled[t] \/ (r.in_think /\ Last(c) = "</th")
  <2>1. /\ Ends(t)' /\ run'[t].feed = Tail(run[t].feed)
        /\ Head(run[t].feed).kind = "text" /\ run[t].feed # <<>>
        /\ run[t].feed \in Seq(GraphEvent) /\ gen[t].pc = "streaming"
        /\ think_filter[t].todo = <<>>
        /\ \A u \in Turn \ {t} : run'[u] = run[u]
    BY <1>0, <1>11, EndsRead DEF ReadText, Watched
  <2>2. UNCHANGED <<gen, view, shown, said>>
    BY <1>11 DEF ReadText, client
  <2>3. /\ think_filter'[t].buffer = r.buffer /\ think_filter'[t].todo = r.events
        /\ think_filter'[t].in_think = r.in_think
        /\ \A u \in Turn \ {t} : think_filter'[u] = think_filter[u]
    BY <1>a, <1>11 DEF ReadText, FilterChunk
  <2>4. (garbled'[t] <=> broken) /\ \A u \in Turn \ {t} : garbled'[u] = garbled[u]
    BY <1>a, <1>11 DEF ReadText, FilterChunk
  <2>5. ASSUME ~garbled'[t]
        PROVE  Streams(said'[t], run'[t].feed, think_filter'[t], shown'[t])
    <3>1. Streams(said[t], run[t].feed, think_filter[t], shown[t])
      BY <1>0, <2>1, <2>4, <2>5 DEF Watched
    <3>2. ~(r.in_think /\ Last(c) = "</th")
      BY <2>4, <2>5
    <3>3. think_filter[t] \in Filter /\ think_filter'[t] \in Filter /\ shown[t] \in Seq(Symbol)
      BY <1>a, <1>b
    <3>4. Streams(said[t], Tail(run[t].feed), think_filter'[t], shown[t])
      BY <2>1, <2>3, <3>1, <3>2, <3>3, StreamReads
    <3> QED BY <2>1, <2>2, <3>4
  <2> HIDE DEF broken, r, c
  <2>6. Watched(t)'
    BY <1>d, <2>1, <2>2, <2>5 DEF Watched
  <2>7. \A u \in Turn \ {t} : Still(u) /\ gen'[u].pc = gen[u].pc
    BY <2>1, <2>2, <2>3, <2>4 DEF Still
  <2> QED BY <1>1, <2>6, <2>7
<1>12. ASSUME NEW t \in Turn, ReadCalls(t) PROVE VInv'
  <2>1. /\ Ends(t)' /\ run'[t].feed = Tail(run[t].feed)
        /\ Head(run[t].feed).kind = "calls" /\ run[t].feed # <<>>
        /\ run[t].feed \in Seq(GraphEvent) /\ gen[t].pc = "streaming"
        /\ \A u \in Turn \ {t} : run'[u] = run[u]
    BY <1>0, <1>12, EndsRead DEF ReadCalls, Watched
  <2>2. /\ UNCHANGED <<gen, think_filter, shown, said, garbled>>
        /\ \A u \in Turn \ {t} : view'[u] = view[u]
    BY <1>a, <1>12 DEF ReadCalls, stream, history
  <2>3. ASSUME ~garbled'[t]
        PROVE  Streams(said'[t], run'[t].feed, think_filter'[t], shown'[t])
    <3>1. Streams(said[t], run[t].feed, think_filter[t], shown[t])
      BY <1>0, <2>1, <2>2, <2>3 DEF Watched
    <3>2. Streams(said[t], Tail(run[t].feed), think_filter[t], shown[t])
      BY <2>1, <3>1, StreamSkips
    <3> QED BY <2>1, <2>2, <3>2
  <2>4. Watched(t)'
    BY <1>d, <2>1, <2>2, <2>3 DEF Watched
  <2>5. \A u \in Turn \ {t} : Still(u) /\ gen'[u].pc = gen[u].pc
    BY <2>1, <2>2 DEF Still
  <2> QED BY <1>1, <2>4, <2>5
<1>13. ASSUME NEW t \in Turn, ReadEnd(t) PROVE VInv'
  <2>1. /\ Ends(t)' /\ (Busy(t)' <=> Busy(t)) /\ ~Busy(t)
        /\ Tail(run[t].feed) = <<>>
        /\ Head(run[t].feed).kind = "end" /\ run[t].feed # <<>>
        /\ run[t].feed \in Seq(GraphEvent) /\ gen[t].pc = "streaming"
        /\ think_filter[t].todo = <<>>
        /\ \A u \in Turn \ {t} : run'[u] = run[u]
    BY <1>0, <1>13, EndsRead DEF ReadEnd, Watched
  <2> DEFINE es == Flush(think_filter[t].buffer, think_filter[t].in_think)
  <2>2. /\ UNCHANGED <<view, shown, said, garbled>>
        /\ think_filter'[t].todo = es /\ gen'[t].pc = "finishing"
        /\ \A u \in Turn \ {t} : gen'[u] = gen[u] /\ think_filter'[u] = think_filter[u]
    <3>1. UNCHANGED <<view, shown, said, garbled>>
      BY <1>13 DEF ReadEnd, client, history
    <3>2. gen'[t].pc = "finishing" /\ \A u \in Turn \ {t} : gen'[u] = gen[u]
      BY <1>a, <1>13 DEF ReadEnd, Generator
    <3>3. think_filter' = [think_filter EXCEPT ![t].todo = es, ![t].buffer = <<>>]
      BY <1>13 DEF ReadEnd
    <3> HIDE DEF es
    <3>4. think_filter'[t].todo = es /\ \A u \in Turn \ {t} : think_filter'[u] = think_filter[u]
      BY <1>a, <3>3 DEF Filter
    <3> QED BY <3>1, <3>2, <3>4
  <2>3. ASSUME ~garbled'[t]
        PROVE  shown'[t] \o TextOf(think_filter'[t].todo) = Visible(said'[t])
    <3>1. Streams(said[t], run[t].feed, think_filter[t], shown[t])
      BY <1>0, <2>1, <2>2, <2>3 DEF Watched
    <3>2. Streams(said[t], Tail(run[t].feed), think_filter[t], shown[t])
      BY <2>1, <3>1, StreamSkips
    <3>3. think_filter[t] \in Filter /\ shown[t] \in Seq(Symbol) /\ <<>> \in Seq(GraphEvent)
      BY <1>a
    <3>4. shown[t] \o TextOf(es) = Visible(said[t])
      BY <2>1, <3>2, <3>3, StreamEnds
    <3> HIDE DEF es
    <3> QED BY <2>2, <3>4
  <2> HIDE DEF es
  <2>4. Watched(t)'
    BY <1>d, <2>1, <2>2, <2>3 DEF Watched
  <2>5. \A u \in Turn \ {t} : Still(u) /\ gen'[u].pc = gen[u].pc
    BY <2>1, <2>2 DEF Still
  <2> QED BY <1>1, <2>4, <2>5
<1>14. ASSUME NEW t \in Turn, ReadError(t) PROVE VInv'
  <2>1. Ends(t)' /\ \A u \in Turn \ {t} : run'[u] = run[u]
    BY <1>0, <1>14, EndsRead DEF ReadError, Watched
  <2>2. /\ UNCHANGED <<think_filter, shown, said, garbled>>
        /\ gen'[t].pc = "saving" /\ view'[t].ended = "error"
        /\ \A u \in Turn \ {t} : gen'[u] = gen[u] /\ view'[u] = view[u]
    BY <1>a, <1>14 DEF ReadError, Generator, View, history
  <2>3. Watched(t)'
    BY <2>1, <2>2 DEF Watched
  <2>4. \A u \in Turn \ {t} : Still(u) /\ gen'[u].pc = gen[u].pc
    BY <2>1, <2>2 DEF Still
  <2> QED BY <1>1, <2>3, <2>4
<1>15. ASSUME NEW t \in Turn, Yield(t) \/ YieldRest(t) PROVE VInv'
  <2> DEFINE f == think_filter[t]
             e == Head(f.todo)
  <2>1. /\ gen[t].pc \in {"streaming", "finishing"} /\ f.todo # <<>>
        /\ UNCHANGED <<run, said, garbled>>
    BY <1>15 DEF Yield, YieldRest, history
  <2>2. f \in Filter /\ think_filter'[t] \in Filter /\ f.todo \in Seq(FilterEvent)
        /\ shown[t] \in Seq(Symbol)
    BY <1>a, <1>b DEF Filter
  <2>3. /\ think_filter'[t].todo = Tail(f.todo) /\ think_filter'[t].buffer = f.buffer
        /\ think_filter'[t].in_think = f.in_think
        /\ \A u \in Turn \ {t} : think_filter'[u] = think_filter[u]
    <3>1. think_filter' = [think_filter EXCEPT ![t].todo = Tail(@)]
      BY <1>15 DEF Yield, YieldRest, TakeEvent
    <3> QED BY <1>a, <3>1 DEF Filter
  <2>4. /\ gen'[t].pc = gen[t].pc /\ shown'[t] = shown[t] \o Text[e]
        /\ \A u \in Turn \ {t} : gen'[u] = gen[u] /\ shown'[u] = shown[u] /\ view'[u] = view[u]
    <3>1. e \in FilterEvent
      BY <2>1, <2>2, TextGrows
    <3>2. Lines(t, e)
      BY <1>15 DEF Yield, YieldRest
    <3> HIDE DEF e
    <3>3. CASE e.type = "thinking" /\ YieldThinking(t)
      <4>1. Text[e] = <<>> /\ shown[t] \o <<>> = shown[t]
        BY <2>2, <3>1, <3>3, ConcatEmptySeq DEF Text
      <4>2. /\ gen'[t].pc = gen[t].pc /\ shown' = shown
            /\ \A u \in Turn \ {t} : gen'[u] = gen[u] /\ view'[u] = view[u]
        BY <1>a, <3>3 DEF YieldThinking, Generator
      <4> QED BY <4>1, <4>2
    <3>4. CASE e.type = "chunk" /\ YieldText(t, e.content)
      <4>1. Text[e] = e.content
        BY <3>1, <3>4 DEF Text
      <4>2. /\ gen'[t].pc = gen[t].pc
            /\ \A u \in Turn \ {t} : gen'[u] = gen[u]
        BY <1>a, <3>4 DEF YieldText, Generator
      <4>3. \A u \in Turn \ {t} : view'[u] = view[u]
        BY <1>a, <3>4 DEF YieldText, TextLines
      <4>4. shown' = [shown EXCEPT ![t] = shown[t] \o e.content]
        BY <3>4 DEF YieldText
      <4>5. shown'[t] = shown[t] \o e.content /\ \A u \in Turn \ {t} : shown'[u] = shown[u]
        BY <1>a, <4>4
      <4> QED BY <4>1, <4>2, <4>3, <4>5
    <3> QED BY <3>2, <3>3, <3>4 DEF Lines
  <2>5. ASSUME gen[t].pc = "streaming", ~garbled[t]
        PROVE  Streams(said[t], run[t].feed, think_filter'[t], shown[t] \o Text[e])
    <3>1. Streams(said[t], run[t].feed, f, shown[t])
      BY <1>0, <2>5 DEF Watched
    <3> HIDE DEF f
    <3> QED BY <2>1, <2>2, <2>3, <3>1, StreamYields
  <2>6. ASSUME gen[t].pc = "finishing", ~garbled[t]
        PROVE  (shown[t] \o Text[e]) \o TextOf(Tail(f.todo)) = Visible(said[t])
    <3>1. shown[t] \o TextOf(f.todo) = Visible(said[t])
      BY <1>0, <2>6 DEF Watched
    <3>2. shown[t] \o TextOf(f.todo) = (shown[t] \o Text[e]) \o TextOf(Tail(f.todo))
      BY <2>1, <2>2, Yielded
    <3> QED BY <3>1, <3>2
  <2>7. Ends(t)' /\ (Busy(t)' <=> Busy(t)) /\ (gen[t].pc = "finishing" => ~Busy(t))
    BY <1>0, <2>1 DEF Watched, Ends, Busy
  <2> HIDE DEF e, f
  <2>8. Watched(t)'
    BY <1>d, <2>1, <2>3, <2>4, <2>5, <2>6, <2>7 DEF Watched
  <2>9. \A u \in Turn \ {t} : Still(u) /\ gen'[u].pc = gen[u].pc
    BY <2>1, <2>3, <2>4 DEF Still
  <2> QED BY <1>1, <2>8, <2>9
<1>16. ASSUME NEW t \in Turn, Finish(t) PROVE VInv'
  <2>1. /\ gen[t].pc = "finishing" /\ think_filter[t].todo = <<>>
        /\ UNCHANGED <<think_filter, run, shown, said, garbled>>
    BY <1>16 DEF Finish, history
  <2>2. /\ gen'[t].pc = "saving"
        /\ \A u \in Turn \ {t} : gen'[u] = gen[u] /\ view'[u] = view[u]
    BY <1>a, <1>16 DEF Finish, Generator
  <2>3. Ends(t)' /\ ~Busy(t)' /\ ~Busy(t)
    BY <1>0, <2>1 DEF Watched, Ends, Busy
  <2>4. ASSUME ~garbled[t] PROVE shown[t] = Visible(said[t])
    <3>1. shown[t] \o TextOf(<<>>) = Visible(said[t])
      BY <1>0, <2>1, <2>4 DEF Watched
    <3>2. <<>> \in Seq(FilterEvent) /\ shown[t] \in Seq(Symbol)
      BY <1>a
    <3>3. TextOf(<<>>) = <<>>
      BY <3>2, TextGrows
    <3>4. shown[t] \o <<>> = shown[t]
      BY <3>2, ConcatEmptySeq
    <3> QED BY <3>1, <3>3, <3>4
  <2>5. Watched(t)'
    BY <2>1, <2>2, <2>3, <2>4 DEF Watched
  <2>6. \A u \in Turn \ {t} : Still(u) /\ gen'[u].pc = gen[u].pc
    BY <2>1, <2>2 DEF Still
  <2> QED BY <1>1, <2>5, <2>6
<1>17. ASSUME NEW t \in Turn, Leave(t) PROVE VInv'
  <2>1. /\ gen'[t] = Idle /\ think_filter'[t] = NewFilter /\ run'[t] = NoRun
        /\ view'[t] = NoView /\ shown'[t] = <<>> /\ said'[t] = <<>>
        /\ \A u \in Turn \ {t} :
              /\ gen'[u] = gen[u] /\ think_filter'[u] = think_filter[u] /\ run'[u] = run[u]
              /\ view'[u] = view[u] /\ shown'[u] = shown[u] /\ said'[u] = said[u]
              /\ garbled'[u] = garbled[u]
    BY <1>a, <1>17 DEF Leave
  <2>2. Idle.pc = "idle" /\ NoView.ended = "no" /\ NoRun.feed = <<>>
    BY DEF Idle, NoView, NoRun
  <2>3. Watched(t)'
    BY <2>1, <2>2 DEF Watched, Ends, Fresh
  <2>4. \A u \in Turn \ {t} : Still(u) /\ gen'[u].pc = gen[u].pc
    BY <2>1 DEF Still
  <2> QED BY <1>1, <2>3, <2>4
<1> QED
  BY <1>2, <1>4, <1>5, <1>7, <1>9, <1>10, <1>11, <1>12, <1>13, <1>14, <1>15, <1>16, <1>17,
     <1>18 DEF Next

\* A message that is finished shows what the models said outside of think tags,
\* however many chunks that was in and wherever they were cut, but for a closing tag.
THEOREM VisibleShown == Spec => []ShowsVisible
<1>1. Init => VInv
  <2> SUFFICES ASSUME Init PROVE VInv
    OBVIOUS
  <2>1. TInv
    BY CalmInit, TypeInit DEF TInv
  <2>2. ASSUME NEW t \in Turn PROVE Watched(t)
    <3>1. /\ gen[t] = Idle /\ think_filter[t] = NewFilter /\ run[t] = NoRun
          /\ view[t] = NoView /\ shown[t] = <<>> /\ said[t] = <<>>
      BY DEF Init
    <3>2. Idle.pc = "idle" /\ NoView.ended = "no" /\ NoRun.feed = <<>>
      BY DEF Idle, NoView, NoRun
    <3> QED BY <3>1, <3>2 DEF Watched, Ends, Fresh
  <2> QED BY <2>1, <2>2 DEF VInv
<1>2. VInv => ShowsVisible
  BY DEF VInv, Watched, ShowsVisible
<1> QED
  BY <1>1, <1>2, ShownKept, PTL DEF Spec

-----------------------------------------------------------------------------
\* What is remembered.

Where(s, M) == {i \in DOMAIN s : s[i] \in M}

LEMMA WhereAppended ==
    ASSUME NEW A, NEW s \in Seq(A), NEW e \in A, NEW M
    PROVE  /\ Cardinality(Where(s, M)) \in Nat
           /\ Cardinality(Where(Append(s, e), M))
                 = IF e \in M THEN Cardinality(Where(s, M)) + 1 ELSE Cardinality(Where(s, M))
<1> DEFINE n == Len(s)
           a == Append(s, e)
           W == Where(s, M)
<1>1. n \in Nat /\ DOMAIN s = 1..n
  OBVIOUS
<1>2. /\ DOMAIN a = 1..(n + 1) /\ a[n + 1] = e
      /\ \A i \in 1..n : a[i] = s[i]
  BY AppendProperties
<1>3. W \subseteq 1..n /\ n + 1 \notin W
  BY <1>1 DEF Where
<1>4. Where(a, M) = IF e \in M THEN W \cup {n + 1} ELSE W
  <2>1. ASSUME NEW i PROVE i \in Where(a, M) <=> i \in W \/ (i = n + 1 /\ e \in M)
    <3> HIDE DEF a, n
    <3>1. i \in 1..(n + 1) <=> i \in 1..n \/ i = n + 1
      BY <1>1
    <3>2. i \in 1..n => i # n + 1
      BY <1>1
    <3> QED BY <1>1, <1>2, <3>1, <3>2 DEF Where
  <2> HIDE DEF a, n, W
  <2> QED BY <2>1
<1>5. IsFiniteSet(W)
  <2>1. IsFiniteSet(1..n)
    BY <1>1, FS_Interval
  <2> QED BY <1>3, <2>1, FS_Subset
<1> HIDE DEF a, n, W
<1>6. Cardinality(W) \in Nat
  BY <1>5, FS_CardinalityType
<1>7. Cardinality(W \cup {n + 1}) = Cardinality(W) + 1
  BY <1>3, <1>5, FS_AddElement
<1> QED BY <1>4, <1>6, <1>7 DEF a, W

Users == {row \in Row : row.role = "user"}

Admitted == {t \in Turn : gen[t].pc = "admitted"}

\* The thread is short of the messages that were stored and not yet run.
Counted ==
    Cardinality(Where(table, Users))
       = Cardinality(Where(thread, {"human"})) + Cardinality(Admitted)

RInv == TInv /\ IsFiniteSet(Admitted) /\ (calm /\ exists => Counted)

LEMMA RowsWhere == table \in Seq(Row) => UserRows = Where(table, Users)
<1> SUFFICES ASSUME table \in Seq(Row) PROVE UserRows = Where(table, Users)
  OBVIOUS
<1>1. \A i \in DOMAIN table : table[i] \in Row
  OBVIOUS
<1> QED BY <1>1 DEF UserRows, Where, Users

LEMMA RemembersKept == RInv /\ [Next]_vars => RInv'
<1> SUFFICES ASSUME RInv, [Next]_vars PROVE IsFiniteSet(Admitted') /\ (calm' /\ exists' => Counted')
  BY TypeKept DEF RInv
<1>0. /\ gen \in [Turn -> Generator] /\ run \in [Turn -> Run]
      /\ table \in Seq(Row) /\ thread \in Seq(ThreadMessage)
      /\ IsFiniteSet(Admitted)
  BY DEF RInv, TInv, AInv, RunsTyped, CInv, OInv, Typed, DataTyped
<1>a. Cardinality(Admitted) \in Nat
  BY <1>0, FS_CardinalityType
<1>b. /\ Cardinality(Where(table, Users)) \in Nat
      /\ \A row \in Row : Cardinality(Where(Append(table, row), Users))
            = IF row \in Users THEN Cardinality(Where(table, Users)) + 1
                               ELSE Cardinality(Where(table, Users))
  <2>1. [role |-> "user", content |-> <<>>] \in Row
    BY DEF Row
  <2> QED BY <1>0, <2>1, WhereAppended
<1>c. /\ Cardinality(Where(thread, {"human"})) \in Nat
      /\ \A m \in ThreadMessage : Cardinality(Where(Append(thread, m), {"human"}))
            = IF m = "human" THEN Cardinality(Where(thread, {"human"})) + 1
                             ELSE Cardinality(Where(thread, {"human"}))
  <2>1. "human" \in ThreadMessage
    BY DEF ThreadMessage
  <2>2. \A m \in ThreadMessage : m \in {"human"} <=> m = "human"
    OBVIOUS
  <2> QED BY <1>0, <2>1, <2>2, WhereAppended
<1>1. ASSUME UNCHANGED <<table, thread>>, Admitted' = Admitted, calm' => calm, exists' => exists
      PROVE  IsFiniteSet(Admitted') /\ (calm' /\ exists' => Counted')
  <2>1. calm /\ exists => Counted
    BY DEF RInv
  <2> QED BY <1>0, <1>1, <2>1 DEF Counted
<1>2. ASSUME NEW t \in Turn, NEW pc, gen' = [gen EXCEPT ![t].pc = pc],
             gen[t].pc # "admitted", pc # "admitted"
      PROVE  Admitted' = Admitted
  BY <1>0, <1>2 DEF Admitted, Generator
<1>3. ASSUME gen' = gen PROVE Admitted' = Admitted
  BY <1>3 DEF Admitted
<1>4. CASE Delete
  <2>1. Admitted' = Admitted /\ exists' = FALSE
    BY <1>3, <1>4 DEF Delete, stream
  <2> QED BY <1>0, <2>1
<1>5. CASE UNCHANGED vars
  BY <1>1, <1>3, <1>5 DEF vars, conversation, stream, history
<1>6. ASSUME NEW t \in Turn, Post(t) PROVE IsFiniteSet(Admitted') /\ (calm' /\ exists' => Counted')
  BY <1>1, <1>2, <1>6 DEF Post, conversation, history
<1>7. ASSUME NEW t \in Turn, AddUser(t)
      PROVE  IsFiniteSet(Admitted') /\ (calm' /\ exists' => Counted')
  <2>1. CASE exists
    <3> DEFINE row == [role |-> "user", content |-> <<>>]
    <3>1. row \in Row /\ row \in Users
      BY DEF Row, Users
    <3>2. /\ gen' = [gen EXCEPT ![t].pc = "admitted"] /\ gen[t].pc = "checked"
          /\ table' = Append(table, row)
          /\ UNCHANGED <<exists, thread, calm>>
      BY <1>7, <2>1 DEF AddUser, add_message, history
    <3>3. Admitted' = Admitted \cup {t} /\ t \notin Admitted
      BY <1>0, <3>2 DEF Admitted, Generator
    <3> HIDE DEF row
    <3>4. IsFiniteSet(Admitted') /\ Cardinality(Admitted') = Cardinality(Admitted) + 1
      BY <1>0, <3>3, FS_AddElement
    <3>5. Cardinality(Where(table', Users)) = Cardinality(Where(table, Users)) + 1
      BY <1>b, <3>1, <3>2
    <3>6. calm' /\ exists' => Counted
      BY <3>2 DEF RInv
    <3> QED BY <1>a, <1>b, <1>c, <3>2, <3>4, <3>5, <3>6 DEF Counted
  <2>2. CASE ~exists
    <3>1. gen' = [gen EXCEPT ![t].pc = "idle"] /\ gen[t].pc = "checked" /\ exists' = exists
      BY <1>7, <2>2 DEF AddUser
    <3>2. Admitted' = Admitted
      BY <1>2, <3>1
    <3> QED BY <1>0, <2>2, <3>1, <3>2
  <2> QED BY <2>1, <2>2
<1>8. ASSUME NEW t \in Turn, Start(t)
      PROVE  IsFiniteSet(Admitted') /\ (calm' /\ exists' => Counted')
  <2>1. /\ gen' = [gen EXCEPT ![t].pc = "streaming"] /\ gen[t].pc = "admitted"
        /\ thread' = Append(thread, "human")
        /\ UNCHANGED <<exists, table>> /\ (calm' => calm)
    BY <1>8 DEF Start
  <2>2. Admitted' = Admitted \ {t} /\ t \in Admitted
    BY <1>0, <2>1 DEF Admitted, Generator
  <2>3. IsFiniteSet(Admitted') /\ Cardinality(Admitted') = Cardinality(Admitted) - 1
    BY <1>0, <2>2, FS_RemoveElement
  <2>4. Cardinality(Where(thread', {"human"})) = Cardinality(Where(thread, {"human"})) + 1
    BY <1>c, <2>1 DEF ThreadMessage
  <2>5. calm' /\ exists' => Counted
    BY <2>1 DEF RInv
  <2> QED BY <1>a, <1>b, <1>c, <2>1, <2>3, <2>4, <2>5 DEF Counted
<1>9. ASSUME NEW t \in Turn, Busy(t), gen' = gen, UNCHANGED <<exists, table, calm>>,
             \/ thread' = run[t].branch
             \/ \E m \in ThreadMessage \ {"human"} : thread' = Append(run[t].branch, m)
      PROVE  IsFiniteSet(Admitted') /\ (calm' /\ exists' => Counted')
  <2>1. ASSUME calm'
        PROVE  Cardinality(Where(thread', {"human"})) = Cardinality(Where(thread, {"human"}))
    <3>1. run[t].branch = thread
      BY <1>9, <2>1 DEF RInv, TInv, AInv, Alone
    <3>2. CASE thread' = thread
      BY <3>2
    <3>3. ASSUME NEW m \in ThreadMessage \ {"human"}, thread' = Append(thread, m)
          PROVE  Cardinality(Where(thread', {"human"})) = Cardinality(Where(thread, {"human"}))
      BY <1>c, <3>3
    <3> QED BY <1>9, <3>1, <3>2, <3>3
  <2>2. calm' /\ exists' => Counted
    BY <1>9 DEF RInv
  <2>3. Admitted' = Admitted
    BY <1>3, <1>9
  <2> QED BY <1>0, <1>9, <2>1, <2>2, <2>3 DEF Counted
<1>10. ASSUME NEW t \in Turn, Analyze(t) \/ Plan(t) \/ Execute(t) \/ Respond(t)
       PROVE  IsFiniteSet(Admitted') /\ (calm' /\ exists' => Counted')
  <2>1. run[t].branch \in Seq(ThreadMessage)
    BY <1>0 DEF Run
  <2>2. /\ run[t].branch \o <<>> = run[t].branch
        /\ \A m \in ThreadMessage : run[t].branch \o <<m>> = Append(run[t].branch, m)
    BY <2>1, AppendAnswers
  <2>3. CASE Analyze(t)
    <3>1. /\ Busy(t) /\ gen' = gen /\ UNCHANGED <<exists, table, calm>>
          /\ thread' = run[t].branch \o <<>>
      BY <2>3 DEF Analyze, Checkpoint, Busy, stream, history
    <3> QED BY <1>9, <2>2, <3>1
  <2>4. CASE Plan(t)
    <3> DEFINE m == IF run[t].tools = "called" THEN "calls" ELSE "ai"
    <3>1. /\ Busy(t) /\ gen' = gen /\ UNCHANGED <<exists, table, calm>>
          /\ thread' = run[t].branch \o <<m>>
      BY <2>4 DEF Plan, Checkpoint, Busy, stream, history
    <3>2. m \in ThreadMessage \ {"human"}
      BY DEF ThreadMessage
    <3> HIDE DEF m
    <3> QED BY <1>9, <2>2, <3>1, <3>2
  <2>5. CASE Execute(t)
    <3>1. /\ Busy(t) /\ gen' = gen /\ UNCHANGED <<exists, table, calm>>
          /\ thread' = run[t].branch \o <<"tools">>
      BY <2>5 DEF Execute, Results, Checkpoint, Busy, stream, history
    <3>2. "tools" \in ThreadMessage \ {"human"}
      BY DEF ThreadMessage
    <3> QED BY <1>9, <2>2, <3>1, <3>2
  <2>6. CASE Respond(t)
    <3>1. /\ Busy(t) /\ gen' = gen /\ UNCHANGED <<exists, table, calm>>
          /\ thread' = Append(run[t].branch, "ai")
      BY <2>6 DEF Respond, Busy, stream, history
    <3>2. "ai" \in ThreadMessage \ {"human"}
      BY DEF ThreadMessage
    <3> QED BY <1>9, <3>1, <3>2
  <2> QED BY <1>10, <2>3, <2>4, <2>5, <2>6
<1>11. ASSUME NEW t \in Turn, PlanAgain(t) \/ Cancel(t) \/ ReadText(t) \/ ReadCalls(t)
       PROVE  IsFiniteSet(Admitted') /\ (calm' /\ exists' => Counted')
  <2>1. UNCHANGED <<table, thread, gen, exists, calm>>
    BY <1>11 DEF PlanAgain, Cancel, ReadText, ReadCalls, conversation, stream, history
  <2> QED BY <1>1, <1>3, <2>1
<1>16. ASSUME NEW t \in Turn, NEW c, Say(t, c) \/ CallTools(t, c)
       PROVE  IsFiniteSet(Admitted') /\ (calm' /\ exists' => Counted')
  <2>1. UNCHANGED <<table, thread, gen, exists, calm>>
    BY <1>16 DEF CallTools, Say, conversation, stream
  <2> QED BY <1>1, <1>3, <2>1
<1>12. ASSUME NEW t \in Turn, ReadEnd(t) \/ ReadError(t) \/ Save(t) \/ SaveFails(t)
       PROVE  IsFiniteSet(Admitted') /\ (calm' /\ exists' => Counted')
  <2>1. CASE ReadEnd(t)
    <3>1. gen' = [gen EXCEPT ![t].pc = "finishing"] /\ gen[t].pc # "admitted"
      BY <2>1 DEF ReadEnd, Reads
    <3> QED BY <1>1, <1>2, <2>1, <3>1 DEF ReadEnd, conversation, history
  <2>2. CASE ReadError(t)
    <3>1. gen' = [gen EXCEPT ![t].pc = "saving"] /\ gen[t].pc # "admitted"
      BY <2>2 DEF ReadError, Reads
    <3> QED BY <1>1, <1>2, <2>2, <3>1 DEF ReadError, conversation, history
  <2>3. CASE Save(t)
    <3> DEFINE row == [role |-> "assistant", content |-> parts[t]]
    <3>1. gen' = [gen EXCEPT ![t].pc = "over"] /\ gen[t].pc # "admitted"
          /\ (table' = table \/ table' = Append(table, row))
          /\ UNCHANGED <<exists, thread, calm>>
      BY <2>3 DEF Save, add_message, history
    <3>2. Admitted' = Admitted
      BY <1>2, <3>1
    <3>3. row \in Row /\ row \notin Users
      <4>1. parts[t] \in Seq(Symbol)
        BY DEF RInv, TInv, DataTyped
      <4> QED BY <4>1 DEF Row, Users
    <3> HIDE DEF row
    <3>4. Cardinality(Where(table', Users)) = Cardinality(Where(table, Users))
      <4>1. table' = table \/ table' = Append(table, row)
        BY <3>1
      <4>2. Cardinality(Where(Append(table, row), Users)) = Cardinality(Where(table, Users))
        BY <1>b, <3>3
      <4> QED BY <4>1, <4>2
    <3>5. calm' /\ exists' => Counted
      BY <3>1 DEF RInv
    <3> QED BY <1>0, <3>1, <3>2, <3>4, <3>5 DEF Counted
  <2>4. CASE SaveFails(t)
    <3>1. gen' = [gen EXCEPT ![t].pc = "unsaved"] /\ gen[t].pc # "admitted"
      BY <2>4 DEF SaveFails
    <3> QED BY <1>1, <1>2, <2>4, <3>1 DEF SaveFails, conversation, history
  <2> QED BY <1>12, <2>1, <2>2, <2>3, <2>4
<1>13. ASSUME NEW t \in Turn, Yield(t) \/ YieldRest(t) \/ Finish(t) \/ Leave(t)
       PROVE  IsFiniteSet(Admitted') /\ (calm' /\ exists' => Counted')
  <2>1. UNCHANGED <<table, thread, exists, calm>>
    BY <1>13 DEF Yield, YieldRest, Finish, Leave, conversation, history
  <2>2. \A u \in Turn : gen'[u].pc = "admitted" <=> gen[u].pc = "admitted"
    <3>1. CASE Finish(t)
      BY <1>0, <3>1 DEF Finish, Generator
    <3>2. CASE Leave(t)
      BY <1>0, <3>2 DEF Leave, Idle
    <3>3. CASE YieldThinking(t)
      BY <1>0, <3>3 DEF YieldThinking, Generator
    <3>4. ASSUME NEW content, YieldText(t, content)
          PROVE  \A u \in Turn : gen'[u].pc = "admitted" <=> gen[u].pc = "admitted"
      BY <1>0, <3>4 DEF YieldText, Generator
    <3> QED BY <1>13, <3>1, <3>2, <3>3, <3>4 DEF Yield, YieldRest, Lines
  <2>3. Admitted' = Admitted
    BY <2>2 DEF Admitted
  <2> QED BY <1>1, <2>1, <2>3
<1>14. ASSUME NEW t \in Turn, GraphFails(t)
       PROVE  IsFiniteSet(Admitted') /\ (calm' /\ exists' => Counted')
  <2>1. gen' = gen /\ ~calm'
    BY <1>14 DEF GraphFails, stream
  <2> QED BY <1>0, <1>3, <2>1
<1>15. ASSUME NEW t \in Turn, Cut(t) \/ Interrupt(t)
       PROVE  IsFiniteSet(Admitted') /\ (calm' /\ exists' => Counted')
  <2>1. /\ ~calm'
        /\ \/ gen' = [gen EXCEPT ![t].pc = "cut"]
           \/ gen' = [gen EXCEPT ![t].pc = "cancelling"]
    BY <1>15 DEF Cut, Interrupt
  <2>2. Admitted' \subseteq Admitted
    BY <1>0, <2>1 DEF Admitted, Generator
  <2>3. IsFiniteSet(Admitted')
    BY <1>0, <2>2, FS_Subset
  <2> QED BY <2>1, <2>3
<1> QED
  BY <1>4, <1>5, <1>6, <1>7, <1>8, <1>10, <1>11, <1>12, <1>13, <1>14, <1>15, <1>16 DEF Next

\* When no turn is under way the thread has as many of the user's messages as the
\* table, as long as no turn was cut, failed or met another one.
THEOREM AllRemembered == Spec => []TurnsRemembered
<1>1. Init => RInv
  <2> SUFFICES ASSUME Init PROVE RInv
    OBVIOUS
  <2>1. TInv
    BY CalmInit, TypeInit DEF TInv
  <2>2. Admitted = {}
    BY DEF Init, Admitted, Idle
  <2>3. Where(table, Users) = {} /\ Where(thread, {"human"}) = {}
    BY DEF Init, Where
  <2>4. IsFiniteSet(Admitted) /\ Cardinality(Admitted) = 0
    BY <2>2, FS_EmptySet
  <2>5. Counted
    BY <2>2, <2>3, <2>4 DEF Counted
  <2> QED BY <2>1, <2>4, <2>5 DEF RInv
<1>2. RInv => TurnsRemembered
  <2> SUFFICES ASSUME RInv, calm, exists, \A t \in Turn : gen[t].pc = "idle"
               PROVE  Cardinality({i \in DOMAIN thread : thread[i] = "human"}) = Cardinality(UserRows)
    BY DEF TurnsRemembered
  <2>1. Admitted = {}
    BY DEF Admitted
  <2>2. Cardinality(Admitted) = 0
    BY <2>1, FS_EmptySet
  <2>3. Cardinality(Where(thread, {"human"})) \in Nat
    <3>1. thread \in Seq(ThreadMessage) /\ "human" \in ThreadMessage
      BY DEF RInv, TInv, AInv, RunsTyped, ThreadMessage
    <3> QED BY <3>1, WhereAppended
  <2>4. {i \in DOMAIN thread : thread[i] = "human"} = Where(thread, {"human"})
    BY DEF Where
  <2>5. UserRows = Where(table, Users)
    BY RowsWhere DEF RInv, TInv, DataTyped
  <2>6. Counted
    BY DEF RInv
  <2> DEFINE n == Cardinality(Where(thread, {"human"}))
  <2>7. Cardinality(Where(table, Users)) = n + 0 /\ n \in Nat
    BY <2>2, <2>3, <2>6 DEF Counted
  <2> HIDE DEF n
  <2>8. Cardinality(Where(table, Users)) = n
    BY <2>7
  <2> QED BY <2>4, <2>5, <2>8 DEF n
<1> QED
  BY <1>1, <1>2, RemembersKept, PTL DEF Spec
=============================================================================
