----------------------------- MODULE ChatStream -----------------------------
(***************************************************************************)
(* Turns of one conversation: the chat endpoint, the agent graph that runs *)
(* on the conversation's thread, the SSE generator that turns the graph's  *)
(* events into parts of a message, and the client that reads them.         *)
(*                                                                         *)
(* A turn is a coroutine of the server.  The graph runs beside it and puts *)
(* its events in a queue, so it may be ahead of what the client has seen.  *)
(* A client that goes away, or presses Stop, cancels the turn at whatever  *)
(* await it is at.                                                         *)
(***************************************************************************)
EXTENDS ThinkTag, FiniteSets

CONSTANTS
    Turn,       \* slots for concurrent requests
    Chunk,      \* what a language model may say at once
    MaxTurns,   \* bound: user messages of the conversation
    MaxSymbols, \* bound: symbols said in the turns under way
    Ahead       \* bound: events the graph is ahead of the generator

ASSUME ChunkAssumption == Chunk \subseteq Seq(Symbol) \ {<<>>}
ASSUME BoundAssumption == MaxTurns \in Nat /\ MaxSymbols \in Nat /\ Ahead \in Nat

VARIABLES
    exists,     \* the conversation's row
    table,      \* its rows of the messages table
    thread,     \* the messages of its latest checkpoint
    gen,        \* per turn, the request handler and its generator
    think_filter, \* per turn, the ThinkTagFilter and the events still to be yielded
    parts,      \* per turn, assistant_content_parts, joined
    run,        \* per turn, the run of the agent graph
    view,       \* per turn, the parts of the message the client assembles
    shown,      \* per turn, the text of that message
    said,       \* history: what the models of the turn said
    garbled,    \* history: a closing tag was split between two chunks, or words
                \* came along with tool calls
    calm        \* history: no turn was cut, failed or met another one

conversation == <<exists, table, thread>>
stream == <<gen, think_filter, parts>>
client == <<view, shown>>
history == <<said, garbled, calm>>
vars == <<conversation, stream, run, client, history>>

Part == {"reasoning", "text", "tool"}

\* Messages of a thread: "calls" is an AIMessage with tool_calls, "tools" the
\* ToolMessages that answer them.  The SystemMessages analyze adds are left out:
\* _sanitize_messages_for_llm moves them away from the others.
ThreadMessage == {"human", "ai", "calls", "tools"}

GraphEvent ==
    [kind : {"text"}, chunk : Chunk] \cup [kind : {"calls"}, chunk : Chunk \cup {<<>>}]
    \cup [kind : {"end", "error"}]

Generator == [pc : {"idle", "checked", "admitted", "streaming", "finishing",
                    "saving", "over", "unsaved", "cancelling", "cut"},
              has_text_start : BOOLEAN, has_reasoning_start : BOOLEAN]

Filter == [buffer : Seq(Symbol), in_think : BOOLEAN, todo : Seq(FilterEvent)]

Run == [node : {"none", "analyze", "plan", "execute", "respond", "end",
                "failed", "cancelled"},
        branch : Seq(ThreadMessage),        \* the state this run works on
        tools : {"bound", "called", "unbound"},
        feed : Seq(GraphEvent)]             \* events the generator has not read

View == [open : SUBSET Part, refused : BOOLEAN, ended : {"no", "stop", "error"}]

Idle == [pc |-> "idle", has_text_start |-> FALSE, has_reasoning_start |-> FALSE]
NewFilter == [buffer |-> <<>>, in_think |-> FALSE, todo |-> <<>>]
NoRun == [node |-> "none", branch |-> <<>>, tools |-> "bound", feed |-> <<>>]
NoView == [open |-> {}, refused |-> FALSE, ended |-> "no"]

TypeOK ==
    /\ exists \in BOOLEAN
    /\ table \in Seq([role : {"user", "assistant"}, content : Seq(Symbol)])
    /\ thread \in Seq(ThreadMessage)
    /\ gen \in [Turn -> Generator]
    /\ think_filter \in [Turn -> Filter]
    /\ run \in [Turn -> Run]
    /\ view \in [Turn -> View]
    /\ parts \in [Turn -> Seq(Symbol)] /\ shown \in [Turn -> Seq(Symbol)]
    /\ said \in [Turn -> Seq(Symbol)]
    /\ garbled \in [Turn -> BOOLEAN]
    /\ calm \in BOOLEAN

Init ==
    /\ exists = TRUE
    /\ table = <<>>
    /\ thread = <<>>
    /\ gen = [t \in Turn |-> Idle]
    /\ think_filter = [t \in Turn |-> NewFilter]
    /\ run = [t \in Turn |-> NoRun]
    /\ view = [t \in Turn |-> NoView]
    /\ parts = [t \in Turn |-> <<>>] /\ shown = [t \in Turn |-> <<>>]
    /\ said = [t \in Turn |-> <<>>]
    /\ garbled = [t \in Turn |-> FALSE]
    /\ calm = TRUE

-----------------------------------------------------------------------------
\* The client: how the AI SDK assembles a message from the lines of a stream.  It
\* gives up on a line about a part that is not open.

Opened(v, part) == [v EXCEPT !.open = @ \cup {part}]

Closed(v, part) ==
    IF part \in v.open THEN [v EXCEPT !.open = @ \ {part}]
                       ELSE [v EXCEPT !.refused = TRUE]

Delta(v, part) == IF part \in v.open THEN v ELSE [v EXCEPT !.refused = TRUE]

-----------------------------------------------------------------------------
\* The endpoint.

Busy(t) == run[t].node \in {"analyze", "plan", "execute", "respond"}

\* add_message: the foreign key refuses a row of a conversation that is gone.
add_message(role, content) ==
    IF exists THEN Append(table, [role |-> role, content |-> content]) ELSE table

UserRows == {i \in DOMAIN table : table[i].role = "user"}

\* chat_sse finds the conversation; a request for one that is gone gets a 404.
Post(t) ==
    /\ gen[t].pc = "idle" /\ exists
    /\ Cardinality(UserRows) + Cardinality({u \in Turn : gen[u].pc = "checked"}) < MaxTurns
    /\ gen' = [gen EXCEPT ![t].pc = "checked"]
    /\ UNCHANGED <<conversation, think_filter, parts, run, client, history>>

\* It stores the user's message; when the conversation was deleted since, the
\* request fails.
AddUser(t) ==
    /\ gen[t].pc = "checked"
    /\ gen' = [gen EXCEPT ![t].pc = IF exists THEN "admitted" ELSE "idle"]
    /\ table' = add_message("user", <<>>)
    /\ UNCHANGED <<exists, thread, think_filter, parts, run, client, history>>

\* Mutant of Start: the run does not load the thread's checkpoint.
StartAfresh(t) ==
    /\ gen[t].pc = "admitted"
    /\ gen' = [gen EXCEPT ![t].pc = "streaming"]
    /\ run' = [run EXCEPT ![t] = [NoRun EXCEPT !.node = "analyze", !.branch = <<"human">>]]
    /\ thread' = <<"human">>
    /\ calm' = (calm /\ \A u \in Turn : ~Busy(u))
    /\ UNCHANGED <<exists, table, think_filter, parts, client, said, garbled>>

\* The generator yields its first lines and starts the graph, which loads the
\* thread's latest checkpoint, adds the message and saves that.  What an earlier
\* run left unfinished is dropped.
Start(t) ==
    LET branch == Append(thread, "human") IN
    /\ gen[t].pc = "admitted"
    /\ gen' = [gen EXCEPT ![t].pc = "streaming"]
    /\ run' = [run EXCEPT ![t] = [NoRun EXCEPT !.node = "analyze", !.branch = branch]]
    /\ thread' = branch
    /\ calm' = (calm /\ \A u \in Turn : ~Busy(u))
    /\ UNCHANGED <<exists, table, think_filter, parts, client, said, garbled>>

\* A conversation is deleted with its messages; its checkpoints stay.
Delete ==
    /\ exists
    /\ exists' = FALSE
    /\ table' = <<>>
    /\ UNCHANGED <<thread, stream, run, client, history>>

-----------------------------------------------------------------------------
\* The agent graph.  A node ends by saving a checkpoint with its messages.

Spoken == FoldSet(LAMBDA t, n : n + Len(said[t]), 0, Turn)

Checkpoint(t, messages, next) ==
    /\ run' = [run EXCEPT ![t].branch = @ \o messages, ![t].node = next]
    /\ thread' = run[t].branch \o messages

Analyze(t) ==
    /\ run[t].node = "analyze"
    /\ Checkpoint(t, <<>>, "plan")
    /\ UNCHANGED <<exists, table, stream, client, history>>

\* The model of plan or respond says something.
Say(t, c) ==
    /\ run[t].node \in {"plan", "respond"}
    /\ Len(run[t].feed) < Ahead
    /\ Spoken + Len(c) <= MaxSymbols
    /\ run' = [run EXCEPT ![t].feed = Append(@, [kind |-> "text", chunk |-> c])]
    /\ said' = [said EXCEPT ![t] = @ \o c]
    /\ UNCHANGED <<conversation, stream, client, garbled, calm>>

\* The model of plan asks for tools, and may say something in the same chunk.
CallTools(t, c) ==
    /\ run[t].node = "plan" /\ run[t].tools = "bound"
    /\ Len(run[t].feed) < Ahead
    /\ Spoken + Len(c) <= MaxSymbols
    /\ run' = [run EXCEPT ![t].tools = "called",
                          ![t].feed = Append(@, [kind |-> "calls", chunk |-> c])]
    /\ said' = [said EXCEPT ![t] = @ \o c]
    /\ garbled' = [garbled EXCEPT ![t] = @ \/ c # <<>>]
    /\ UNCHANGED <<conversation, stream, client, calm>>

\* The invocation with tools fails, and plan asks again without them.
PlanAgain(t) ==
    /\ run[t].node = "plan" /\ run[t].tools # "unbound"
    /\ run' = [run EXCEPT ![t].tools = "unbound"]
    /\ UNCHANGED <<conversation, stream, client, history>>

\* Only a message with tool_calls leads to execute.
should_execute(message) == IF message = "calls" THEN "execute" ELSE "respond"

\* plan returns the model's message, or one that says that it failed.
Plan(t) ==
    LET message == IF run[t].tools = "called" THEN "calls" ELSE "ai" IN
    /\ run[t].node = "plan"
    /\ Checkpoint(t, <<message>>, should_execute(message))
    /\ UNCHANGED <<exists, table, stream, client, history>>

\* Mutant of Results: a tool that is not found leaves its call unanswered.
ResultsFound(outcome) == IF outcome = "not found" THEN <<>> ELSE <<"tools">>

\* Each call is answered by a ToolMessage: its result, or what went wrong.
Results(outcome) == <<"tools">>

Execute(t) ==
    /\ run[t].node = "execute"
    /\ \E outcome \in {"result", "not found", "failed"} :
          Checkpoint(t, Results(outcome), "respond")
    /\ UNCHANGED <<exists, table, stream, client, history>>

\* respond returns the model's message, or an apology, which is not streamed; the
\* end of the graph is the last event.
Respond(t) ==
    LET branch == Append(run[t].branch, "ai") IN
    /\ run[t].node = "respond"
    /\ run' = [run EXCEPT ![t].branch = branch, ![t].node = "end",
                          ![t].feed = Append(@, [kind |-> "end"])]
    /\ thread' = branch
    /\ UNCHANGED <<exists, table, stream, client, history>>

\* The nodes catch their errors; the checkpointer's still end the run.
GraphFails(t) ==
    /\ Busy(t)
    /\ run' = [run EXCEPT ![t].node = "failed", ![t].feed = Append(@, [kind |-> "error"])]
    /\ calm' = FALSE
    /\ UNCHANGED <<conversation, stream, client, said, garbled>>

-----------------------------------------------------------------------------
\* The generator.

\* It reads the next event of the graph, once it has yielded all of the last one.
Reads(t, kind) ==
    /\ gen[t].pc = "streaming" /\ think_filter[t].todo = <<>>
    /\ run[t].feed # <<>> /\ Head(run[t].feed).kind = kind
    /\ run' = [run EXCEPT ![t].feed = Tail(@)]

\* ThinkTagFilter.process of a chunk, with what the filter held before.
FilterChunk(t, chunk) ==
    LET r == Process[think_filter[t].buffer \o chunk][think_filter[t].in_think]
    IN  /\ think_filter' = [think_filter EXCEPT ![t] =
              [buffer |-> r.buffer, in_think |-> r.in_think, todo |-> r.events]]
        /\ garbled' = [garbled EXCEPT ![t] = @ \/ (r.in_think /\ Last(chunk) = "</th")]

\* on_chat_model_stream with content.
ReadText(t) ==
    /\ Reads(t, "text")
    /\ FilterChunk(t, Head(run[t].feed).chunk)
    /\ UNCHANGED <<conversation, gen, parts, client, said, calm>>

\* on_chat_model_stream with tool calls: tool-input-start.  The chunk's content, if
\* it has any, is not looked at.
ReadCalls(t) ==
    /\ Reads(t, "calls")
    /\ view' = [view EXCEPT ![t] = Opened(@, "tool")]
    /\ UNCHANGED <<conversation, stream, shown, history>>

\* on_chain_end of the graph: flush the filter.
ReadEnd(t) ==
    /\ Reads(t, "end")
    /\ LET f == think_filter[t] IN
       think_filter' = [think_filter EXCEPT ![t].todo = Flush(f.buffer, f.in_think),
                                            ![t].buffer = <<>>]
    /\ gen' = [gen EXCEPT ![t].pc = "finishing"]
    /\ UNCHANGED <<conversation, parts, client, history>>

\* An exception out of the graph: the error line and [DONE], with no flush.
ReadError(t) ==
    /\ Reads(t, "error")
    /\ view' = [view EXCEPT ![t].ended = "error"]
    /\ gen' = [gen EXCEPT ![t].pc = "saving"]
    /\ UNCHANGED <<conversation, think_filter, parts, shown, history>>

\* The lines for thinking: a part is opened when none is.
YieldThinking(t) ==
    LET v == IF gen[t].has_reasoning_start THEN view[t] ELSE Opened(view[t], "reasoning")
    IN  /\ view' = [view EXCEPT ![t] = Delta(v, "reasoning")]
        /\ gen' = [gen EXCEPT ![t].has_reasoning_start = TRUE]
        /\ UNCHANGED <<parts, shown>>

\* The lines for text: the reasoning part ends, the text part is opened once.
TextLines(t) ==
    LET v == IF gen[t].has_reasoning_start THEN Closed(view[t], "reasoning") ELSE view[t]
        w == IF gen[t].has_text_start THEN v ELSE Opened(v, "text")
    IN  view' = [view EXCEPT ![t] = Delta(w, "text")]

\* Mutant of YieldText: the flag of the reasoning part that ended stays set.
YieldTextStillReasoning(t, content) ==
    /\ TextLines(t)
    /\ gen' = [gen EXCEPT ![t].has_text_start = TRUE]
    /\ shown' = [shown EXCEPT ![t] = @ \o content]
    /\ parts' = [parts EXCEPT ![t] = @ \o content]

YieldText(t, content) ==
    /\ TextLines(t)
    /\ gen' = [gen EXCEPT ![t].has_reasoning_start = FALSE, ![t].has_text_start = TRUE]
    /\ shown' = [shown EXCEPT ![t] = @ \o content]
    /\ parts' = [parts EXCEPT ![t] = @ \o content]

Lines(t, event) ==
    \/ event.type = "thinking" /\ YieldThinking(t)
    \/ event.type = "chunk" /\ YieldText(t, event.content)

\* The next of the filtered events.
TakeEvent(t) == think_filter' = [think_filter EXCEPT ![t].todo = Tail(@)]

Yield(t) ==
    /\ gen[t].pc = "streaming" /\ think_filter[t].todo # <<>>
    /\ TakeEvent(t)
    /\ Lines(t, Head(think_filter[t].todo))
    /\ UNCHANGED <<conversation, run, history>>

\* Mutant of YieldRest: what the filter held is shown and not stored.
YieldRestUnsaved(t) ==
    LET e == Head(think_filter[t].todo) IN
    /\ gen[t].pc = "finishing" /\ think_filter[t].todo # <<>>
    /\ TakeEvent(t)
    /\ \/ e.type = "thinking" /\ YieldThinking(t)
       \/ /\ e.type = "chunk" /\ TextLines(t)
          /\ gen' = [gen EXCEPT ![t].has_reasoning_start = FALSE,
                                ![t].has_text_start = TRUE]
          /\ shown' = [shown EXCEPT ![t] = @ \o e.content]
          /\ UNCHANGED parts
    /\ UNCHANGED <<conversation, run, history>>

\* The same for what the filter still held, at the end of the stream.
YieldRest(t) ==
    /\ gen[t].pc = "finishing" /\ think_filter[t].todo # <<>>
    /\ TakeEvent(t)
    /\ Lines(t, Head(think_filter[t].todo))
    /\ UNCHANGED <<conversation, run, history>>

\* An open reasoning part is closed, then come the finish line and [DONE]; at that
\* yield the generator is suspended before it stores the reply.
Finish(t) ==
    LET v == IF gen[t].has_reasoning_start THEN Closed(view[t], "reasoning") ELSE view[t]
    IN  /\ gen[t].pc = "finishing" /\ think_filter[t].todo = <<>>
        /\ view' = [view EXCEPT ![t] = [v EXCEPT !.ended = "stop"]]
        /\ gen' = [gen EXCEPT ![t].has_reasoning_start = FALSE, ![t].pc = "saving"]
        /\ UNCHANGED <<conversation, think_filter, parts, run, shown, history>>

\* Mutant of Save: the parts of the reply are stored as a list, not joined.
SaveUnjoined(t) ==
    /\ gen[t].pc = "saving"
    /\ gen' = [gen EXCEPT ![t].pc = "over"]
    /\ table' = IF parts[t] # <<>> THEN add_message("assistant", <<parts[t]>>) ELSE table
    /\ UNCHANGED <<exists, thread, think_filter, parts, run, client, history>>

\* The reply is stored if there is any.
Save(t) ==
    /\ gen[t].pc = "saving"
    /\ gen' = [gen EXCEPT ![t].pc = "over"]
    /\ table' = IF parts[t] # <<>> THEN add_message("assistant", parts[t]) ELSE table
    /\ UNCHANGED <<exists, thread, think_filter, parts, run, client, history>>

\* The session, the insert or the commit raises: that is logged, and the reply the
\* client was shown is stored nowhere.
SaveFails(t) ==
    /\ gen[t].pc = "saving" /\ parts[t] # <<>>
    /\ gen' = [gen EXCEPT ![t].pc = "unsaved"]
    /\ UNCHANGED <<conversation, think_filter, parts, run, client, history>>

\* The client goes away or presses Stop, and the server cancels the response.  The
\* generator catches that where it awaits the graph's next event: it puts out the
\* line of a finish with reason "cancel", and [DONE], for nobody.
Interrupt(t) ==
    /\ gen[t].pc = "streaming" /\ think_filter[t].todo = <<>>
    /\ gen' = [gen EXCEPT ![t].pc = "cancelling"]
    /\ calm' = FALSE
    /\ UNCHANGED <<conversation, think_filter, parts, run, client, said, garbled>>

\* At any other await, the first one of storing the reply included, the generator
\* ends there.
Cut(t) ==
    /\ gen[t].pc \in {"admitted", "streaming", "finishing", "saving", "cancelling"}
    /\ gen' = [gen EXCEPT ![t].pc = "cut"]
    /\ calm' = FALSE
    /\ UNCHANGED <<conversation, think_filter, parts, run, client, said, garbled>>

\* The run of a cut turn is cancelled, soon but not at once.
Cancel(t) ==
    /\ gen[t].pc \in {"cancelling", "cut"} /\ Busy(t)
    /\ run' = [run EXCEPT ![t].node = "cancelled"]
    /\ UNCHANGED <<conversation, stream, client, history>>

\* The turn's objects are gone.
Leave(t) ==
    /\ gen[t].pc \in {"over", "unsaved", "cut"} /\ ~Busy(t)
    /\ gen' = [gen EXCEPT ![t] = Idle]
    /\ think_filter' = [think_filter EXCEPT ![t] = NewFilter]
    /\ parts' = [parts EXCEPT ![t] = <<>>]
    /\ run' = [run EXCEPT ![t] = NoRun]
    /\ view' = [view EXCEPT ![t] = NoView]
    /\ shown' = [shown EXCEPT ![t] = <<>>]
    /\ said' = [said EXCEPT ![t] = <<>>]
    /\ garbled' = [garbled EXCEPT ![t] = FALSE]
    /\ UNCHANGED <<conversation, calm>>

-----------------------------------------------------------------------------
Next ==
    \/ Delete
    \/ \E t \in Turn :
          \/ Post(t) \/ AddUser(t) \/ Start(t)
          \/ Analyze(t) \/ PlanAgain(t) \/ Plan(t)
          \/ Execute(t) \/ Respond(t) \/ GraphFails(t)
          \/ \E c \in Chunk : Say(t, c)
          \/ \E c \in Chunk \cup {<<>>} : CallTools(t, c)
          \/ ReadText(t) \/ ReadCalls(t) \/ ReadEnd(t) \/ ReadError(t)
          \/ Yield(t) \/ YieldRest(t) \/ Finish(t)
          \/ Save(t) \/ SaveFails(t)
          \/ Interrupt(t) \/ Cut(t) \/ Cancel(t) \/ Leave(t)

Spec == Init /\ [][Next]_vars

-----------------------------------------------------------------------------
\* Properties.

\* The client refuses no line: a delta or an end comes only for a part that is
\* open, however the chunks fall between reasoning and text; and a message that
\* is finished has no reasoning still open (chat.py, the two part flags).
PartsInOrder ==
    \A t \in Turn :
       /\ ~view[t].refused
       /\ view[t].ended = "stop" => "reasoning" \notin view[t].open

\* What a turn has shown is what it stored, after an error too and with what the
\* filter held to the end, unless the turn was cut or the write itself failed
\* (chat.py, assistant_content_parts).
SavedAsShown ==
    \A t \in Turn : gen[t].pc = "over" /\ exists /\ shown[t] # <<>> =>
       \E i \in DOMAIN table :
          table[i] = [role |-> "assistant", content |-> shown[t]]

\* A finished message shows what the models said outside of think tags, however
\* it was cut into chunks, unless a closing tag was or a chunk of tool calls had
\* words too (ThinkTagFilter, the elif of chat.py).
ShowsVisible ==
    \A t \in Turn : view[t].ended = "stop" /\ ~garbled[t] =>
       shown[t] = Visible(said[t])

\* A model is never sent tool calls without their answers, which providers refuse,
\* as long as no turn was cut, failed or met another one (plan.py, execute.py).
ToolCallsAnswered ==
    calm => \A t \in Turn : run[t].node \in {"plan", "respond"} =>
       \A i \in DOMAIN run[t].branch : run[t].branch[i] = "calls" =>
          i < Len(run[t].branch) /\ run[t].branch[i + 1] = "tools"

\* On the same terms the agent's thread has every message the user sees stored,
\* when no turn is under way (chat.py, the checkpointed thread).
TurnsRemembered ==
    calm /\ exists /\ (\A t \in Turn : gen[t].pc = "idle") =>
       Cardinality({i \in DOMAIN thread : thread[i] = "human"}) = Cardinality(UserRows)

\* The reply is persisted "in finally block to guarantee DB save": what a client
\* was shown is stored, however its turn ended.
ReplySaved ==
    \A t \in Turn : gen[t].pc \in {"over", "cut"} /\ exists /\ shown[t] # <<>> =>
       \E i \in DOMAIN table :
          table[i] = [role |-> "assistant", content |-> shown[t]]

=============================================================================
