---------------------------- MODULE Conversations ----------------------------
(***************************************************************************)
(* The conversation service: the conversations of a user with their        *)
(* messages, and a client that reads the list page by page, by the cursor  *)
(* each page comes with.  The lists of agents, skills and MCP servers are  *)
(* paged by the same code.                                                 *)
(*                                                                         *)
(* created_at is the start of the transaction that creates a row, which    *)
(* commits later, so rows do not appear in the order of their times, and   *)
(* two may have the same time.                                             *)
(***************************************************************************)
EXTENDS Naturals, Sequences, FiniteSets

CONSTANTS
    Conv,       \* ids of conversations, in the order the database has for them
    Text,       \* what a user may say
    Limit,      \* rows of a page
    MaxTime     \* bound: ticks of the database's clock

ASSUME ConvAssumption == Conv \subseteq Nat
ASSUME LimitAssumption == Limit \in Nat \ {0}

VARIABLES
    now,        \* the database's clock
    row,        \* the conversations table, ids not yet used included
    messages,   \* per conversation, its rows of the messages table
    reader,     \* the client that reads the list
    owed        \* history: rows listed ever since the reader began, which it
                \* has not read, apart from those as old as one it has

server == <<now, row, messages, reader, owed>>

RowRecord == [state      : {"none", "open", "kept", "gone"},
              created_at : Nat,
              is_archived : BOOLEAN]

\* A message is told by what the user said: the saying of it or the answer.
Message == [role : {"user", "assistant"}, text : Text]

Reader == [pc     : {"begin", "more", "done"},
           cursor : Nat,            \* its id is decoded and changes nothing
           page   : SUBSET Conv,    \* the last page
           seen   : SUBSET Conv]    \* those before it

ServerTypeOK ==
    /\ now \in Nat
    /\ row \in [Conv -> RowRecord]
    /\ messages \in [Conv -> Seq(Message)]
    /\ reader \in Reader
    /\ owed \subseteq Conv

ServerInit ==
    /\ now = 0
    /\ row = [c \in Conv |-> [state |-> "none", created_at |-> 0, is_archived |-> FALSE]]
    /\ messages = [c \in Conv |-> <<>>]
    /\ reader = [pc |-> "begin", cursor |-> 0, page |-> {}, seen |-> {}]
    /\ owed = {}

-----------------------------------------------------------------------------
\* The operations of the service.

Tick ==
    /\ now < MaxTime
    /\ now' = now + 1
    /\ UNCHANGED <<row, messages, reader, owed>>

\* A request to create: its transaction begins with the look-up of the user.
Begin(c) ==
    /\ row[c].state = "none"
    /\ row' = [row EXCEPT ![c].state = "open", ![c].created_at = now]
    /\ UNCHANGED <<now, messages, reader, owed>>

Commit(c) ==
    /\ row[c].state = "open"
    /\ row' = [row EXCEPT ![c].state = "kept"]
    /\ UNCHANGED <<now, messages, reader, owed>>

\* The messages go first, then the row, in one transaction.
Delete(c) ==
    /\ row[c].state = "kept"
    /\ row' = [row EXCEPT ![c].state = "gone"]
    /\ messages' = [messages EXCEPT ![c] = <<>>]
    /\ owed' = owed \ {c}
    /\ UNCHANGED <<now, reader>>

Archive(c) ==
    /\ row[c].state = "kept"
    /\ row' = [row EXCEPT ![c].is_archived = TRUE]
    /\ owed' = owed \ {c}
    /\ UNCHANGED <<now, messages, reader>>

\* The foreign key refuses a message of a conversation that is gone.
AddMessage(c, m) ==
    /\ row[c].state = "kept"
    /\ messages' = [messages EXCEPT ![c] = Append(@, m)]
    /\ UNCHANGED <<now, row, reader, owed>>

-----------------------------------------------------------------------------
\* The list.

Listed == {c \in Conv : row[c].state = "kept" /\ ~row[c].is_archived}

\* ORDER BY created_at DESC, id DESC.
Before(c, d) ==
    \/ row[c].created_at > row[d].created_at
    \/ row[c].created_at = row[d].created_at /\ c > d

\* Mutant of Matching: rows as old as the cursor are matched again.
MatchingTied ==
    {c \in Listed : reader.pc = "more" => row[c].created_at <= reader.cursor}

\* The rows after the cursor.  The pair of columns is a tuple of Python, and
\* compared as one: the times alone, for two columns are never equal.
Matching == {c \in Listed : reader.pc = "more" => row[c].created_at < reader.cursor}

\* Mutant of Cursor: it is taken from the row that was fetched to see if there
\* are more, ...
CursorOfNext(page, c) ==
    /\ c \in Matching \ page
    /\ \A d \in Matching \ page : d = c \/ Before(c, d)

\* The cursor is that of the last row of the page.
Cursor(page, c) ==
    /\ c \in page
    /\ \A d \in page : d = c \/ Before(d, c)

\* One row more than a page holds is asked for, to know if there are more.
has_more == Cardinality(Matching) > Limit

IsPage(page) ==
    /\ page \subseteq Matching
    /\ \A c \in page, d \in Matching \ page : Before(c, d)
    /\ IF has_more THEN Cardinality(page) = Limit ELSE page = Matching

Pending == IF reader.pc = "begin" THEN Listed ELSE owed

Reads(pc, cursor, page) ==
    reader' = [pc |-> pc, cursor |-> cursor, page |-> page, seen |-> reader.seen \cup reader.page]

\* The reader gets a page, with a cursor to the next ...
NextPage(page) ==
    /\ reader.pc # "done"
    /\ IsPage(page)
    /\ has_more
    /\ \E c \in Conv :
          /\ Cursor(page, c)
          /\ Reads("more", row[c].created_at, page)
          /\ owed' = {d \in Pending \ page : \A e \in page : row[d].created_at # row[e].created_at}
    /\ UNCHANGED <<now, row, messages>>

\* ... or the last one, without.
LastPage(page) ==
    /\ reader.pc # "done"
    /\ IsPage(page)
    /\ ~has_more
    /\ Reads("done", reader.cursor, page)
    /\ owed' = Pending \ page
    /\ UNCHANGED <<now, row, messages>>

-----------------------------------------------------------------------------
Manage(c) == Begin(c) \/ Commit(c) \/ Delete(c) \/ Archive(c)

Read == \E page \in SUBSET Conv : NextPage(page) \/ LastPage(page)

ServerNext ==
    \/ Tick \/ Read
    \/ \E c \in Conv : Manage(c) \/ \E m \in Message : AddMessage(c, m)

ServerSpec == ServerInit /\ [][ServerNext]_server

-----------------------------------------------------------------------------
\* Properties.

\* A page is older than all pages before it: however rows come and go while
\* the list is read, none is on two pages (conversation_service.py:53).
PagesDescend ==
    \A c \in reader.page, d \in reader.seen : row[c].created_at < row[d].created_at

\* A reader that is through has read every row that was listed all along, but
\* for rows created in the same instant as another, which the page may part
\* from it (has_more and the cursor, conversations.py:43).
NothingSkipped == reader.pc = "done" => owed = {}
=============================================================================
