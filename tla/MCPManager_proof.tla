-------------------------- MODULE MCPManager_proof --------------------------
(***************************************************************************)
(* Proofs about MCPManager, for any number of rows, names, URLs, tools,    *)
(* requests and clients: type correctness; that the flat registry          *)
(* implements one directory for each server whose name is no prefix of     *)
(* another and has none; and that, as long as operations on a server do    *)
(* not overlap, clients stand for rows unless another process wrote their  *)
(* name, sessions have an owner and tools are on the client of their       *)
(* server.  The last three rest on one invariant, Serial: a name has one   *)
(* operation at most, and an operation knows where its row and its client  *)
(* are.                                                                    *)
(***************************************************************************)
EXTENDS MCPManager, TLAPS

-----------------------------------------------------------------------------
\* The registry.  Why a flat map can hold the tools of many servers: when no
\* server name is a prefix of another, a namespaced name belongs to one server
\* and to one of its tools, and the prefix of a server removes its own tools
\* and no other.

\* The prefix of a server covers all its tools.
LEMMA OwnPrefix ==
    ASSUME NEW Segment, NEW n \in Seq(Segment),
           NEW t \in Seq(Segment) \ {<<>>}
    PROVE  StartsWith(Key(n, t), n)
<1>1. Len(t) > 0
  OBVIOUS
<1>2. Len(n \o t) = Len(n) + Len(t) /\ Len(n) \in Nat
  OBVIOUS
<1>3. SubSeq(n \o t, 1, Len(n)) = n
  OBVIOUS
<1> QED BY <1>1, <1>2, <1>3 DEF StartsWith, Key

\* A server does not list one namespaced name for two tools.
LEMMA KeyInjective ==
    ASSUME NEW Segment, NEW n \in Seq(Segment),
           NEW s \in Seq(Segment), NEW t \in Seq(Segment),
           Key(n, s) = Key(n, t)
    PROVE  s = t
<1>1. Len(s) = Len(t)
  <2>1. Len(n \o s) = Len(n) + Len(s) /\ Len(n \o t) = Len(n) + Len(t)
    OBVIOUS
  <2> QED BY <2>1 DEF Key
<1>2. \A i \in 1 .. Len(s) : s[i] = t[i]
  <2> SUFFICES ASSUME NEW i \in 1 .. Len(s) PROVE s[i] = t[i]
    OBVIOUS
  <2>1. (n \o s)[Len(n) + i] = s[i] /\ (n \o t)[Len(n) + i] = t[i]
    BY <1>1
  <2> QED BY <2>1 DEF Key
<1> QED BY <1>1, <1>2

\* Two prefixes of one sequence: one is a prefix of the other.
LEMMA PrefixesCompare ==
    ASSUME NEW Segment, NEW m \in Seq(Segment), NEW n \in Seq(Segment),
           NEW t \in Seq(Segment), StartsWith(Key(m, t), n)
    PROVE  \/ Len(n) <= Len(m) /\ SubSeq(m, 1, Len(n)) = n
           \/ Len(m) <= Len(n) /\ SubSeq(n, 1, Len(m)) = m
<1> DEFINE k == m \o t
<1>1. k \in Seq(Segment) /\ Len(k) = Len(m) + Len(t)
  OBVIOUS
<1>2. Len(n) < Len(k) /\ SubSeq(k, 1, Len(n)) = n
  BY DEF StartsWith, Key
<1>3. \A i \in 1 .. Len(n) : n[i] = k[i]
  BY <1>1, <1>2
<1>4. \A i \in 1 .. Len(m) : m[i] = k[i]
  OBVIOUS
<1> HIDE DEF k
<1>5. CASE Len(n) <= Len(m)
  <2>1. SubSeq(m, 1, Len(n)) = n
    BY <1>3, <1>4, <1>5
  <2> QED BY <2>1, <1>5
<1>6. CASE Len(m) <= Len(n)
  <2>1. SubSeq(n, 1, Len(m)) = m
    BY <1>3, <1>4, <1>6
  <2> QED BY <2>1, <1>6
<1> QED BY <1>5, <1>6

\* The prefix of a server covers no tool of another.
THEOREM PrefixesSeparate ==
    ASSUME NEW Segment, NEW Names \in SUBSET Seq(Segment), PrefixFree(Names),
           NEW m \in Names, NEW n \in Names, m # n,
           NEW t \in Seq(Segment)
    PROVE  ~StartsWith(Key(m, t), n)
  BY PrefixesCompare DEF PrefixFree

\* Two servers share no namespaced name.
THEOREM KeysSeparate ==
    ASSUME NEW Segment, NEW Names \in SUBSET Seq(Segment), PrefixFree(Names),
           NEW m \in Names, NEW n \in Names, m # n,
           NEW s \in Seq(Segment), NEW t \in Seq(Segment) \ {<<>>}
    PROVE  Key(m, s) # Key(n, t)
  BY PrefixesSeparate, OwnPrefix

-----------------------------------------------------------------------------
\* Types.

\* A client in somebody's hands carries the name it is used under: the
\* strengthening that makes type correctness inductive, and the reason a
\* namespaced tool is answered by the server it is named after.
HeldByTask(w) ==
    task[w].pc \in {"connect", "list"} =>
        /\ task[w].cl \in Client
        /\ client[task[w].cl].name = task[w].name

HeldByHealth ==
    health.pc \in {"close", "connect", "list"} =>
        /\ health.cl \in Client
        /\ client[health.cl].name = health.name

Targets(w) ==
    /\ (\/ task[w].pc \in {"swap", "new", "connect", "list"}
        \/ task[w].pc = "close" /\ task[w].op # "delete")
            => task[w].name \in Name /\ task[w].url \in Url
    /\ task[w].pc = "fetched" => task[w].old \in Name

Named ==
    /\ \A n \in DOMAIN clients : client[clients[n]].name = n
    /\ \A w \in Worker : HeldByTask(w) /\ Targets(w)
    /\ HeldByHealth
    /\ health.pc \notin {"off", "sleep", "scan"} => health.name \in Name

IInv == TypeOK /\ Named

USE NullAssumption, WorkerAssumption

\* Only the session of the client changes, and its type stays.
LEMMA SessionOnly ==
    ASSUME client \in [Client -> ClientRecord],
           NEW c, NEW s \in {"none", "dead", "open", "mute"}, SetSession(c, s)
    PROVE  /\ client' \in [Client -> ClientRecord]
           /\ \A d \in Client : client'[d].name = client[d].name
  BY DEF SetSession, ClientRecord

\* A worker record stays one when it moves to another await.
LEMMA MovesOn ==
    ASSUME NEW k \in TaskRecord,
           NEW c \in Client \cup {NoClient},
           NEW p \in {"close", "new", "connect", "erase"}
    PROVE  [k EXCEPT !.pc = p, !.cl = c] \in TaskRecord
  BY DEF TaskRecord

LEMMA MovesToSwap ==
    ASSUME NEW k \in TaskRecord, NEW n \in Name, NEW u \in Url
    PROVE  [k EXCEPT !.pc = "swap", !.name = n, !.url = u] \in TaskRecord
  BY DEF TaskRecord

LEMMA InitIInv == Init => IInv
<1> SUFFICES ASSUME Init PROVE IInv
  OBVIOUS
<1>1. TypeOK
  BY DEF Init, TypeOK, NoTools, RowRecord, ClientRecord, TaskRecord, HealthRecord,
         Idle, Resting, NotStopping, Worker
<1>2. Named
  BY DEF Init, Named, NoTools, Idle, Resting, HeldByTask, HeldByHealth, Targets
<1> QED BY <1>1, <1>2 DEF IInv

\* Every step keeps the types.
LEMMA StepTypeOK == IInv /\ [Next]_vars => TypeOK'
<1> SUFFICES ASSUME IInv, [Next]_vars PROVE TypeOK'
  OBVIOUS
<1> USE DEF IInv
<1> USE DEF TypeOK, RowRecord, ClientRecord, TaskRecord, HealthRecord, Worker,
             Named, HeldByTask, HeldByHealth, Targets
<1>1. ASSUME NEW t \in Task, NEW r \in Row, NEW n \in Name, NEW u \in Url, RegisterServer(t, r, n, u)
      PROVE  TypeOK'
  BY <1>1 DEF RegisterServer, With, NoteClash, Idle, Status
<1>2. ASSUME NEW t \in Task, NEW r \in Row, FetchForUpdate(t, r)
      PROVE  TypeOK'
  BY <1>2 DEF FetchForUpdate, NoteClash, Idle
<1>3. ASSUME NEW w \in Worker, NEW n \in Name, NEW u \in Url, CommitUpdate(w, n, u)
      PROVE  TypeOK'
  <2>1. task[w] \in TaskRecord
    OBVIOUS
  <2> HIDE DEF TaskRecord
  <2>2. task' \in [Worker -> TaskRecord]
    BY <1>3, <2>1, MovesToSwap DEF CommitUpdate
  <2> QED BY <1>3, <2>2 DEF CommitUpdate, NoteClash, Status
<1>4. ASSUME NEW w \in Worker, UpdateLost(w)
      PROVE  TypeOK'
  BY <1>4 DEF UpdateLost, Idle
<1>5. ASSUME NEW t \in Task, NEW r \in Row, DeleteServer(t, r)
      PROVE  TypeOK'
  BY <1>5, ZenonT(60) DEF DeleteServer, PopServer, NoteClash, Idle, Without, Unregister, Restrict
<1>6. ASSUME NEW w \in Worker, EraseRow(w)
      PROVE  TypeOK'
  BY <1>6 DEF EraseRow, Without, Restrict, Idle
<1>7. ASSUME NEW w \in Worker, SwapOut(w)
      PROVE  TypeOK'
  <2>1. task[w] \in TaskRecord
    OBVIOUS
  <2> HIDE DEF TaskRecord
  <2>2. task' \in [Worker -> TaskRecord]
    BY <1>7, <2>1, MovesOn DEF SwapOut
  <2> QED BY <1>7, <2>2 DEF SwapOut, PopServer, Without, Unregister, Restrict
<1>8. ASSUME NEW w \in Worker, Closed(w)
      PROVE  TypeOK'
  <2>1. task[w] \in TaskRecord
    OBVIOUS
  <2> HIDE DEF TaskRecord
  <2>2. task' \in [Worker -> TaskRecord]
    BY <1>8, <2>1, MovesOn DEF Closed
  <2> QED BY <1>8, <2>2, SessionOnly DEF Closed
<1>9. ASSUME NEW w \in Worker, NEW c \in Client, NewClient(w, c)
      PROVE  TypeOK'
  <2>1. task[w] \in TaskRecord
    OBVIOUS
  <2> HIDE DEF TaskRecord
  <2>2. task' \in [Worker -> TaskRecord]
    BY <1>9, <2>1, MovesOn DEF NewClient
  <2> QED BY <1>9, <2>2 DEF NewClient
<1>10. ASSUME NEW w \in Worker, Connected(w)
      PROVE  TypeOK'
  BY <1>10 DEF Connected, SetSession, With, Unregister, Restrict
<1>11. ASSUME NEW w \in Worker, ConnectFailed(w)
      PROVE  TypeOK'
  BY <1>11 DEF ConnectFailed, SetSession, Idle
<1>12. ASSUME NEW w \in Worker, NEW listing \in SUBSET Tool, Listed(w, listing)
      PROVE  TypeOK'
  BY <1>12 DEF Listed, Register, Handlers
<1>13. ASSUME NEW w \in Worker, ListFailed(w)
      PROVE  TypeOK'
  BY <1>13 DEF ListFailed
<1>14. ASSUME NEW w \in Worker, MarkConnected(w)
      PROVE  TypeOK'
  BY <1>14 DEF MarkConnected, StatusById, Idle, Status
<1>15. ASSUME WakeUp
      PROVE  TypeOK'
  BY <1>15 DEF WakeUp, Resting
<1>16. ASSUME NEW n \in Name, NEW c \in Client, NextServer(n, c)
      PROVE  TypeOK'
  BY <1>16 DEF NextServer, Resting
<1>17. ASSUME ScanDone
      PROVE  TypeOK'
  BY <1>17 DEF ScanDone, Resting
<1>18. ASSUME ProbeOk
      PROVE  TypeOK'
  BY <1>18 DEF ProbeOk, Resting
<1>19. ASSUME ProbeFailed
      PROVE  TypeOK'
  BY <1>19 DEF ProbeFailed
<1>20. ASSUME MarkDisconnected
      PROVE  TypeOK'
  BY <1>20 DEF MarkDisconnected, StatusByName, Status
<1>21. ASSUME Retry
      PROVE  TypeOK'
  BY <1>21 DEF Retry
<1>22. ASSUME RetryClosed
      PROVE  TypeOK'
  BY <1>22 DEF RetryClosed, SetSession
<1>23. ASSUME Reconnected
      PROVE  TypeOK'
  <2>1. client' \in [Client -> ClientRecord]
    BY <1>23, SessionOnly DEF Reconnected
  <2>2. health' \in HealthRecord
    BY <1>23 DEF Reconnected
  <2>3. \A x \in DOMAIN tools' : tools'[x] \in Client
    BY <1>23 DEF Reconnected, Unregister, Restrict
  <2> QED BY <1>23, <2>1, <2>2, <2>3 DEF Reconnected
<1>24. ASSUME ReconnectFailed
      PROVE  TypeOK'
  <2>1. client' \in [Client -> ClientRecord]
    BY <1>24, SessionOnly DEF ReconnectFailed
  <2>2. health' \in HealthRecord
    BY <1>24 DEF ReconnectFailed
  <2> QED BY <1>24, <2>1, <2>2 DEF ReconnectFailed
<1>25. ASSUME NEW listing \in SUBSET Tool, Relisted(listing)
      PROVE  TypeOK'
  BY <1>25 DEF Relisted, Register, Handlers
<1>26. ASSUME RelistFailed
      PROVE  TypeOK'
  BY <1>26 DEF RelistFailed
<1>27. ASSUME MarkReconnected
      PROVE  TypeOK'
  BY <1>27 DEF MarkReconnected, StatusByName, Status, Resting
<1>28. ASSUME Boot
      PROVE  TypeOK'
  BY <1>28, ZenonT(60) DEF Boot, Idle
<1>29. ASSUME Ready
      PROVE  TypeOK'
  BY <1>29 DEF Ready, Resting
<1>30. ASSUME Shutdown
      PROVE  TypeOK'
  BY <1>30 DEF Shutdown, Resting, NotStopping
<1>31. ASSUME NEW n \in Name, StopServer(n)
      PROVE  TypeOK'
  BY <1>31 DEF StopServer, PopServer, Without, Unregister, Restrict
<1>32. ASSUME StopClosed
      PROVE  TypeOK'
  BY <1>32 DEF StopClosed, SetSession
<1>33. ASSUME ProcessEnds
      PROVE  TypeOK'
  BY <1>33 DEF ProcessEnds, NoTools, Idle, Resting, NotStopping
<1>34. ASSUME NEW u \in Url, RemoteUp(u)
      PROVE  TypeOK'
  BY <1>34 DEF RemoteUp
<1>35. ASSUME NEW u \in Url, RemoteDown(u)
      PROVE  TypeOK'
  BY <1>35 DEF RemoteDown
<1>37. ASSUME NEW c \in Client, Swallowed(c)
      PROVE  TypeOK'
  BY <1>37 DEF Swallowed, SetSession
<1>38. CASE Elsewhere
  <2>1. PICK r \in Row :
          \/ \E n \in Name, u \in Url : WrittenElsewhere(r, n, u)
          \/ ErasedElsewhere(r)
          \/ \E x \in {"connected", "disconnected"} : MarkedElsewhere(r, x)
    BY <1>38, SharedAssumption DEF Elsewhere
  <2>2. NameOf(r) \subseteq Name
    BY DEF NameOf
  <2>3. ASSUME NEW n \in Name, NEW u \in Url, WrittenElsewhere(r, n, u)
        PROVE  TypeOK'
    BY <2>2, <2>3 DEF WrittenElsewhere, NoteForeign, With, Status
  <2>4. CASE ErasedElsewhere(r)
    BY <2>2, <2>4 DEF ErasedElsewhere, NoteForeign, Without, Restrict
  <2>5. ASSUME NEW x \in {"connected", "disconnected"}, MarkedElsewhere(r, x)
        PROVE  TypeOK'
    BY <2>5 DEF MarkedElsewhere, StatusById, Status
  <2> QED BY <2>1, <2>3, <2>4, <2>5
<1>36. CASE UNCHANGED vars
  BY <1>36 DEF vars
<1> QED
  BY <1>1, <1>2, <1>3, <1>4, <1>5, <1>6, <1>7, <1>8, <1>9, <1>10, <1>11,
  <1>12, <1>13, <1>14, <1>15, <1>16, <1>17, <1>18, <1>19, <1>20, <1>21,
  <1>22, <1>23, <1>24, <1>25, <1>26, <1>27, <1>28, <1>29, <1>30, <1>31,
  <1>32, <1>33, <1>34, <1>35, <1>36, <1>37, <1>38
  DEF Next, Request, Work, Health, Lifespan, Remote, Exit, Crash


\* Every step keeps the names of the clients in use.
LEMMA StepNamed == IInv /\ [Next]_vars => Named'
<1> SUFFICES ASSUME IInv, [Next]_vars PROVE Named'
  OBVIOUS
<1> USE DEF IInv
<1> USE DEF TypeOK, RowRecord, ClientRecord, TaskRecord, HealthRecord, Worker,
             Named, HeldByTask, HeldByHealth, Targets
<1>1. ASSUME NEW t \in Task, NEW r \in Row, NEW n \in Name, NEW u \in Url, RegisterServer(t, r, n, u)
      PROVE  Named'
  BY <1>1 DEF RegisterServer, With, Idle
<1>2. ASSUME NEW t \in Task, NEW r \in Row, FetchForUpdate(t, r)
      PROVE  Named'
  BY <1>2 DEF FetchForUpdate, Idle
<1>3. ASSUME NEW w \in Worker, NEW n \in Name, NEW u \in Url, CommitUpdate(w, n, u)
      PROVE  Named'
  BY <1>3 DEF CommitUpdate
<1>4. ASSUME NEW w \in Worker, UpdateLost(w)
      PROVE  Named'
  BY <1>4 DEF UpdateLost, Idle
<1>5. ASSUME NEW t \in Task, NEW r \in Row, DeleteServer(t, r)
      PROVE  Named'
  BY <1>5 DEF DeleteServer, PopServer, Idle, Without, Restrict
<1>6. ASSUME NEW w \in Worker, EraseRow(w)
      PROVE  Named'
  BY <1>6 DEF EraseRow, Idle
<1>7. ASSUME NEW w \in Worker, SwapOut(w)
      PROVE  Named'
  BY <1>7 DEF SwapOut, PopServer, Without, Restrict
<1>8. ASSUME NEW w \in Worker, Closed(w)
      PROVE  Named'
  <2>1. \A d \in Client : client'[d].name = client[d].name
    BY <1>8, SessionOnly DEF Closed
  <2>2. \A v \in Worker : HeldByTask(v)' /\ Targets(v)'
    BY <1>8, <2>1 DEF Closed
  <2> QED BY <1>8, <2>1, <2>2 DEF Closed
<1>9. ASSUME NEW w \in Worker, NEW c \in Client, NewClient(w, c)
      PROVE  Named'
  BY <1>9 DEF NewClient, Unreferenced
<1>10. ASSUME NEW w \in Worker, Connected(w)
      PROVE  Named'
  BY <1>10 DEF Connected, SetSession, With
<1>11. ASSUME NEW w \in Worker, ConnectFailed(w)
      PROVE  Named'
  BY <1>11 DEF ConnectFailed, SetSession, Idle
<1>12. ASSUME NEW w \in Worker, NEW listing \in SUBSET Tool, Listed(w, listing)
      PROVE  Named'
  BY <1>12 DEF Listed
<1>13. ASSUME NEW w \in Worker, ListFailed(w)
      PROVE  Named'
  BY <1>13 DEF ListFailed
<1>14. ASSUME NEW w \in Worker, MarkConnected(w)
      PROVE  Named'
  BY <1>14 DEF MarkConnected, Idle
<1>15. ASSUME WakeUp
      PROVE  Named'
  BY <1>15 DEF WakeUp, Resting
<1>16. ASSUME NEW n \in Name, NEW c \in Client, NextServer(n, c)
      PROVE  Named'
  BY <1>16 DEF NextServer, Resting
<1>17. ASSUME ScanDone
      PROVE  Named'
  BY <1>17 DEF ScanDone, Resting
<1>18. ASSUME ProbeOk
      PROVE  Named'
  BY <1>18 DEF ProbeOk, Resting
<1>19. ASSUME ProbeFailed
      PROVE  Named'
  BY <1>19 DEF ProbeFailed
<1>20. ASSUME MarkDisconnected
      PROVE  Named'
  BY <1>20 DEF MarkDisconnected
<1>21. ASSUME Retry
      PROVE  Named'
  BY <1>21 DEF Retry
<1>22. ASSUME RetryClosed
      PROVE  Named'
  BY <1>22 DEF RetryClosed, SetSession
<1>23. ASSUME Reconnected
      PROVE  Named'
  BY <1>23 DEF Reconnected, SetSession
<1>24. ASSUME ReconnectFailed
      PROVE  Named'
  BY <1>24 DEF ReconnectFailed, SetSession
<1>25. ASSUME NEW listing \in SUBSET Tool, Relisted(listing)
      PROVE  Named'
  BY <1>25 DEF Relisted
<1>26. ASSUME RelistFailed
      PROVE  Named'
  BY <1>26 DEF RelistFailed
<1>27. ASSUME MarkReconnected
      PROVE  Named'
  BY <1>27 DEF MarkReconnected, Resting
<1>28. ASSUME Boot
      PROVE  Named'
  BY <1>28 DEF Boot, Idle
<1>29. ASSUME Ready
      PROVE  Named'
  BY <1>29 DEF Ready, Resting
<1>30. ASSUME Shutdown
      PROVE  Named'
  BY <1>30 DEF Shutdown, Resting
<1>31. ASSUME NEW n \in Name, StopServer(n)
      PROVE  Named'
  BY <1>31 DEF StopServer, PopServer, Without, Restrict
<1>32. ASSUME StopClosed
      PROVE  Named'
  BY <1>32 DEF StopClosed, SetSession
<1>33. ASSUME ProcessEnds
      PROVE  Named'
  BY <1>33 DEF ProcessEnds, NoTools, Idle, Resting
<1>34. ASSUME NEW u \in Url, RemoteUp(u)
      PROVE  Named'
  BY <1>34 DEF RemoteUp
<1>35. ASSUME NEW u \in Url, RemoteDown(u)
      PROVE  Named'
  BY <1>35 DEF RemoteDown
<1>37. ASSUME NEW c \in Client, Swallowed(c)
      PROVE  Named'
  BY <1>37 DEF Swallowed, SetSession
<1>38. CASE Elsewhere
  BY <1>38 DEF Elsewhere, WrittenElsewhere, ErasedElsewhere, MarkedElsewhere, NoteForeign
<1>36. CASE UNCHANGED vars
  BY <1>36 DEF vars
<1> QED
  BY <1>1, <1>2, <1>3, <1>4, <1>5, <1>6, <1>7, <1>8, <1>9, <1>10, <1>11,
  <1>12, <1>13, <1>14, <1>15, <1>16, <1>17, <1>18, <1>19, <1>20, <1>21,
  <1>22, <1>23, <1>24, <1>25, <1>26, <1>27, <1>28, <1>29, <1>30, <1>31,
  <1>32, <1>33, <1>34, <1>35, <1>36, <1>37, <1>38
  DEF Next, Request, Work, Health, Lifespan, Remote, Exit, Crash

\* Every reachable state has well-typed tables, workers and clients, and
\* every client is used under the name it was created for.
THEOREM InductiveInvariant == Spec => []IInv
<1>1. Init => IInv
  BY InitIInv
<1>2. IInv /\ [Next]_vars => IInv'
  BY StepTypeOK, StepNamed DEF IInv
<1> QED BY <1>1, <1>2, PTL DEF Spec

THEOREM TypeCorrect == Spec => []TypeOK
<1>1. IInv => TypeOK
  BY DEF IInv
<1> QED BY <1>1, InductiveInvariant, PTL

-----------------------------------------------------------------------------
\* The registry implements the server directories.

\* What names and tool names are: sequences of segments, and a tool has one.
Namespaces(Segment) ==
    /\ Name \in SUBSET Seq(Segment)
    /\ Tool \in SUBSET (Seq(Segment) \ {<<>>})

\* The names of the clients that handlers wrap stay.
NamesKept == \A k \in DOMAIN tools : client'[tools[k]].name = client[tools[k]].name

LEMMA Stutters ==
    ASSUME tools' = tools, NamesKept
    PROVE  UNCHANGED AnsweredBy
  BY DEF AnsweredBy, NamesKept

\* A separate name shares nothing with any other.
LEMMA Apart ==
    ASSUME NEW Segment, Namespaces(Segment), NEW m \in Separate, NEW n \in Name, m # n,
           NEW t \in Tool
    PROVE  /\ ~StartsWith(Key(m, t), n)
           /\ \A x \in Tool : Key(m, t) # Key(n, x)
<1>1. PrefixFree({m, n}) /\ {m, n} \in SUBSET Seq(Segment) /\ m \in Name
  BY DEF Separate, Namespaces
<1>2. t \in Seq(Segment) /\ \A x \in Tool : x \in Seq(Segment) \ {<<>>}
  BY DEF Namespaces
<1>3. ~StartsWith(Key(m, t), n)
  BY <1>1, <1>2, PrefixesSeparate
<1>4. \A x \in Tool : Key(m, t) # Key(n, x)
  BY <1>1, <1>2, KeysSeparate
<1> QED BY <1>3, <1>4

\* The tools of a server go, of which nobody sees anything unless its name is
\* separate.
LEMMA UnregisterClears ==
    ASSUME NEW Segment, Namespaces(Segment), NEW n \in Name,
           tools' = Unregister(tools, n), NamesKept
    PROVE  [Directory!Next]_AnsweredBy
<1>1. n \in Separate => \A t \in Tool : Key(n, t) \notin DOMAIN tools'
  <2> SUFFICES ASSUME NEW t \in Tool PROVE Key(n, t) \notin DOMAIN tools'
    OBVIOUS
  <2>1. StartsWith(Key(n, t), n)
    BY OwnPrefix DEF Namespaces
  <2> QED BY <2>1 DEF Unregister, Restrict
<1>2. \A m \in Separate \ {n}, t \in Tool :
        /\ Key(m, t) \in DOMAIN tools' <=> Key(m, t) \in DOMAIN tools
        /\ Key(m, t) \in DOMAIN tools => tools'[Key(m, t)] = tools[Key(m, t)]
  BY Apart DEF Unregister, Restrict
<1>3. n \in Separate => AnsweredBy'[n] = [t \in Tool |-> NoName]
  BY <1>1 DEF AnsweredBy
<1>4. \A m \in Separate \ {n} : AnsweredBy'[m] = AnsweredBy[m]
  BY <1>2 DEF AnsweredBy, NamesKept
<1>5. CASE n \in Separate
  <2>1. AnsweredBy' = [AnsweredBy EXCEPT ![n] = [t \in Tool |-> NoName]]
    BY <1>3, <1>4, <1>5 DEF AnsweredBy
  <2> QED BY <1>5, <2>1 DEF Directory!Next, Directory!Clear, Directory!Nothing
<1>6. CASE n \notin Separate
  <2>1. AnsweredBy' = AnsweredBy
    BY <1>4, <1>6 DEF AnsweredBy
  <2> QED BY <2>1
<1> QED BY <1>5, <1>6

LEMMA RegisterPublishes ==
    ASSUME NEW Segment, Namespaces(Segment), NEW n \in Name, NEW c,
           NEW listing \in SUBSET Tool, client[c].name = n,
           tools' = Register(tools, Handlers(n, c, listing)), client' = client
    PROVE  [Directory!Next]_AnsweredBy
<1> DEFINE new == Handlers(n, c, listing)
<1>1. \A t \in Tool : Key(n, t) \in DOMAIN new <=> t \in listing
  BY KeyInjective DEF Handlers, Namespaces
<1>2. \A m \in Separate \ {n}, t \in Tool : Key(m, t) \notin DOMAIN new
  BY Apart DEF Handlers
<1>3. \A t \in listing : new[Key(n, t)] = c
  BY DEF Handlers
<1> HIDE DEF new
<1>4. n \in Separate =>
        AnsweredBy'[n] = [t \in Tool |-> IF t \in listing THEN n ELSE AnsweredBy[n][t]]
  BY <1>1, <1>3 DEF AnsweredBy, Register, new
<1>5. \A m \in Separate \ {n} : AnsweredBy'[m] = AnsweredBy[m]
  BY <1>2 DEF AnsweredBy, Register, new
<1>6. CASE n \in Separate
  <2>1. AnsweredBy' = [AnsweredBy EXCEPT ![n] =
                          [t \in Tool |-> IF t \in listing THEN n ELSE @[t]]]
    BY <1>4, <1>5, <1>6 DEF AnsweredBy
  <2> QED BY <1>6, <2>1 DEF Directory!Next, Directory!Publish
<1>7. CASE n \notin Separate
  <2>1. AnsweredBy' = AnsweredBy
    BY <1>5, <1>7 DEF AnsweredBy
  <2> QED BY <2>1
<1> QED BY <1>6, <1>7

LEMMA StepDirectory ==
    ASSUME NEW Segment, Namespaces(Segment), IInv, [Next]_vars
    PROVE  [Directory!Next]_AnsweredBy
<1> USE DEF IInv
<1>0. ASSUME tools' = tools, client' = client
      PROVE  UNCHANGED AnsweredBy
  BY <1>0, Stutters DEF NamesKept
<1>1. ASSUME tools' = tools, NEW c, NEW x \in {"none", "dead", "open", "mute"}, SetSession(c, x)
      PROVE  UNCHANGED AnsweredBy
  <2>1. NamesKept
    BY <1>1, SessionOnly DEF NamesKept, TypeOK
  <2> QED BY <1>1, <2>1, Stutters
<1>2. ASSUME client' = client, NEW n \in Name, PopServer(n)
      PROVE  [Directory!Next]_AnsweredBy
  <2>1. NamesKept
    BY <1>2 DEF NamesKept
  <2>2. CASE tools' = tools
    BY <2>1, <2>2, Stutters
  <2>3. CASE tools' = Unregister(tools, n)
    BY <2>1, <2>3, UnregisterClears
  <2> QED BY <1>2, <2>2, <2>3 DEF PopServer
<1>3. ASSUME NEW c, NEW n \in Name, tools' = Unregister(tools, n), SetSession(c, "open")
      PROVE  [Directory!Next]_AnsweredBy
  <2>1. NamesKept
    BY <1>3, SessionOnly DEF NamesKept, TypeOK
  <2> QED BY <1>3, <2>1, UnregisterClears
<1>4. ASSUME NEW t \in Task, Request(t)
      PROVE  [Directory!Next]_AnsweredBy
  <2>1. ASSUME NEW r \in Row, NEW n \in Name, NEW u \in Url, RegisterServer(t, r, n, u)
        PROVE  UNCHANGED AnsweredBy
    BY <2>1, <1>0 DEF RegisterServer
  <2>2. ASSUME NEW r \in Row, FetchForUpdate(t, r)
        PROVE  UNCHANGED AnsweredBy
    BY <2>2, <1>0 DEF FetchForUpdate
  <2>3. ASSUME NEW r \in Row, DeleteServer(t, r)
        PROVE  [Directory!Next]_AnsweredBy
    <3>1. rows[r].name \in Name
      BY <2>3 DEF DeleteServer, TypeOK, RowRecord
    <3> QED BY <2>3, <3>1, <1>2 DEF DeleteServer
  <2> QED BY <1>4, <2>1, <2>2, <2>3 DEF Request
<1>5. ASSUME NEW w \in Worker, Work(w)
      PROVE  [Directory!Next]_AnsweredBy
  <2>1. ASSUME NEW n \in Name, NEW u \in Url, CommitUpdate(w, n, u)
        PROVE  UNCHANGED AnsweredBy
    BY <2>1, <1>0 DEF CommitUpdate
  <2>2. CASE UpdateLost(w) \/ EraseRow(w) \/ ListFailed(w) \/ MarkConnected(w)
    BY <2>2, <1>0 DEF UpdateLost, EraseRow, ListFailed, MarkConnected
  <2>3. CASE SwapOut(w)
    <3>1. CASE task[w].old \in Name
      BY <2>3, <3>1, <1>2 DEF SwapOut
    <3>2. CASE task[w].old \notin Name
      <4>1. task[w].old \notin DOMAIN clients
        BY <3>2 DEF TypeOK
      <4> QED BY <2>3, <4>1, <1>0 DEF SwapOut, PopServer
    <3> QED BY <3>1, <3>2
  <2>4. CASE Closed(w) \/ ConnectFailed(w)
    BY <2>4, <1>1 DEF Closed, ConnectFailed
  <2>5. ASSUME NEW c \in Client, NewClient(w, c)
        PROVE  UNCHANGED AnsweredBy
    <3>1. NamesKept
      BY <2>5 DEF NewClient, Unreferenced, NamesKept, TypeOK
    <3> QED BY <2>5, <3>1, Stutters DEF NewClient
  <2>6. CASE Connected(w)
    <3>1. task[w].name \in Name
      BY <2>6 DEF Connected, Named, Targets
    <3> QED BY <2>6, <3>1, <1>3 DEF Connected
  <2>7. ASSUME NEW listing \in SUBSET Tool, Listed(w, listing)
        PROVE  [Directory!Next]_AnsweredBy
    <3>1. task[w].name \in Name /\ client[task[w].cl].name = task[w].name
      BY <2>7 DEF Listed, Named, Targets, HeldByTask
    <3> QED BY <2>7, <3>1, RegisterPublishes DEF Listed
  <2> QED BY <1>5, <2>1, <2>2, <2>3, <2>4, <2>5, <2>6, <2>7 DEF Work
<1>6. CASE Health
  <2>1. ASSUME NEW n \in Name, NEW c \in Client, NextServer(n, c)
        PROVE  UNCHANGED AnsweredBy
    BY <2>1, <1>0 DEF NextServer
  <2>2. CASE WakeUp \/ ScanDone \/ ProbeOk \/ ProbeFailed \/ MarkDisconnected
             \/ Retry \/ RelistFailed \/ MarkReconnected
    BY <2>2, <1>0 DEF WakeUp, ScanDone, ProbeOk, ProbeFailed, MarkDisconnected,
                      Retry, RelistFailed, MarkReconnected
  <2>3. CASE RetryClosed \/ ReconnectFailed
    BY <2>3, <1>1 DEF RetryClosed, ReconnectFailed
  <2>4. CASE Reconnected
    <3>1. health.name \in Name
      BY <2>4 DEF Reconnected, Named
    <3> QED BY <2>4, <3>1, <1>3 DEF Reconnected
  <2>5. ASSUME NEW listing \in SUBSET Tool, Relisted(listing)
        PROVE  [Directory!Next]_AnsweredBy
    <3>1. health.name \in Name /\ client[health.cl].name = health.name
      BY <2>5 DEF Relisted, Named, HeldByHealth
    <3> QED BY <2>5, <3>1, RegisterPublishes DEF Relisted
  <2> QED BY <1>6, <2>1, <2>2, <2>3, <2>4, <2>5 DEF Health
<1>7. CASE Lifespan
  <2>1. CASE Boot \/ Ready \/ Shutdown
    BY <2>1, <1>0 DEF Boot, Ready, Shutdown
  <2>2. ASSUME NEW n \in Name, StopServer(n)
        PROVE  [Directory!Next]_AnsweredBy
    BY <2>2, <1>2 DEF StopServer
  <2>3. CASE StopClosed
    BY <2>3, <1>1 DEF StopClosed
  <2>4. CASE Exit \/ Crash
    <3>1. tools' = NoTools
      BY <2>4 DEF Exit, Crash, ProcessEnds
    <3>2. AnsweredBy' = [n \in Separate |-> [t \in Tool |-> NoName]]
      BY <3>1 DEF AnsweredBy, NoTools
    <3> QED BY <3>2 DEF Directory!Next, Directory!Reset, Directory!Nothing
  <2> QED BY <1>7, <2>1, <2>2, <2>3, <2>4 DEF Lifespan
<1>8. CASE Remote
  <2>1. ASSUME NEW u \in Url, RemoteUp(u)
        PROVE  UNCHANGED AnsweredBy
    BY <2>1, <1>0 DEF RemoteUp
  <2>2. ASSUME NEW u \in Url, RemoteDown(u)
        PROVE  UNCHANGED AnsweredBy
    <3>1. NamesKept
      BY <2>2 DEF RemoteDown, NamesKept, TypeOK, ClientRecord
    <3> QED BY <2>2, <3>1, Stutters DEF RemoteDown
  <2>3. ASSUME NEW c \in Client, Swallowed(c)
        PROVE  UNCHANGED AnsweredBy
    BY <2>3, <1>1 DEF Swallowed
  <2> QED BY <1>8, <2>1, <2>2, <2>3 DEF Remote
<1>10. CASE Elsewhere
  BY <1>10, <1>0 DEF Elsewhere, WrittenElsewhere, ErasedElsewhere, MarkedElsewhere, NoteForeign
<1>9. CASE UNCHANGED vars
  BY <1>9, <1>0 DEF vars
<1> QED BY <1>4, <1>5, <1>6, <1>7, <1>8, <1>9, <1>10 DEF Next

\* Whatever operations overlap, whatever fails and whenever the process
\* restarts, the flat registry behaves as one directory for each server whose
\* name is a prefix of no other and has none, whatever the others are called.
THEOREM RegistryImplementsDirectory ==
    ASSUME NEW Segment, Namespaces(Segment)
    PROVE  Spec => DirectorySpec
<1>1. Init => Directory!Init
  BY DEF Init, Directory!Init, Directory!Nothing, AnsweredBy, NoTools
<1>2. IInv /\ [Next]_vars => [Directory!Next]_AnsweredBy
  BY StepDirectory
<1> QED BY <1>1, <1>2, InductiveInvariant, PTL DEF Spec, DirectorySpec, Directory!Spec

-----------------------------------------------------------------------------
\* Operations that do not overlap.

\* No two operations share a name.
Exclusive ==
    \A n \in Name :
        /\ \A v, w \in Worker : WorkerOn(v, n) /\ WorkerOn(w, n) => v = w
        /\ HealthOn(n) => \A w \in Worker : ~WorkerOn(w, n)

\* The row of a worker has the name and the URL it works for; a row that
\* was only loaded may have changed elsewhere.
RowKept(w) ==
    LET k == task[w] IN
    k.pc # "idle" /\ ~(k.pc = "fetched" /\ k.old \in foreign) =>
        /\ k.row \in DOMAIN rows
        /\ IF k.pc = "fetched" \/ k.op = "delete"
           THEN rows[k.row].name = k.old
           ELSE rows[k.row].name = k.name /\ rows[k.row].url = k.url

\* Where the client of a worker is published, and where none may be.
Progress(w) ==
    LET k == task[w] IN
    /\ k.pc = "erase" => k.op = "delete"
    /\ k.op = "delete" => k.pc \in {"close", "erase"}
    /\ k.pc \in {"idle", "fetched", "swap", "new", "erase"} => k.cl = NoClient
    /\ k.pc = "fetched" => k.name = NoName
    /\ k.pc \in {"close", "erase"} => k.old \notin DOMAIN clients
    /\ k.pc = "swap" /\ k.name # k.old => k.name \notin DOMAIN clients
    /\ k.pc = "close" /\ k.op # "delete" => k.name \notin DOMAIN clients
    /\ k.pc \in {"new", "connect"} => k.name \notin DOMAIN clients
    /\ k.pc \in {"connect", "list", "status"} =>
          k.cl \in Client /\ client[k.cl].url = k.url
    /\ k.pc \in {"list", "status"} =>
          k.name \in DOMAIN clients /\ clients[k.name] = k.cl

\* The health task repairs the client under the name.
Repairs ==
    health.pc \in {"close", "connect", "list", "status"} =>
        health.name \in DOMAIN clients /\ health.cl = clients[health.name]

Swapping(n) == \E w \in Worker : task[w].pc = "swap" /\ task[w].old = n

\* A client stands for a row, unless its worker is about to swap it out or
\* another process has written its name.
Backed(n) ==
    n \in DOMAIN clients \ foreign /\ ~Swapping(n) =>
        \E r \in DOMAIN rows :
            rows[r].name = n /\ rows[r].url = client[clients[n]].url

\* An open session is published or about to be closed.
Owned(c) ==
    client[c].session \in {"open", "mute"} =>
        \/ \E n \in DOMAIN clients : clients[n] = c
        \/ \E w \in Worker : task[w].cl = c
        \/ stop.cl = c

Phases ==
    /\ phase = "down" => clients = NoTools /\ ~clash /\ \A w \in Worker : task[w] = Idle
    /\ phase # "running" => health = Resting("off", {})
    /\ phase # "stopping" => stop = NotStopping

Serial ==
    /\ Exclusive
    /\ \A w \in Worker : RowKept(w) /\ Progress(w)
    /\ Repairs
    /\ \A n \in Name : Backed(n)
    /\ \A c \in Client : Owned(c)

SInv == Phases /\ (~clash => Serial)

\* What an operation leaves alone.
SameRow(r) ==
    /\ r \in DOMAIN rows'
    /\ rows'[r].name = rows[r].name
    /\ rows'[r].url = rows[r].url

SameEntry(n) ==
    /\ n \in DOMAIN clients' <=> n \in DOMAIN clients
    /\ n \in DOMAIN clients => clients'[n] = clients[n]

SameUrl(c) == client'[c].url = client[c].url

\* A step taken while operations have not overlapped, in this process.
Quiet == IInv /\ IInv' /\ Phases /\ Serial /\ ~clash /\ ~clash'

Undisturbed == Quiet /\ foreign' = foreign

\* A clash was not noted: worker w has the names ns for itself.
LEMMA Unshared ==
    ASSUME NEW w, NEW r, NEW ns, NoteClash(w, r, ns), ~clash'
    PROVE  /\ ~clash
           /\ \A n \in ns : ~HealthOn(n) /\ \A v \in Worker \ {w} : ~WorkerOn(v, n)
           /\ \A q \in DOMAIN rows \ {r} : rows[q].name \notin ns
  BY DEF NoteClash

\* Workers that stand still are undisturbed by what happens to the names
\* ns, when none of them works on one of these.
LEMMA WorkersKept ==
    ASSUME Undisturbed, NEW W \in SUBSET Worker, NEW ns \in SUBSET Name,
           \A v \in W : task'[v] = task[v] /\ \A n \in ns : ~WorkerOn(v, n),
           \A n \in (Name \cup {NoName}) \ ns : SameEntry(n),
           \A r \in DOMAIN rows : rows[r].name \notin ns => SameRow(r),
           \A v \in W : task[v].cl \in Client => SameUrl(task[v].cl)
    PROVE  \A v \in W : RowKept(v)' /\ Progress(v)'
<1> SUFFICES ASSUME NEW v \in W PROVE RowKept(v)' /\ Progress(v)'
  OBVIOUS
<1> USE DEF Undisturbed, Quiet, Serial
<1>1. task[v] \in TaskRecord /\ RowKept(v) /\ Progress(v) /\ task'[v] = task[v]
  BY DEF IInv, TypeOK
<1>2. CASE task[v].pc = "idle"
  BY <1>1, <1>2 DEF RowKept, Progress, TaskRecord
<1>3. CASE task[v].pc # "idle"
  <2>1. \A n \in {task[v].old, task[v].name} : n \in Name \cup {NoName} /\ n \notin ns
    BY <1>1, <1>3 DEF WorkerOn, TaskRecord
  <2>2. SameEntry(task[v].old) /\ SameEntry(task[v].name)
    BY <2>1
  <2>5. RowKept(v)'
    <3>1. CASE task[v].pc = "fetched" /\ task[v].old \in foreign
      BY <1>1, <3>1 DEF RowKept
    <3>2. CASE ~(task[v].pc = "fetched" /\ task[v].old \in foreign)
      <4>1. rows[task[v].row].name \notin ns /\ task[v].row \in DOMAIN rows
        BY <1>1, <1>3, <2>1, <3>2 DEF RowKept
      <4>2. SameRow(task[v].row)
        BY <4>1
      <4> QED BY <1>1, <1>3, <3>2, <4>2 DEF RowKept, SameRow
    <3> QED BY <3>1, <3>2
  <2>6. Progress(v)'
    BY <1>1, <2>2 DEF Progress, SameEntry, SameUrl
  <2> QED BY <2>5, <2>6
<1> QED BY <1>2, <1>3

LEMMA BackedKept ==
    ASSUME Undisturbed, NEW n \in Name, Backed(n), SameEntry(n),
           Swapping(n) => Swapping(n)',
           n \in DOMAIN clients => SameUrl(clients[n]),
           \A r \in DOMAIN rows : rows[r].name = n => SameRow(r)
    PROVE  Backed(n)'
  BY DEF Undisturbed, Quiet, Backed, SameEntry, SameUrl, SameRow

LEMMA ExclusiveKept ==
    ASSUME Exclusive,
           \A v \in Worker, n \in Name : WorkerOn(v, n)' => WorkerOn(v, n),
           \A n \in Name : HealthOn(n)' => HealthOn(n)
    PROVE  Exclusive'
  BY DEF Exclusive

LEMMA ExclusiveTaken ==
    ASSUME Exclusive, NEW w \in Worker, NEW ns, health' = health,
           \A v \in Worker \ {w} : task'[v] = task[v],
           \A n \in ns : ~HealthOn(n) /\ \A v \in Worker \ {w} : ~WorkerOn(v, n),
           \A n \in Name : WorkerOn(w, n)' => n \in ns
    PROVE  Exclusive'
  BY DEF Exclusive, WorkerOn, HealthOn

\* Nothing happens to the workers, the manager or the names in the table.
LEMMA TableStands ==
    ASSUME Undisturbed, task' = task, clients' = clients,
           \A c \in Client : SameUrl(c),
           \A r \in DOMAIN rows : SameRow(r)
    PROVE  /\ \A w \in Worker : RowKept(w)' /\ Progress(w)'
           /\ \A n \in Name : Backed(n)'
<1>1. \A n : SameEntry(n)
  BY DEF SameEntry
<1>2. \A w \in Worker : RowKept(w)' /\ Progress(w)'
  BY <1>1, WorkersKept, Zenon
<1>3. \A n \in Name : Backed(n)'
  BY <1>1, BackedKept DEF Undisturbed, Quiet, Serial, Swapping, IInv, TypeOK
<1> QED BY <1>2, <1>3

\* The steps of the health task keep to the client they repair.
LEMMA SerialHealth == Undisturbed /\ Health => Serial'
<1> SUFFICES ASSUME Undisturbed, Health PROVE Serial'
  OBVIOUS
<1>0. IInv /\ IInv' /\ TypeOK /\ Serial /\ ~clash /\ ~clash'
  BY DEF Undisturbed, Quiet, IInv
<1>1. task' = task /\ clients' = clients /\ stop' = stop
  BY DEF Health, WakeUp, NextServer, ScanDone, ProbeOk, ProbeFailed, MarkDisconnected,
         Retry, RetryClosed, Reconnected, ReconnectFailed, Relisted, RelistFailed,
         MarkReconnected
<1>2. \A r \in DOMAIN rows : SameRow(r)
  <2>1. CASE rows' = rows
    BY <2>1 DEF SameRow
  <2>2. ASSUME NEW x, StatusByName(health.name, x)
        PROVE  \A r \in DOMAIN rows : SameRow(r)
    BY <1>0, <2>2 DEF TypeOK, RowRecord, SameRow, StatusByName
  <2> QED
    BY <2>1, <2>2 DEF Health, WakeUp, NextServer, ScanDone, ProbeOk, ProbeFailed,
         MarkDisconnected, Retry, RetryClosed, Reconnected, ReconnectFailed, Relisted,
         RelistFailed, MarkReconnected
<1>3. \A c \in Client : SameUrl(c)
  <2>1. CASE client' = client
    BY <2>1 DEF SameUrl
  <2>2. ASSUME NEW s \in {"none", "dead", "open", "mute"}, SetSession(health.cl, s)
        PROVE  \A c \in Client : SameUrl(c)
    BY <1>0, <2>2 DEF SetSession, SameUrl, TypeOK, ClientRecord
  <2> QED
    BY <2>1, <2>2 DEF Health, WakeUp, NextServer, ScanDone, ProbeOk, ProbeFailed,
         MarkDisconnected, Retry, RetryClosed, Reconnected, ReconnectFailed, Relisted,
         RelistFailed, MarkReconnected
<1>4. (\A w \in Worker : RowKept(w)' /\ Progress(w)') /\ (\A n \in Name : Backed(n)')
  BY <1>1, <1>2, <1>3, TableStands
<1>5. Exclusive'
  <2>1. \A v \in Worker, n \in Name : WorkerOn(v, n)' = WorkerOn(v, n)
    BY <1>1 DEF WorkerOn
  <2>2. CASE ProbeFailed
    <3>1. \A n \in Name : HealthOn(n)' => n = health.name
      BY <1>0, <2>2 DEF ProbeFailed, HealthOn, TypeOK, HealthRecord
    <3>2. \A w \in Worker : ~WorkerOn(w, health.name)
      BY <1>0, <2>2 DEF ProbeFailed
    <3>3. \A w \in Worker, n \in Name : HealthOn(n)' => ~WorkerOn(w, n)'
      BY <2>1, <3>1, <3>2
    <3>4. \A n \in Name : \A v, w \in Worker : WorkerOn(v, n)' /\ WorkerOn(w, n)' => v = w
      BY <1>0, <2>1 DEF Exclusive, Serial
    <3> QED BY <3>3, <3>4 DEF Exclusive
  <2>3. CASE ~ProbeFailed
    <3>1. \A n \in Name : HealthOn(n)' => HealthOn(n)
      <4>1. CASE WakeUp \/ ScanDone \/ ProbeOk \/ MarkReconnected
        BY <4>1 DEF WakeUp, ScanDone, ProbeOk, MarkReconnected, HealthOn, Resting
      <4>2. ASSUME NEW n \in Name, NEW c \in Client, NextServer(n, c)
            PROVE  health'.pc \in {"scan", "probe"}
        BY <4>2 DEF NextServer, Resting
      <4>3. CASE MarkDisconnected \/ Retry \/ RetryClosed \/ Reconnected
        BY <1>0, <4>3 DEF MarkDisconnected, Retry, RetryClosed, Reconnected, HealthOn,
                          TypeOK, HealthRecord
      <4>4. ASSUME ReconnectFailed \/ RelistFailed \/ \E listing \in SUBSET Tool : Relisted(listing)
            PROVE  \A n \in Name : HealthOn(n)' => HealthOn(n)
        BY <1>0, <4>4 DEF ReconnectFailed, Relisted, RelistFailed, HealthOn, TypeOK, HealthRecord
      <4> QED BY <2>3, <4>1, <4>2, <4>3, <4>4 DEF Health, HealthOn
    <3> QED BY <1>0, <2>1, <3>1, ExclusiveKept DEF Serial
  <2> QED BY <2>2, <2>3
<1>6. Repairs'
  <2>1. CASE WakeUp \/ ScanDone \/ ProbeOk \/ MarkReconnected
    BY <2>1 DEF WakeUp, ScanDone, ProbeOk, MarkReconnected, Repairs, Resting
  <2>2. ASSUME NEW n \in Name, NEW c \in Client, NextServer(n, c)
        PROVE  Repairs'
    BY <2>2 DEF NextServer, Resting, Repairs
  <2>3. CASE ProbeFailed \/ MarkDisconnected \/ Retry \/ RetryClosed
    <3>1. CASE ProbeFailed \/ MarkDisconnected
      <4>1. health'.pc \in {"mark", "backoff"}
        BY <1>0, <3>1 DEF ProbeFailed, MarkDisconnected, TypeOK, HealthRecord
      <4> QED BY <4>1 DEF Repairs
    <3>2. CASE Retry \/ RetryClosed
      BY <1>0, <1>1, <3>2 DEF Retry, RetryClosed, Repairs, Serial, TypeOK, HealthRecord
    <3> QED BY <2>3, <3>1, <3>2
  <2>4. ASSUME Reconnected \/ ReconnectFailed \/ RelistFailed
               \/ \E listing \in SUBSET Tool : Relisted(listing)
        PROVE  Repairs'
    BY <1>0, <1>1, <2>4 DEF Reconnected, ReconnectFailed, Relisted, RelistFailed, Repairs,
                            Serial, TypeOK, HealthRecord
  <2> QED BY <2>1, <2>2, <2>3, <2>4 DEF Health
<1>7. \A c \in Client : Owned(c)'
  <2>1. CASE Reconnected
    BY <1>0, <1>1, <2>1 DEF Reconnected, Repairs, Serial, Owned, SetSession, TypeOK, ClientRecord
  <2>2. CASE ~Reconnected
    <3>1. \A c \in Client : client'[c].session \in {"open", "mute"} => client[c].session \in {"open", "mute"}
      <4>1. ASSUME NEW s \in {"none", "dead"}, SetSession(health.cl, s)
            PROVE  \A c \in Client : client'[c].session \in {"open", "mute"} => client[c].session \in {"open", "mute"}
        BY <1>0, <4>1 DEF SetSession, TypeOK, ClientRecord
      <4>2. CASE client' = client
        BY <4>2
      <4> QED BY <2>2, <4>1, <4>2 DEF Health, WakeUp, NextServer, ScanDone,
         ProbeOk, ProbeFailed, MarkDisconnected, Retry, RetryClosed, ReconnectFailed, Relisted,
         RelistFailed, MarkReconnected
    <3> QED BY <1>0, <1>1, <3>1 DEF Owned, Serial
  <2> QED BY <2>1, <2>2
<1> QED BY <1>4, <1>5, <1>6, <1>7 DEF Serial

\* Remote servers come and go: sessions die, and one that was asked for turns
\* mute in the hands of whoever asked.
LEMMA SerialRemote == Undisturbed /\ Remote => Serial'
<1> SUFFICES ASSUME Undisturbed, Remote PROVE Serial'
  OBVIOUS
<1>0. TypeOK /\ Serial
  BY DEF Undisturbed, Quiet, IInv
<1>1. UNCHANGED <<rows, clients, task, health, stop>>
  BY DEF Remote, RemoteUp, RemoteDown, Swallowed
<1>2. \A c \in Client :
        /\ SameUrl(c)
        /\ \/ client'[c].session \in {"open", "mute"} => client[c].session \in {"open", "mute"}
           \/ Awaits(c, "connect")
  <2>1. ASSUME NEW u \in Url, RemoteUp(u) \/ RemoteDown(u), NEW c \in Client
        PROVE  /\ SameUrl(c)
               /\ client'[c].session \in {"open", "mute"} => client[c].session \in {"open", "mute"}
    BY <1>0, <2>1 DEF RemoteUp, RemoteDown, TypeOK, ClientRecord, SameUrl
  <2>2. ASSUME NEW d \in Client, Swallowed(d), NEW c \in Client
        PROVE  /\ SameUrl(c)
               /\ \/ client'[c].session \in {"open", "mute"} => client[c].session \in {"open", "mute"}
                  \/ Awaits(c, "connect")
    <3>1. SameUrl(c) /\ (c # d => client'[c] = client[c])
      BY <1>0, <2>2 DEF Swallowed, SetSession, TypeOK, ClientRecord, SameUrl
    <3>2. Awaits(d, "connect") \/ client[d].session = "open"
      BY <2>2 DEF Swallowed
    <3> QED BY <3>1, <3>2
  <2> QED BY <2>1, <2>2 DEF Remote
<1>3. \A r \in DOMAIN rows : SameRow(r)
  BY <1>1 DEF SameRow
<1>4. (\A w \in Worker : RowKept(w)' /\ Progress(w)') /\ (\A n \in Name : Backed(n)')
  BY <1>1, <1>2, <1>3, TableStands
<1>5. Exclusive' /\ Repairs'
  BY <1>0, <1>1 DEF Serial, Exclusive, Repairs, WorkerOn, HealthOn
<1>6. \A c \in Client : Owned(c)'
  <2> SUFFICES ASSUME NEW c \in Client PROVE Owned(c)'
    OBVIOUS
  <2>1. CASE Awaits(c, "connect")
    <3>1. \/ \E w \in Worker : task[w].cl = c
          \/ health.name \in DOMAIN clients /\ clients[health.name] = c
      BY <1>0, <2>1 DEF Awaits, Repairs, Serial
    <3> QED BY <1>1, <3>1 DEF Owned
  <2>2. CASE ~Awaits(c, "connect")
    BY <1>0, <1>1, <1>2, <2>2 DEF Serial, Owned
  <2> QED BY <2>1, <2>2
<1> QED BY <1>4, <1>5, <1>6 DEF Serial

\* Other processes write the table: whoever works on a name they write is in
\* conflict with them, or has only loaded its row.
LEMMA SerialElsewhere == Quiet /\ Elsewhere => Serial'
<1> SUFFICES ASSUME Quiet, Elsewhere PROVE Serial'
  OBVIOUS
<1>0. TypeOK /\ Serial /\ ~clash'
  BY DEF Quiet, IInv
<1>1. UNCHANGED <<clients, client, task, health, stop>>
  BY DEF Elsewhere, WrittenElsewhere, ErasedElsewhere, MarkedElsewhere, NoteForeign
<1>2. Exclusive' /\ Repairs' /\ \A c \in Client : Owned(c)'
  BY <1>0, <1>1 DEF Serial, Exclusive, Repairs, Owned, WorkerOn, HealthOn
<1>3. \A w \in Worker : Progress(w)'
  BY <1>0, <1>1 DEF Serial, Progress
<1>4. ASSUME NEW r \in Shared, NEW s \in {"connected", "disconnected"}, MarkedElsewhere(r, s)
      PROVE  (\A w \in Worker : RowKept(w)') /\ \A n \in Name : Backed(n)'
  <2>1. \A q \in DOMAIN rows : SameRow(q)
    BY <1>0, <1>4 DEF MarkedElsewhere, StatusById, SameRow, TypeOK, RowRecord
  <2>2. (\A c \in Client : SameUrl(c)) /\ foreign' = foreign
    BY <1>1, <1>4 DEF MarkedElsewhere, SameUrl
  <2> QED BY <1>1, <2>1, <2>2, TableStands DEF Undisturbed
<1>5. ASSUME NEW r \in Shared, NEW ns \in SUBSET Name, NoteForeign(NameOf(r) \cup ns),
             \A q \in DOMAIN rows \ {r} : SameRow(q)
      PROVE  (\A w \in Worker : RowKept(w)') /\ \A n \in Name : Backed(n)'
  <2>1. /\ foreign' = foreign \cup (NameOf(r) \cup ns)
        /\ \A w \in Worker, n \in NameOf(r) : WorkerOn(w, n) => task[w].pc = "fetched"
    BY <1>0, <1>5 DEF NoteForeign
  <2>2. \A q \in DOMAIN rows : rows[q].name \notin NameOf(r) => SameRow(q)
    BY <1>5 DEF NameOf
  <2>3. ASSUME NEW w \in Worker
        PROVE  RowKept(w)'
    <3> SUFFICES ASSUME task[w].pc # "idle",
                        ~(task[w].pc = "fetched" /\ task[w].old \in foreign')
                 PROVE  RowKept(w)'
      BY <1>1 DEF RowKept
    <3>1. RowKept(w) /\ ~(task[w].pc = "fetched" /\ task[w].old \in foreign)
      BY <1>0, <2>1 DEF Serial
    <3>2. task[w].row \in DOMAIN rows /\ rows[task[w].row].name \in {task[w].old, task[w].name}
      BY <3>1 DEF RowKept
    <3>3. rows[task[w].row].name \notin NameOf(r)
      <4>1. CASE task[w].pc = "fetched"
        BY <2>1, <3>1, <4>1 DEF RowKept
      <4>2. CASE task[w].pc # "fetched"
        BY <2>1, <3>2, <4>2 DEF WorkerOn
      <4> QED BY <4>1, <4>2
    <3>4. SameRow(task[w].row)
      BY <2>2, <3>2, <3>3
    <3> QED BY <1>1, <3>1, <3>4 DEF RowKept, SameRow
  <2>4. ASSUME NEW n \in Name
        PROVE  Backed(n)'
    <3> SUFFICES ASSUME n \in DOMAIN clients \ foreign', ~Swapping(n)
                 PROVE  Backed(n)'
      BY <1>1 DEF Backed, Swapping
    <3>1. PICK q \in DOMAIN rows : rows[q].name = n /\ rows[q].url = client[clients[n]].url
      BY <1>0, <2>1 DEF Serial, Backed
    <3>2. SameRow(q)
      BY <2>1, <2>2, <3>1
    <3> QED BY <1>1, <3>1, <3>2 DEF Backed, SameRow
  <2> QED BY <2>3, <2>4
<1>6. ASSUME NEW r \in Shared, NEW n \in Name, NEW u \in Url, WrittenElsewhere(r, n, u)
      PROVE  (\A w \in Worker : RowKept(w)') /\ \A m \in Name : Backed(m)'
  <2>1. \A q \in DOMAIN rows \ {r} : SameRow(q)
    BY <1>6 DEF WrittenElsewhere, With, SameRow
  <2> QED BY <1>5, <1>6, <2>1 DEF WrittenElsewhere
<1>7. ASSUME NEW r \in Shared, ErasedElsewhere(r)
      PROVE  (\A w \in Worker : RowKept(w)') /\ \A m \in Name : Backed(m)'
  <2>1. \A q \in DOMAIN rows \ {r} : SameRow(q)
    BY <1>7 DEF ErasedElsewhere, Without, Restrict, SameRow
  <2>2. NameOf(r) \cup {} = NameOf(r)
    OBVIOUS
  <2> QED BY <1>5, <1>7, <2>1, <2>2 DEF ErasedElsewhere
<1> QED BY <1>2, <1>3, <1>4, <1>6, <1>7 DEF Serial, Elsewhere

\* A step of worker w on the names ns, which are its own: everything that
\* is not about these names stays.
OwnStep(w, ns) ==
    /\ health' = health
    /\ \A v \in Worker \ {w} : task'[v] = task[v]
    /\ \A n \in ns : ~HealthOn(n) /\ \A v \in Worker \ {w} : ~WorkerOn(v, n)
    /\ \A n \in Name : WorkerOn(w, n) \/ WorkerOn(w, n)' => n \in ns
    /\ \A n \in (Name \cup {NoName}) \ ns : SameEntry(n)
    /\ \A r \in DOMAIN rows : rows[r].name \notin ns => SameRow(r)
    /\ \A c \in Client : Unreferenced(c) \/ SameUrl(c)

LEMMA OwnStepKeeps ==
    ASSUME Undisturbed, NEW w \in Worker, NEW ns \in SUBSET Name, OwnStep(w, ns)
    PROVE  /\ Exclusive' /\ Repairs'
           /\ \A v \in Worker \ {w} : RowKept(v)' /\ Progress(v)'
           /\ \A n \in Name \ ns : Backed(n)'
<1>0. TypeOK /\ Named /\ Serial
  BY DEF Undisturbed, Quiet, IInv
<1>1. Exclusive'
  BY <1>0, ExclusiveTaken DEF Serial, OwnStep
<1>2. Repairs'
  <2>1. CASE health.pc \in {"close", "connect", "list", "status"}
    <3>1. health.name \in Name \ ns
      BY <1>0, <2>1 DEF Named, OwnStep, HealthOn
    <3> QED BY <1>0, <2>1, <3>1 DEF Repairs, Serial, OwnStep, SameEntry
  <2>2. CASE health.pc \notin {"close", "connect", "list", "status"}
    BY <2>2 DEF Repairs, OwnStep
  <2> QED BY <2>1, <2>2
<1>3. \A v \in Worker \ {w} : RowKept(v)' /\ Progress(v)'
  <2>1. \A v \in Worker : task[v].cl \in Client => SameUrl(task[v].cl)
    BY DEF OwnStep, Unreferenced
  <2> QED BY <2>1, WorkersKept DEF OwnStep
<1>4. \A n \in Name \ ns : Backed(n)'
  <2> SUFFICES ASSUME NEW n \in Name \ ns PROVE Backed(n)'
    OBVIOUS
  <2>1. Swapping(n) => Swapping(n)'
    BY DEF Swapping, OwnStep, WorkerOn
  <2>2. n \in DOMAIN clients => SameUrl(clients[n])
    BY <1>0 DEF OwnStep, Unreferenced, TypeOK
  <2>3. SameEntry(n) /\ \A r \in DOMAIN rows : rows[r].name = n => SameRow(r)
    BY DEF OwnStep
  <2> QED BY <1>0, <2>1, <2>2, <2>3, BackedKept DEF Serial
<1> QED BY <1>1, <1>2, <1>3, <1>4

\* A worker has its names for itself.
LEMMA NamesOwned ==
    ASSUME Undisturbed, NEW w \in Worker
    PROVE  \A n \in {m \in Name : WorkerOn(w, m)} :
                ~HealthOn(n) /\ \A v \in Worker \ {w} : ~WorkerOn(v, n)
  BY DEF Undisturbed, Quiet, Serial, Exclusive

\* A step of w that leaves the table alone, after which Progress(w) and
\* the sessions are all there is to show.
LEMMA WorkerGoesOn ==
    ASSUME Undisturbed, NEW w \in Worker, task[w].pc \notin {"idle", "swap"},
           rows' = rows, clients' = clients, health' = health,
           \A v \in Worker \ {w} : task'[v] = task[v],
           \A n \in Name : WorkerOn(w, n)' => WorkerOn(w, n),
           \A c \in Client : Unreferenced(c) \/ SameUrl(c)
    PROVE  /\ Exclusive' /\ Repairs'
           /\ \A v \in Worker \ {w} : RowKept(v)' /\ Progress(v)'
           /\ \A n \in Name : Backed(n)'
<1> DEFINE ns == {n \in Name : WorkerOn(w, n)}
<1>1. OwnStep(w, ns)
  <2>1. (\A n : SameEntry(n)) /\ (\A r \in DOMAIN rows : SameRow(r))
    BY DEF SameEntry, SameRow
  <2>2. \A n \in ns : ~HealthOn(n) /\ \A v \in Worker \ {w} : ~WorkerOn(v, n)
    BY NamesOwned
  <2> QED BY <2>1, <2>2 DEF OwnStep
<1>2. \A n \in Name : Backed(n)'
  <2> SUFFICES ASSUME NEW n \in Name PROVE Backed(n)'
    OBVIOUS
  <2>1. Swapping(n) => Swapping(n)'
    BY DEF Swapping
  <2>2. n \in DOMAIN clients => SameUrl(clients[n])
    BY DEF Unreferenced, Undisturbed, Quiet, IInv, TypeOK
  <2>3. SameEntry(n) /\ \A r \in DOMAIN rows : SameRow(r)
    BY DEF SameEntry, SameRow
  <2> QED BY <2>1, <2>2, <2>3, BackedKept DEF Serial, Undisturbed, Quiet
<1>3. ns \in SUBSET Name
  OBVIOUS
<1> HIDE DEF ns
<1>4. Exclusive' /\ Repairs' /\ \A v \in Worker \ {w} : RowKept(v)' /\ Progress(v)'
  BY <1>1, <1>3, OwnStepKeeps
<1> QED BY <1>2, <1>4

\* A PATCH whose row another process deleted ends before it did anything.
LEMMA SerialUpdateLost ==
    ASSUME Undisturbed, NEW w \in Worker, UpdateLost(w) PROVE Serial'
<1>0. TypeOK /\ Serial /\ Progress(w)
  BY DEF Undisturbed, Quiet, IInv, Serial
<1>1. /\ task[w].pc = "fetched" /\ UNCHANGED <<rows, clients, client, health, stop>>
      /\ task'[w] = Idle
      /\ \A v \in Worker \ {w} : task'[v] = task[v]
  BY <1>0 DEF UpdateLost, TypeOK
<1>2. /\ Exclusive' /\ Repairs'
      /\ \A v \in Worker \ {w} : RowKept(v)' /\ Progress(v)'
      /\ \A n \in Name : Backed(n)'
  <2>1. \A n \in Name : WorkerOn(w, n)' => WorkerOn(w, n)
    BY <1>1 DEF WorkerOn, Idle
  <2>2. \A d \in Client : SameUrl(d)
    BY <1>1 DEF SameUrl
  <2> QED BY <1>1, <2>1, <2>2, WorkerGoesOn
<1>3. RowKept(w)' /\ Progress(w)'
  BY <1>1 DEF RowKept, Progress, Idle
<1>4. \A c \in Client : Owned(c)'
  BY <1>0, <1>1 DEF Serial, Owned, Progress
<1> QED BY <1>2, <1>3, <1>4 DEF Serial

LEMMA SerialClosed ==
    ASSUME Undisturbed, NEW w \in Worker, Closed(w) PROVE Serial'
<1>0. TypeOK /\ Serial /\ task[w] \in TaskRecord /\ RowKept(w) /\ Progress(w)
  BY DEF Undisturbed, Quiet, IInv, TypeOK, Serial
<1>1. /\ task[w].pc = "close" /\ SetSession(task[w].cl, "none")
      /\ UNCHANGED <<rows, clients, health, stop>>
      /\ \A v \in Worker \ {w} : task'[v] = task[v]
  BY <1>0 DEF Closed, TypeOK
<1>2. task'[w] = [task[w] EXCEPT !.pc = IF task[w].op = "delete" THEN "erase" ELSE "new",
                                 !.cl = NoClient]
  BY <1>0 DEF Closed, TypeOK
<1>3. /\ task'[w].op = task[w].op /\ task'[w].row = task[w].row
      /\ task'[w].old = task[w].old /\ task'[w].name = task[w].name
      /\ task'[w].url = task[w].url /\ task'[w].cl = NoClient
      /\ task'[w].pc = IF task[w].op = "delete" THEN "erase" ELSE "new"
  BY <1>0, <1>2 DEF TaskRecord
<1>4. \A c \in Client : /\ SameUrl(c)
                        /\ client'[c].session \in {"open", "mute"} =>
                             client[c].session \in {"open", "mute"} /\ c # task[w].cl
  BY <1>0, <1>1 DEF SetSession, TypeOK, ClientRecord, SameUrl
<1>5. /\ Exclusive' /\ Repairs'
      /\ \A v \in Worker \ {w} : RowKept(v)' /\ Progress(v)'
      /\ \A n \in Name : Backed(n)'
  <2>1. \A n \in Name : WorkerOn(w, n)' => WorkerOn(w, n)
    BY <1>1, <1>3 DEF WorkerOn
  <2> QED BY <1>1, <1>4, <2>1, WorkerGoesOn
<1>6. RowKept(w)' /\ Progress(w)'
  BY <1>0, <1>1, <1>3 DEF RowKept, Progress
<1>7. \A c \in Client : Owned(c)'
  BY <1>0, <1>1, <1>4 DEF Serial, Owned
<1> QED BY <1>5, <1>6, <1>7 DEF Serial

LEMMA SerialNewClient ==
    ASSUME Undisturbed, NEW w \in Worker, NEW c \in Client, NewClient(w, c) PROVE Serial'
<1>0. TypeOK /\ Serial /\ task[w] \in TaskRecord /\ RowKept(w) /\ Progress(w)
  BY DEF Undisturbed, Quiet, IInv, TypeOK, Serial
<1>1. /\ task[w].pc = "new" /\ Unreferenced(c)
      /\ UNCHANGED <<rows, clients, health, stop>>
      /\ \A v \in Worker \ {w} : task'[v] = task[v]
  BY <1>0 DEF NewClient, TypeOK
<1>2. /\ task'[w].op = task[w].op /\ task'[w].row = task[w].row
      /\ task'[w].old = task[w].old /\ task'[w].name = task[w].name
      /\ task'[w].url = task[w].url /\ task'[w].cl = c
      /\ task'[w].pc = "connect"
  BY <1>0 DEF NewClient, TypeOK, TaskRecord
<1>3. \A d \in Client \ {c} : client'[d] = client[d]
  BY <1>0 DEF NewClient, TypeOK
<1>4. client'[c].url = task[w].url /\ client'[c].session = "none"
  BY <1>0 DEF NewClient, TypeOK
<1>5. /\ Exclusive' /\ Repairs'
      /\ \A v \in Worker \ {w} : RowKept(v)' /\ Progress(v)'
      /\ \A n \in Name : Backed(n)'
  <2>1. \A n \in Name : WorkerOn(w, n)' => WorkerOn(w, n)
    BY <1>1, <1>2 DEF WorkerOn
  <2>2. \A d \in Client : Unreferenced(d) \/ SameUrl(d)
    BY <1>1, <1>3 DEF SameUrl
  <2> QED BY <1>1, <2>1, <2>2, WorkerGoesOn
<1>6. RowKept(w)' /\ Progress(w)'
  BY <1>0, <1>1, <1>2, <1>4 DEF RowKept, Progress
<1>7. \A d \in Client : Owned(d)'
  <2> SUFFICES ASSUME NEW d \in Client \ {c} PROVE Owned(d)'
    BY <1>4 DEF Owned
  <2>1. task[w].cl # d
    BY <1>0, <1>1 DEF Progress
  <2> QED BY <1>0, <1>1, <1>3, <2>1 DEF Serial, Owned
<1> QED BY <1>5, <1>6, <1>7 DEF Serial

LEMMA SerialConnectFailed ==
    ASSUME Undisturbed, NEW w \in Worker, ConnectFailed(w) PROVE Serial'
<1>0. TypeOK /\ Serial /\ task[w] \in TaskRecord /\ RowKept(w) /\ Progress(w)
  BY DEF Undisturbed, Quiet, IInv, TypeOK, Serial
<1>1. PICK s \in {"none", "dead"} :
      /\ task[w].pc = "connect" /\ SetSession(task[w].cl, s)
      /\ UNCHANGED <<rows, clients, health, stop>>
      /\ task'[w] = Idle
      /\ \A v \in Worker \ {w} : task'[v] = task[v]
  BY <1>0 DEF ConnectFailed, TypeOK
<1>2. \A c \in Client : /\ SameUrl(c)
                        /\ client'[c].session \in {"open", "mute"} =>
                             client[c].session \in {"open", "mute"} /\ c # task[w].cl
  BY <1>0, <1>1 DEF SetSession, TypeOK, ClientRecord, SameUrl
<1>3. /\ Exclusive' /\ Repairs'
      /\ \A v \in Worker \ {w} : RowKept(v)' /\ Progress(v)'
      /\ \A n \in Name : Backed(n)'
  <2>1. \A n \in Name : WorkerOn(w, n)' => WorkerOn(w, n)
    BY <1>1 DEF WorkerOn, Idle
  <2> QED BY <1>1, <1>2, <2>1, WorkerGoesOn
<1>4. RowKept(w)' /\ Progress(w)'
  BY <1>1 DEF RowKept, Progress, Idle
<1>5. \A c \in Client : Owned(c)'
  BY <1>0, <1>1, <1>2 DEF Serial, Owned
<1> QED BY <1>3, <1>4, <1>5 DEF Serial

\* _sync_tools() changes nothing but the registry.
LEMMA SerialListed ==
    ASSUME Undisturbed, NEW w \in Worker,
           ListFailed(w) \/ \E listing \in SUBSET Tool : Listed(w, listing)
    PROVE  Serial'
<1>0. TypeOK /\ Serial /\ task[w] \in TaskRecord /\ RowKept(w) /\ Progress(w)
  BY DEF Undisturbed, Quiet, IInv, TypeOK, Serial
<1>1. /\ task[w].pc = "list" /\ UNCHANGED <<rows, clients, client, health, stop>>
      /\ \A v \in Worker \ {w} : task'[v] = task[v]
  BY <1>0 DEF ListFailed, Listed, TypeOK
<1>2. /\ task'[w].op = task[w].op /\ task'[w].row = task[w].row
      /\ task'[w].old = task[w].old /\ task'[w].name = task[w].name
      /\ task'[w].url = task[w].url /\ task'[w].cl = task[w].cl
      /\ task'[w].pc = "status"
  BY <1>0 DEF ListFailed, Listed, TypeOK, TaskRecord
<1>3. /\ Exclusive' /\ Repairs'
      /\ \A v \in Worker \ {w} : RowKept(v)' /\ Progress(v)'
      /\ \A n \in Name : Backed(n)'
  <2>1. \A n \in Name : WorkerOn(w, n)' => WorkerOn(w, n)
    BY <1>1, <1>2 DEF WorkerOn
  <2>2. \A d \in Client : SameUrl(d)
    BY <1>1 DEF SameUrl
  <2> QED BY <1>1, <2>1, <2>2, WorkerGoesOn
<1>4. RowKept(w)' /\ Progress(w)'
  BY <1>0, <1>1, <1>2 DEF RowKept, Progress
<1>5. \A c \in Client : Owned(c)'
  BY <1>0, <1>1, <1>2 DEF Serial, Owned
<1> QED BY <1>3, <1>4, <1>5 DEF Serial

\* A worker ends with its client published.
LEMMA SerialMarkConnected ==
    ASSUME Undisturbed, NEW w \in Worker, MarkConnected(w) PROVE Serial'
<1>0. TypeOK /\ Serial /\ task[w] \in TaskRecord /\ RowKept(w) /\ Progress(w)
  BY DEF Undisturbed, Quiet, IInv, TypeOK, Serial
<1> DEFINE ns == {n \in Name : WorkerOn(w, n)}
<1>1. /\ task[w].pc = "status" /\ UNCHANGED <<clients, client, health, stop>>
      /\ task'[w] = Idle
      /\ \A v \in Worker \ {w} : task'[v] = task[v]
  BY <1>0 DEF MarkConnected, TypeOK
<1>2. \A r \in DOMAIN rows : SameRow(r)
  BY <1>0 DEF MarkConnected, StatusById, SameRow, TypeOK, RowRecord
<1>3. (\A n : SameEntry(n)) /\ \A c \in Client : SameUrl(c)
  BY <1>1 DEF SameEntry, SameUrl
<1>4. OwnStep(w, ns)
  <2>1. \A n \in Name : ~WorkerOn(w, n)'
    BY <1>1 DEF WorkerOn, Idle
  <2>2. \A n \in ns : ~HealthOn(n) /\ \A v \in Worker \ {w} : ~WorkerOn(v, n)
    BY NamesOwned
  <2> QED BY <1>1, <1>2, <1>3, <2>1, <2>2 DEF OwnStep
<1>5. Exclusive' /\ Repairs' /\ \A v \in Worker \ {w} : RowKept(v)' /\ Progress(v)'
  <2> HIDE DEF ns
  <2>1. ns \in SUBSET Name
    BY DEF ns
  <2> QED BY <1>4, <2>1, OwnStepKeeps
<1>6. \A n \in Name : Backed(n)'
  <2> SUFFICES ASSUME NEW n \in Name PROVE Backed(n)'
    OBVIOUS
  <2>1. Swapping(n) => Swapping(n)'
    BY <1>1 DEF Swapping
  <2>2. n \in DOMAIN clients => SameUrl(clients[n])
    BY <1>0, <1>3 DEF TypeOK
  <2> QED BY <1>0, <1>2, <1>3, <2>1, <2>2, BackedKept DEF Serial
<1>7. RowKept(w)' /\ Progress(w)'
  BY <1>1 DEF RowKept, Progress, Idle
<1>8. \A c \in Client : Owned(c)'
  <2>1. task[w].name \in DOMAIN clients /\ clients[task[w].name] = task[w].cl
    BY <1>0, <1>1 DEF Progress
  <2> QED BY <1>0, <1>1, <2>1 DEF Serial, Owned
<1> QED BY <1>5, <1>6, <1>7, <1>8 DEF Serial

\* A deleted row takes no client's row with it.
LEMMA SerialEraseRow ==
    ASSUME Undisturbed, NEW w \in Worker, EraseRow(w) PROVE Serial'
<1>0. TypeOK /\ Serial /\ task[w] \in TaskRecord /\ RowKept(w) /\ Progress(w)
  BY DEF Undisturbed, Quiet, IInv, TypeOK, Serial
<1> DEFINE ns == {n \in Name : WorkerOn(w, n)}
<1>1. /\ task[w].pc = "erase" /\ UNCHANGED <<clients, client, health, stop>>
      /\ task'[w] = Idle
      /\ \A v \in Worker \ {w} : task'[v] = task[v]
      /\ rows' = Without(rows, task[w].row)
  BY <1>0 DEF EraseRow, TypeOK
<1>2. /\ task[w].row \in DOMAIN rows /\ rows[task[w].row].name = task[w].old
      /\ task[w].old \notin DOMAIN clients /\ task[w].cl = NoClient
  BY <1>0, <1>1 DEF RowKept, Progress
<1>3. \A r \in DOMAIN rows : r # task[w].row => SameRow(r)
  BY <1>1 DEF SameRow, Without, Restrict
<1>4. (\A n : SameEntry(n)) /\ \A c \in Client : SameUrl(c)
  BY <1>1 DEF SameEntry, SameUrl
<1>5. task[w].old \in ns
  BY <1>0, <1>1, <1>2 DEF WorkerOn, TypeOK, RowRecord
<1>6. OwnStep(w, ns)
  <2>1. \A n \in Name : ~WorkerOn(w, n)'
    BY <1>1 DEF WorkerOn, Idle
  <2>2. \A n \in ns : ~HealthOn(n) /\ \A v \in Worker \ {w} : ~WorkerOn(v, n)
    BY NamesOwned
  <2>3. \A r \in DOMAIN rows : rows[r].name \notin ns => SameRow(r)
    BY <1>2, <1>3, <1>5
  <2> QED BY <1>1, <1>4, <2>1, <2>2, <2>3 DEF OwnStep
<1>7. Exclusive' /\ Repairs' /\ \A v \in Worker \ {w} : RowKept(v)' /\ Progress(v)'
  <2> HIDE DEF ns
  <2>1. ns \in SUBSET Name
    BY DEF ns
  <2> QED BY <1>6, <2>1, OwnStepKeeps
<1>8. \A n \in Name : Backed(n)'
  <2> SUFFICES ASSUME NEW n \in Name PROVE Backed(n)'
    OBVIOUS
  <2>1. CASE n = task[w].old
    BY <1>1, <1>2, <2>1 DEF Backed
  <2>2. CASE n # task[w].old
    <3>1. Swapping(n) => Swapping(n)'
      BY <1>1 DEF Swapping
    <3>2. n \in DOMAIN clients => SameUrl(clients[n])
      BY <1>0, <1>4 DEF TypeOK
    <3>3. \A r \in DOMAIN rows : rows[r].name = n => SameRow(r)
      BY <1>2, <1>3, <2>2
    <3> QED BY <1>0, <1>4, <3>1, <3>2, <3>3, BackedKept DEF Serial
  <2> QED BY <2>1, <2>2
<1>9. RowKept(w)' /\ Progress(w)'
  BY <1>1 DEF RowKept, Progress, Idle
<1>10. \A c \in Client : Owned(c)'
  BY <1>0, <1>1, <1>2 DEF Serial, Owned, TypeOK
<1> QED BY <1>7, <1>8, <1>9, <1>10 DEF Serial

\* The client that is swapped out is in the hands of its worker.
LEMMA SerialSwapOut ==
    ASSUME Undisturbed, NEW w \in Worker, SwapOut(w) PROVE Serial'
<1>0. TypeOK /\ Serial /\ task[w] \in TaskRecord /\ RowKept(w) /\ Progress(w)
  BY DEF Undisturbed, Quiet, IInv, TypeOK, Serial
<1> DEFINE ns == {n \in Name : WorkerOn(w, n)}
           n == task[w].old
<1>1. /\ task[w].pc = "swap" /\ UNCHANGED <<rows, client, health, stop>>
      /\ \A v \in Worker \ {w} : task'[v] = task[v]
      /\ clients' = Without(clients, n)
  BY <1>0 DEF SwapOut, TypeOK, PopServer
<1>2. /\ task'[w].op = task[w].op /\ task'[w].row = task[w].row
      /\ task'[w].old = n /\ task'[w].name = task[w].name
      /\ task'[w].url = task[w].url
      /\ task'[w].cl = IF n \in DOMAIN clients THEN clients[n] ELSE NoClient
      /\ task'[w].pc = IF n \in DOMAIN clients THEN "close" ELSE "new"
  BY <1>0 DEF SwapOut, TypeOK, TaskRecord
<1>3. (\A r \in DOMAIN rows : SameRow(r)) /\ \A c \in Client : SameUrl(c)
  BY <1>1 DEF SameRow, SameUrl
<1>4. n \notin DOMAIN clients' /\ \A m : m # n => SameEntry(m)
  BY <1>1 DEF SameEntry, Without, Restrict
<1>5. \A m \in Name : WorkerOn(w, m)' => WorkerOn(w, m)
  BY <1>1, <1>2 DEF WorkerOn
<1>6. OwnStep(w, ns)
  <2>1. \A m \in (Name \cup {NoName}) \ ns : SameEntry(m)
    <3>1. NoName \notin DOMAIN clients /\ NoName \notin DOMAIN clients'
      BY <1>0, <1>1 DEF TypeOK, Without, Restrict
    <3> QED BY <1>1, <1>4, <3>1 DEF WorkerOn, SameEntry
  <2>2. \A m \in ns : ~HealthOn(m) /\ \A v \in Worker \ {w} : ~WorkerOn(v, m)
    BY NamesOwned
  <2> QED BY <1>1, <1>3, <1>5, <2>1, <2>2 DEF OwnStep
<1>7. Exclusive' /\ Repairs' /\ \A v \in Worker \ {w} : RowKept(v)' /\ Progress(v)'
  <2> HIDE DEF ns
  <2>1. ns \in SUBSET Name
    BY DEF ns
  <2> QED BY <1>6, <2>1, OwnStepKeeps
<1>8. \A m \in Name : Backed(m)'
  <2> SUFFICES ASSUME NEW m \in Name PROVE Backed(m)'
    OBVIOUS
  <2>1. CASE m = n
    BY <1>4, <2>1 DEF Backed
  <2>2. CASE m # n
    <3>1. Swapping(m) => Swapping(m)'
      BY <1>1, <2>2 DEF Swapping
    <3>2. m \in DOMAIN clients => SameUrl(clients[m])
      BY <1>0, <1>3 DEF TypeOK
    <3> QED BY <1>0, <1>3, <1>4, <2>2, <3>1, <3>2, BackedKept DEF Serial
  <2> QED BY <2>1, <2>2
<1>9. RowKept(w)' /\ Progress(w)'
  <2>1. task[w].op # "delete"
    BY <1>0, <1>1 DEF Progress
  <2>2. RowKept(w)'
    BY <1>0, <1>1, <1>2, <2>1 DEF RowKept
  <2>3. task[w].name \notin DOMAIN clients'
    <3>1. CASE task[w].name = n
      BY <1>4, <3>1
    <3>2. CASE task[w].name # n
      BY <1>0, <1>1, <1>4, <3>2 DEF Progress, SameEntry
    <3> QED BY <3>1, <3>2
  <2>4. Progress(w)'
    BY <1>0, <1>2, <1>4, <2>1, <2>3 DEF Progress
  <2> QED BY <2>2, <2>4
<1>10. \A c \in Client : Owned(c)'
  <2> SUFFICES ASSUME NEW c \in Client, client[c].session \in {"open", "mute"} PROVE Owned(c)'
    BY <1>1 DEF Owned
  <2>1. CASE \E m \in DOMAIN clients : clients[m] = c
    BY <1>1, <1>2, <2>1 DEF Owned, Without, Restrict
  <2>2. CASE \E v \in Worker : task[v].cl = c
    <3>1. task[w].cl = NoClient
      BY <1>0, <1>1 DEF Progress
    <3> QED BY <1>1, <2>2, <3>1 DEF Owned
  <2>3. CASE stop.cl = c
    BY <1>1, <2>3 DEF Owned
  <2> QED BY <1>0, <2>1, <2>2, <2>3 DEF Serial, Owned
<1> QED BY <1>7, <1>8, <1>9, <1>10 DEF Serial

\* A new client is published under a free name, and stands for its row.
LEMMA SerialConnected ==
    ASSUME Undisturbed, NEW w \in Worker, Connected(w) PROVE Serial'
<1>0. TypeOK /\ Serial /\ task[w] \in TaskRecord /\ RowKept(w) /\ Progress(w)
  BY DEF Undisturbed, Quiet, IInv, TypeOK, Serial
<1> DEFINE ns == {m \in Name : WorkerOn(w, m)}
           n == task[w].name
           c == task[w].cl
<1>1. /\ task[w].pc = "connect" /\ UNCHANGED <<rows, health, stop>>
      /\ \A v \in Worker \ {w} : task'[v] = task[v]
      /\ clients' = With(clients, n, c) /\ SetSession(c, "open")
  BY <1>0 DEF Connected, TypeOK
<1>2. /\ task'[w].op = task[w].op /\ task'[w].row = task[w].row
      /\ task'[w].old = task[w].old /\ task'[w].name = n
      /\ task'[w].url = task[w].url /\ task'[w].cl = c /\ task'[w].pc = "list"
  BY <1>0 DEF Connected, TypeOK, TaskRecord
<1>3. n \in Name /\ n \notin DOMAIN clients /\ c \in Client /\ client[c].url = task[w].url
  BY <1>0, <1>1 DEF Progress, Undisturbed, Quiet, IInv, Named, Targets
<1>4. \A r \in DOMAIN rows : SameRow(r)
  BY <1>1 DEF SameRow
<1>5. \A d \in Client : /\ SameUrl(d)
                        /\ d # c => client'[d] = client[d]
  BY <1>0, <1>1 DEF SetSession, TypeOK, ClientRecord, SameUrl
<1>6. /\ n \in DOMAIN clients' /\ clients'[n] = c
      /\ \A m : m # n => SameEntry(m)
  BY <1>1 DEF SameEntry, With
<1>7. \A m \in Name : WorkerOn(w, m)' => WorkerOn(w, m)
  BY <1>1, <1>2 DEF WorkerOn
<1>8. OwnStep(w, ns)
  <2>1. \A m \in (Name \cup {NoName}) \ ns : SameEntry(m)
    BY <1>1, <1>3, <1>6 DEF WorkerOn
  <2>2. \A m \in ns : ~HealthOn(m) /\ \A v \in Worker \ {w} : ~WorkerOn(v, m)
    BY NamesOwned
  <2> QED BY <1>1, <1>4, <1>5, <1>7, <2>1, <2>2 DEF OwnStep
<1>9. Exclusive' /\ Repairs' /\ \A v \in Worker \ {w} : RowKept(v)' /\ Progress(v)'
  <2> HIDE DEF ns
  <2>1. ns \in SUBSET Name
    BY DEF ns
  <2> QED BY <1>8, <2>1, OwnStepKeeps
<1>10. task[w].op # "delete"
  BY <1>0, <1>1 DEF Progress
<1>11. \A m \in Name : Backed(m)'
  <2> SUFFICES ASSUME NEW m \in Name PROVE Backed(m)'
    OBVIOUS
  <2>1. CASE m = n
    <3>1. /\ task[w].row \in DOMAIN rows' /\ rows'[task[w].row].name = n
          /\ rows'[task[w].row].url = client'[c].url
      BY <1>0, <1>1, <1>3, <1>4, <1>5, <1>10 DEF RowKept, SameRow, SameUrl
    <3> QED BY <1>6, <2>1, <3>1 DEF Backed
  <2>2. CASE m # n
    <3>1. Swapping(m) => Swapping(m)'
      BY <1>1 DEF Swapping
    <3>2. m \in DOMAIN clients => SameUrl(clients[m])
      BY <1>0, <1>5 DEF TypeOK
    <3> QED BY <1>0, <1>4, <1>6, <2>2, <3>1, <3>2, BackedKept DEF Serial
  <2> QED BY <2>1, <2>2
<1>12. RowKept(w)' /\ Progress(w)'
  BY <1>0, <1>1, <1>2, <1>3, <1>5, <1>6, <1>10 DEF RowKept, Progress, SameUrl
<1>13. \A d \in Client : Owned(d)'
  <2> SUFFICES ASSUME NEW d \in Client, d # c, client[d].session \in {"open", "mute"} PROVE Owned(d)'
    BY <1>5, <1>6 DEF Owned
  <2>1. CASE \E m \in DOMAIN clients : clients[m] = d
    BY <1>3, <1>6, <2>1 DEF Owned, SameEntry
  <2>2. CASE \E v \in Worker : task[v].cl = d
    BY <1>1, <2>2 DEF Owned
  <2>3. CASE stop.cl = d
    BY <1>1, <2>3 DEF Owned
  <2> QED BY <1>0, <2>1, <2>2, <2>3 DEF Serial, Owned
<1> QED BY <1>9, <1>11, <1>12, <1>13 DEF Serial

\* No row has the name that a client would stand for: the name is free.
LEMMA FreeName ==
    ASSUME Undisturbed, NEW n \in Name \ foreign, ~Swapping(n),
           \A r \in DOMAIN rows : rows[r].name # n
    PROVE  n \notin DOMAIN clients
  BY DEF Undisturbed, Quiet, Serial, Backed

\* PATCH: the new name is free, and the old client is about to go.
LEMMA SerialCommitUpdate ==
    ASSUME Undisturbed, NEW w \in Worker, NEW n \in Name, NEW u \in Url,
           CommitUpdate(w, n, u)
    PROVE  Serial'
<1>0. TypeOK /\ Serial /\ task[w] \in TaskRecord /\ RowKept(w) /\ Progress(w)
  BY DEF Undisturbed, Quiet, IInv, TypeOK, Serial
<1> DEFINE o == task[w].old
           r == task[w].row
           ns == {o, n}
<1>1. /\ task[w].pc = "fetched" /\ UNCHANGED <<clients, client, health, stop>>
      /\ \A v \in Worker \ {w} : task'[v] = task[v]
      /\ NoteClash(w, r, ns)
      /\ r \in DOMAIN rows /\ rows[r].name = o
  <2>1. o \notin foreign
    BY DEF CommitUpdate, NoteClash, Undisturbed, Quiet
  <2> QED BY <1>0, <2>1 DEF CommitUpdate, TypeOK, RowKept
<1>2. /\ task'[w].op = task[w].op /\ task'[w].row = r
      /\ task'[w].old = o /\ task'[w].name = n
      /\ task'[w].url = u /\ task'[w].cl = task[w].cl /\ task'[w].pc = "swap"
  BY <1>0 DEF CommitUpdate, TypeOK, TaskRecord
<1>3. /\ DOMAIN rows' = DOMAIN rows
      /\ rows'[r].name = n /\ rows'[r].url = u
      /\ \A q \in DOMAIN rows \ {r} : rows'[q] = rows[q]
  BY <1>1 DEF CommitUpdate
<1>4. /\ \A m \in ns : ~HealthOn(m) /\ \A v \in Worker \ {w} : ~WorkerOn(v, m)
      /\ \A q \in DOMAIN rows \ {r} : rows[q].name \notin ns
  <2> HIDE DEF ns
  <2> QED BY <1>1, Unshared DEF Undisturbed, Quiet
<1>5. (\A m : SameEntry(m)) /\ \A c \in Client : SameUrl(c)
  BY <1>1 DEF SameEntry, SameUrl
<1>6. o \in Name
  BY <1>0, <1>1 DEF TypeOK, RowRecord
<1>7. OwnStep(w, ns)
  <2>1. \A m \in Name : WorkerOn(w, m) \/ WorkerOn(w, m)' => m \in ns
    <3>1. task[w].name \notin Name
      BY <1>0, <1>1 DEF Progress
    <3> QED BY <1>2, <3>1 DEF WorkerOn
  <2>2. \A q \in DOMAIN rows : rows[q].name \notin ns => SameRow(q)
    BY <1>1, <1>3 DEF SameRow
  <2> QED BY <1>1, <1>4, <1>5, <2>1, <2>2 DEF OwnStep
<1>8. Exclusive' /\ Repairs' /\ \A v \in Worker \ {w} : RowKept(v)' /\ Progress(v)'
  <2>1. ns \in SUBSET Name
    BY <1>6
  <2> HIDE DEF ns
  <2> QED BY <1>7, <2>1, OwnStepKeeps
<1>9. task[w].op # "delete"
  BY <1>0, <1>1 DEF Progress
<1>10. n # o => n \notin DOMAIN clients
  <2> SUFFICES ASSUME n # o PROVE n \notin DOMAIN clients
    OBVIOUS
  <2>1. \A q \in DOMAIN rows : rows[q].name # n
    BY <1>1, <1>4
  <2>2. ~Swapping(n)
    BY <1>1, <1>4 DEF Swapping, WorkerOn
  <2>3. n \notin foreign
    BY <1>1 DEF NoteClash, Undisturbed, Quiet
  <2> QED BY <2>1, <2>2, <2>3, FreeName
<1>11. \A m \in Name : Backed(m)'
  <2> SUFFICES ASSUME NEW m \in Name PROVE Backed(m)'
    OBVIOUS
  <2>1. CASE m = o
    BY <1>2, <2>1 DEF Backed, Swapping
  <2>2. CASE m # o
    <3>1. Swapping(m) => Swapping(m)'
      BY <1>1 DEF Swapping
    <3>2. m \in DOMAIN clients => SameUrl(clients[m])
      BY <1>0, <1>5 DEF TypeOK
    <3>3. \A q \in DOMAIN rows : rows[q].name = m => SameRow(q)
      BY <1>1, <1>3, <2>2 DEF SameRow
    <3> QED BY <1>0, <1>5, <3>1, <3>2, <3>3, BackedKept DEF Serial
  <2> QED BY <2>1, <2>2
<1>12. RowKept(w)' /\ Progress(w)'
  <2>1. task'[w].cl = NoClient
    BY <1>0, <1>1, <1>2 DEF Progress
  <2> QED BY <1>1, <1>2, <1>3, <1>9, <1>10, <2>1 DEF RowKept, Progress
<1>13. \A c \in Client : Owned(c)'
  <2>1. \A v \in Worker : task'[v].cl = task[v].cl
    BY <1>1, <1>2
  <2> QED BY <1>0, <1>1, <2>1 DEF Serial, Owned
<1> QED BY <1>8, <1>11, <1>12, <1>13 DEF Serial

\* POST: a new row has a free name.
LEMMA SerialRegister ==
    ASSUME Undisturbed, NEW t \in Task, NEW r \in Row, NEW n \in Name, NEW u \in Url,
           RegisterServer(t, r, n, u)
    PROVE  Serial'
<1>0. TypeOK /\ Serial /\ t \in Worker /\ task[t] \in TaskRecord /\ Progress(t)
  BY DEF Undisturbed, Quiet, IInv, TypeOK, Serial, Worker
<1> DEFINE ns == {n}
<1>1. /\ task[t].pc = "idle" /\ UNCHANGED <<clients, client, health, stop>>
      /\ \A v \in Worker \ {t} : task'[v] = task[v]
      /\ r \notin DOMAIN rows /\ NoteClash(t, r, ns)
  BY <1>0 DEF RegisterServer, TypeOK
<1>2. /\ task'[t].op = "connect" /\ task'[t].row = r
      /\ task'[t].old = NoName /\ task'[t].name = n
      /\ task'[t].url = u /\ task'[t].cl = NoClient /\ task'[t].pc = "new"
  BY <1>0 DEF RegisterServer, TypeOK, Idle
<1>3. /\ DOMAIN rows' = DOMAIN rows \cup {r}
      /\ rows'[r].name = n /\ rows'[r].url = u
      /\ \A q \in DOMAIN rows : rows'[q] = rows[q]
  BY <1>1 DEF RegisterServer, With
<1>4. /\ \A m \in ns : ~HealthOn(m) /\ \A v \in Worker \ {t} : ~WorkerOn(v, m)
      /\ \A q \in DOMAIN rows \ {r} : rows[q].name \notin ns
  <2> HIDE DEF ns
  <2> QED BY <1>1, Unshared DEF Undisturbed, Quiet
<1>5. (\A m : SameEntry(m)) /\ \A c \in Client : SameUrl(c)
  BY <1>1 DEF SameEntry, SameUrl
<1>6. \A q \in DOMAIN rows : SameRow(q)
  BY <1>3 DEF SameRow
<1>7. OwnStep(t, ns)
  BY <1>1, <1>2, <1>4, <1>5, <1>6 DEF OwnStep, WorkerOn
<1>8. Exclusive' /\ Repairs' /\ \A v \in Worker \ {t} : RowKept(v)' /\ Progress(v)'
  <2>1. ns \in SUBSET Name
    OBVIOUS
  <2> HIDE DEF ns
  <2> QED BY <1>0, <1>7, <2>1, OwnStepKeeps
<1>9. n \notin DOMAIN clients
  <2>1. ~Swapping(n)
    BY <1>1, <1>4 DEF Swapping, WorkerOn
  <2>2. n \notin foreign
    BY <1>1 DEF NoteClash, Undisturbed, Quiet
  <2> QED BY <1>1, <1>4, <2>1, <2>2, FreeName
<1>10. \A m \in Name : Backed(m)'
  <2> SUFFICES ASSUME NEW m \in Name PROVE Backed(m)'
    OBVIOUS
  <2>1. Swapping(m) => Swapping(m)'
    BY <1>1 DEF Swapping
  <2>2. m \in DOMAIN clients => SameUrl(clients[m])
    BY <1>0, <1>5 DEF TypeOK
  <2> QED BY <1>0, <1>5, <1>6, <2>1, <2>2, BackedKept DEF Serial
<1>11. RowKept(t)' /\ Progress(t)'
  BY <1>1, <1>2, <1>3, <1>9 DEF RowKept, Progress
<1>12. \A c \in Client : Owned(c)'
  BY <1>0, <1>1 DEF Serial, Owned, Progress
<1> QED BY <1>8, <1>10, <1>11, <1>12 DEF Serial

\* PATCH takes the row and its name for itself.
LEMMA SerialFetch ==
    ASSUME Undisturbed, NEW t \in Task, NEW r \in Row, FetchForUpdate(t, r)
    PROVE  Serial'
<1>0. TypeOK /\ Serial /\ t \in Worker /\ task[t] \in TaskRecord /\ Progress(t)
  BY DEF Undisturbed, Quiet, IInv, TypeOK, Serial, Worker
<1> DEFINE n == rows[r].name
           ns == {n}
<1>1. /\ task[t].pc = "idle" /\ UNCHANGED <<rows, clients, client, health, stop>>
      /\ \A v \in Worker \ {t} : task'[v] = task[v]
      /\ r \in DOMAIN rows /\ NoteClash(t, r, ns)
  BY <1>0 DEF FetchForUpdate, TypeOK
<1>2. /\ task'[t].op = "update" /\ task'[t].row = r
      /\ task'[t].old = n /\ task'[t].name = NoName
      /\ task'[t].cl = NoClient /\ task'[t].pc = "fetched"
  BY <1>0 DEF FetchForUpdate, TypeOK, Idle
<1>3. \A m \in ns : ~HealthOn(m) /\ \A v \in Worker \ {t} : ~WorkerOn(v, m)
  <2> HIDE DEF ns
  <2> QED BY <1>1, Unshared DEF Undisturbed, Quiet
<1>4. /\ \A m : SameEntry(m)
      /\ \A c \in Client : SameUrl(c)
      /\ \A q \in DOMAIN rows : SameRow(q)
  BY <1>1 DEF SameEntry, SameUrl, SameRow
<1>5. OwnStep(t, ns)
  BY <1>1, <1>2, <1>3, <1>4 DEF OwnStep, WorkerOn
<1>6. Exclusive' /\ Repairs' /\ \A v \in Worker \ {t} : RowKept(v)' /\ Progress(v)'
  <2>1. ns \in SUBSET Name
    BY <1>0, <1>1 DEF TypeOK, RowRecord
  <2> HIDE DEF ns
  <2> QED BY <1>0, <1>5, <2>1, OwnStepKeeps
<1>7. \A m \in Name : Backed(m)'
  <2> SUFFICES ASSUME NEW m \in Name PROVE Backed(m)'
    OBVIOUS
  <2>1. Swapping(m) => Swapping(m)'
    BY <1>1 DEF Swapping
  <2>2. m \in DOMAIN clients => SameUrl(clients[m])
    BY <1>0, <1>4 DEF TypeOK
  <2> QED BY <1>0, <1>4, <2>1, <2>2, BackedKept DEF Serial
<1>8. RowKept(t)' /\ Progress(t)'
  BY <1>1, <1>2 DEF RowKept, Progress
<1>9. \A c \in Client : Owned(c)'
  BY <1>0, <1>1 DEF Serial, Owned, Progress
<1> QED BY <1>6, <1>7, <1>8, <1>9 DEF Serial

\* DELETE: the client is in the hands of the request.
LEMMA SerialDelete ==
    ASSUME Undisturbed, NEW t \in Task, NEW r \in Row, DeleteServer(t, r)
    PROVE  Serial'
<1>0. TypeOK /\ Serial /\ t \in Worker /\ task[t] \in TaskRecord /\ Progress(t)
  BY DEF Undisturbed, Quiet, IInv, TypeOK, Serial, Worker
<1> DEFINE n == rows[r].name
           ns == {n}
<1>1. /\ task[t].pc = "idle" /\ UNCHANGED <<rows, client, health, stop>>
      /\ \A v \in Worker \ {t} : task'[v] = task[v]
      /\ r \in DOMAIN rows /\ NoteClash(t, r, ns)
      /\ clients' = Without(clients, n)
  BY <1>0 DEF DeleteServer, PopServer, TypeOK
<1>2. /\ task'[t].op = "delete" /\ task'[t].row = r
      /\ task'[t].old = n /\ task'[t].name = NoName
      /\ task'[t].cl = IF n \in DOMAIN clients THEN clients[n] ELSE NoClient
      /\ task'[t].pc = IF n \in DOMAIN clients THEN "close" ELSE "erase"
  BY <1>0 DEF DeleteServer, TypeOK, Idle
<1>3. \A m \in ns : ~HealthOn(m) /\ \A v \in Worker \ {t} : ~WorkerOn(v, m)
  <2> HIDE DEF ns
  <2> QED BY <1>1, Unshared DEF Undisturbed, Quiet
<1>4. /\ n \notin DOMAIN clients'
      /\ \A m : m # n => SameEntry(m)
      /\ \A c \in Client : SameUrl(c)
      /\ \A q \in DOMAIN rows : SameRow(q)
  BY <1>1 DEF SameEntry, SameUrl, SameRow, Without, Restrict
<1>5. OwnStep(t, ns)
  BY <1>1, <1>2, <1>3, <1>4 DEF OwnStep, WorkerOn
<1>6. Exclusive' /\ Repairs' /\ \A v \in Worker \ {t} : RowKept(v)' /\ Progress(v)'
  <2>1. ns \in SUBSET Name
    BY <1>0, <1>1 DEF TypeOK, RowRecord
  <2> HIDE DEF ns
  <2> QED BY <1>0, <1>5, <2>1, OwnStepKeeps
<1>7. \A m \in Name : Backed(m)'
  <2> SUFFICES ASSUME NEW m \in Name PROVE Backed(m)'
    OBVIOUS
  <2>1. CASE m = n
    BY <1>4, <2>1 DEF Backed
  <2>2. CASE m # n
    <3>1. Swapping(m) => Swapping(m)'
      BY <1>1 DEF Swapping
    <3>2. m \in DOMAIN clients => SameUrl(clients[m])
      BY <1>0, <1>4 DEF TypeOK
    <3> QED BY <1>0, <1>4, <2>2, <3>1, <3>2, BackedKept DEF Serial
  <2> QED BY <2>1, <2>2
<1>8. RowKept(t)' /\ Progress(t)'
  BY <1>1, <1>2, <1>4 DEF RowKept, Progress
<1>9. \A c \in Client : Owned(c)'
  <2> SUFFICES ASSUME NEW c \in Client, client[c].session \in {"open", "mute"} PROVE Owned(c)'
    BY <1>1 DEF Owned
  <2>1. CASE \E m \in DOMAIN clients : clients[m] = c
    BY <1>0, <1>1, <1>2, <2>1 DEF Owned, Without, Restrict
  <2>2. CASE \E v \in Worker : task[v].cl = c
    <3>1. task[t].cl = NoClient
      BY <1>0, <1>1 DEF Progress
    <3> QED BY <1>1, <2>2, <3>1 DEF Owned
  <2>3. CASE stop.cl = c
    BY <1>1, <2>3 DEF Owned
  <2> QED BY <1>0, <2>1, <2>2, <2>3 DEF Serial, Owned
<1> QED BY <1>6, <1>7, <1>8, <1>9 DEF Serial

\* connect_all() starts one coroutine for each row, each with its own name.
LEMMA SerialBoot == Quiet /\ Boot => Serial'
<1> SUFFICES ASSUME Quiet, Boot PROVE Serial'
  OBVIOUS
<1>0. TypeOK /\ Serial /\ Phases
  BY DEF Quiet, IInv
<1>1. /\ clients = NoTools /\ clients' = clients
      /\ UNCHANGED <<rows, client, health, stop>>
      /\ \A w \in Worker : task[w] = Idle
      /\ health = Resting("off", {})
  BY <1>0 DEF Boot, Phases
<1>2. \A q, r \in DOMAIN rows : q # r => rows[q].name # rows[r].name
  BY DEF Boot, Quiet
<1>3. DOMAIN clients = {}
  BY <1>1 DEF NoTools
<1>4. ASSUME NEW w \in Worker
      PROVE  \/ w \notin DOMAIN rows /\ task'[w] = Idle
             \/ /\ w \in DOMAIN rows
                /\ task'[w].op = "connect" /\ task'[w].pc = "new" /\ task'[w].row = w
                /\ task'[w].old = NoName /\ task'[w].name = rows[w].name
                /\ task'[w].url = rows[w].url /\ task'[w].cl = NoClient
  BY DEF Boot, Idle
<1>5. Exclusive'
  <2>1. \A n \in Name : ~HealthOn(n)'
    BY <1>1 DEF HealthOn, Resting
  <2>2. \A v \in Worker, n \in Name : WorkerOn(v, n)' => v \in DOMAIN rows /\ rows[v].name = n
    BY <1>4 DEF WorkerOn, Idle
  <2> QED BY <1>2, <2>1, <2>2 DEF Exclusive
<1>6. \A w \in Worker : RowKept(w)' /\ Progress(w)'
  <2> SUFFICES ASSUME NEW w \in Worker PROVE RowKept(w)' /\ Progress(w)'
    OBVIOUS
  <2>1. CASE task'[w] = Idle
    BY <2>1 DEF RowKept, Progress, Idle
  <2>2. CASE task'[w] # Idle
    BY <1>1, <1>3, <1>4, <2>2 DEF RowKept, Progress
  <2> QED BY <2>1, <2>2
<1>7. Repairs' /\ \A n \in Name : Backed(n)'
  BY <1>1, <1>3 DEF Repairs, Resting, Backed
<1>8. \A c \in Client : Owned(c)'
  <2>1. \A w \in Worker : task[w].cl = NoClient
    BY <1>1 DEF Idle
  <2> QED BY <1>0, <1>1, <2>1 DEF Serial, Owned
<1> QED BY <1>5, <1>6, <1>7, <1>8 DEF Serial

\* The end of startup and the start of shutdown leave everything in place.
LEMMA SerialTurns == Undisturbed /\ (Ready \/ Shutdown) => Serial'
<1> SUFFICES ASSUME Undisturbed, Ready \/ Shutdown PROVE Serial'
  OBVIOUS
<1>0. TypeOK /\ Serial /\ Phases
  BY DEF Undisturbed, Quiet, IInv
<1>1. /\ UNCHANGED <<rows, clients, client, task>>
      /\ health'.pc \in {"off", "sleep"}
  BY DEF Ready, Shutdown, Resting
<1>2. stop.cl = NoClient /\ stop'.cl = NoClient
  BY <1>0 DEF Ready, Shutdown, Phases, NotStopping
<1>3. /\ \A n \in Name : SameEntry(n)
      /\ \A c \in Client : SameUrl(c)
      /\ \A r \in DOMAIN rows : SameRow(r)
  BY <1>1 DEF SameEntry, SameUrl, SameRow
<1>4. (\A w \in Worker : RowKept(w)' /\ Progress(w)') /\ (\A n \in Name : Backed(n)')
  BY <1>1, <1>3, TableStands
<1>5. Exclusive'
  <2>1. \A n \in Name : ~HealthOn(n)'
    BY <1>1 DEF HealthOn
  <2>2. \A v \in Worker, n \in Name : WorkerOn(v, n)' => WorkerOn(v, n)
    BY <1>1 DEF WorkerOn
  <2> QED BY <1>0, <2>1, <2>2, ExclusiveKept DEF Serial
<1>6. Repairs'
  BY <1>1 DEF Repairs
<1>7. \A c \in Client : Owned(c)'
  BY <1>0, <1>1, <1>2 DEF Serial, Owned
<1> QED BY <1>4, <1>5, <1>6, <1>7 DEF Serial

\* disconnect_all() holds the client it takes out.
LEMMA SerialStopServer ==
    ASSUME Undisturbed, NEW n \in Name, StopServer(n) PROVE Serial'
<1>0. TypeOK /\ TypeOK' /\ Serial /\ Phases
  BY DEF Undisturbed, Quiet, IInv
<1>1. /\ stop.cl = NoClient /\ UNCHANGED <<rows, client, task, health, phase>>
      /\ clients' = Without(clients, n)
      /\ stop'.cl = IF n \in DOMAIN clients THEN clients[n] ELSE NoClient
      /\ \A w \in Worker : ~WorkerOn(w, n)
  BY DEF StopServer, PopServer, Undisturbed, Quiet
<1>2. health = Resting("off", {})
  BY <1>0 DEF StopServer, Phases, NotStopping
<1>3. /\ n \notin DOMAIN clients'
      /\ \A m : m # n => SameEntry(m)
      /\ \A c \in Client : SameUrl(c)
      /\ \A r \in DOMAIN rows : SameRow(r)
  BY <1>1 DEF SameEntry, SameUrl, SameRow, Without, Restrict
<1>4. \A w \in Worker : RowKept(w)' /\ Progress(w)'
  <2> DEFINE ns == {n}
  <2>1. \A v \in Worker : task'[v] = task[v] /\ \A m \in ns : ~WorkerOn(v, m)
    BY <1>1
  <2>2. \A m \in (Name \cup {NoName}) \ ns : SameEntry(m)
    BY <1>3
  <2>3. ns \in SUBSET Name
    OBVIOUS
  <2> HIDE DEF ns
  <2>4. \A v \in Worker : task[v].cl \in Client => SameUrl(task[v].cl)
    BY <1>3
  <2>5. \A r \in DOMAIN rows : rows[r].name \notin ns => SameRow(r)
    BY <1>3
  <2> QED BY <2>1, <2>2, <2>3, <2>4, <2>5, WorkersKept
<1>5. \A m \in Name : Backed(m)'
  <2> SUFFICES ASSUME NEW m \in Name PROVE Backed(m)'
    OBVIOUS
  <2>1. CASE m = n
    BY <1>3, <2>1 DEF Backed
  <2>2. CASE m # n
    <3>1. Swapping(m) => Swapping(m)'
      BY <1>1 DEF Swapping
    <3>2. m \in DOMAIN clients => SameUrl(clients[m])
      BY <1>0, <1>3 DEF TypeOK
    <3> QED BY <1>0, <1>3, <2>2, <3>1, <3>2, BackedKept DEF Serial
  <2> QED BY <2>1, <2>2
<1>6. Exclusive' /\ Repairs'
  BY <1>0, <1>1, <1>2 DEF Serial, Exclusive, Repairs, WorkerOn, HealthOn, Resting
<1>7. \A c \in Client : Owned(c)'
  <2> SUFFICES ASSUME NEW c \in Client, client[c].session \in {"open", "mute"} PROVE Owned(c)'
    BY <1>1 DEF Owned
  <2>1. CASE \E m \in DOMAIN clients : clients[m] = c
    BY <1>1, <2>1 DEF Owned, Without, Restrict
  <2>2. CASE \E v \in Worker : task[v].cl = c
    BY <1>1, <2>2 DEF Owned
  <2> QED BY <1>0, <1>1, <2>1, <2>2 DEF Serial, Owned
<1> QED BY <1>4, <1>5, <1>6, <1>7 DEF Serial

LEMMA SerialStopClosed == Undisturbed /\ StopClosed => Serial'
<1> SUFFICES ASSUME Undisturbed, StopClosed PROVE Serial'
  OBVIOUS
<1>0. TypeOK /\ Serial
  BY DEF Undisturbed, Quiet, IInv
<1>1. UNCHANGED <<rows, clients, task, health>>
  BY DEF StopClosed
<1>2. \A c \in Client : /\ SameUrl(c)
                        /\ client'[c].session \in {"open", "mute"} =>
                             client[c].session \in {"open", "mute"} /\ c # stop.cl
  BY <1>0 DEF StopClosed, SetSession, TypeOK, ClientRecord, SameUrl
<1>3. \A r \in DOMAIN rows : SameRow(r)
  BY <1>1 DEF SameRow
<1>4. (\A w \in Worker : RowKept(w)' /\ Progress(w)') /\ (\A n \in Name : Backed(n)')
  BY <1>1, <1>2, <1>3, TableStands
<1>5. Exclusive' /\ Repairs'
  BY <1>0, <1>1 DEF Serial, Exclusive, Repairs, WorkerOn, HealthOn
<1>6. \A c \in Client : Owned(c)'
  BY <1>0, <1>1, <1>2 DEF Serial, Owned
<1> QED BY <1>4, <1>5, <1>6 DEF Serial

\* A new process has nothing to go wrong yet.
LEMMA SerialReset ==
    ASSUME clients = NoTools, \A w \in Worker : task[w] = Idle,
           health = Resting("off", {}),
           \A c \in Client : client[c].session = "none"
    PROVE  Serial
<1>1. Exclusive
  BY DEF Exclusive, WorkerOn, HealthOn, Idle, Resting
<1>2. \A w \in Worker : RowKept(w) /\ Progress(w)
  BY DEF RowKept, Progress, Idle
<1>3. Repairs /\ (\A n \in Name : Backed(n)) /\ \A c \in Client : Owned(c)
  BY DEF Repairs, Backed, Owned, Resting, NoTools
<1> QED BY <1>1, <1>2, <1>3 DEF Serial

LEMMA SerialEnds == ProcessEnds => Serial'
<1> SUFFICES ASSUME ProcessEnds PROVE Serial'
  OBVIOUS
<1>1. /\ clients' = NoTools /\ health' = Resting("off", {})
      /\ \A w \in Worker : task'[w] = Idle
      /\ \A c \in Client : client'[c].session = "none"
  BY DEF ProcessEnds
<1>2. Exclusive'
  BY <1>1 DEF Exclusive, WorkerOn, HealthOn, Idle, Resting
<1>3. \A w \in Worker : RowKept(w)' /\ Progress(w)'
  BY <1>1 DEF RowKept, Progress, Idle
<1>4. Repairs' /\ (\A n \in Name : Backed(n)') /\ \A c \in Client : Owned(c)'
  BY <1>1 DEF Repairs, Backed, Owned, Resting, NoTools
<1> QED BY <1>2, <1>3, <1>4 DEF Serial

-----------------------------------------------------------------------------

\* A process that is down has nothing, and the health task and
\* disconnect_all() run in the phases of their own.
LEMMA StepPhases == IInv /\ Phases /\ [Next]_vars => Phases'
<1> SUFFICES ASSUME IInv, Phases, [Next]_vars PROVE Phases'
  OBVIOUS
<1> USE DEF Phases
<1>0. TypeOK
  BY DEF IInv
<1>1. ASSUME NEW t \in Task, Request(t)
      PROVE  Phases'
  BY <1>1 DEF Request, RegisterServer, FetchForUpdate, DeleteServer
<1>2. ASSUME NEW w \in Worker, Work(w)
      PROVE  Phases'
  <2>1. task[w].pc # "idle"
    BY <1>2 DEF Work, CommitUpdate, UpdateLost, SwapOut, Closed, EraseRow, NewClient, Connected,
                ConnectFailed, Listed, ListFailed, MarkConnected
  <2>2. phase # "down"
    BY <2>1 DEF Idle
  <2>3. UNCHANGED <<health, stop, phase>>
    BY <1>2 DEF Work, CommitUpdate, UpdateLost, SwapOut, Closed, EraseRow, NewClient, Connected,
                ConnectFailed, Listed, ListFailed, MarkConnected
  <2> QED BY <2>2, <2>3
<1>3. CASE Health
  <2>1. health.pc # "off"
    BY <1>3 DEF Health, WakeUp, NextServer, ScanDone, ProbeOk, ProbeFailed, MarkDisconnected,
         Retry, RetryClosed, Reconnected, ReconnectFailed, Relisted, RelistFailed,
         MarkReconnected
  <2>2. UNCHANGED <<stop, phase>>
    BY <1>3 DEF Health, WakeUp, NextServer, ScanDone, ProbeOk, ProbeFailed, MarkDisconnected,
         Retry, RetryClosed, Reconnected, ReconnectFailed, Relisted, RelistFailed,
         MarkReconnected
  <2> QED BY <2>1, <2>2 DEF Resting
<1>4. CASE Boot \/ Ready \/ Shutdown
  BY <1>4 DEF Boot, Ready, Shutdown
<1>5. ASSUME StopClosed \/ \E n \in Name : StopServer(n)
      PROVE  Phases'
  BY <1>5, <1>0 DEF StopServer, StopClosed, NotStopping, TypeOK
<1>6. CASE ProcessEnds
  BY <1>6 DEF ProcessEnds
<1>7. CASE Remote
  BY <1>7 DEF Remote, RemoteUp, RemoteDown, Swallowed
<1>8. CASE UNCHANGED vars
  BY <1>8 DEF vars
<1>9. CASE Elsewhere
  <2>1. UNCHANGED <<clients, task, health, stop, phase>>
    BY <1>9 DEF Elsewhere, WrittenElsewhere, ErasedElsewhere, MarkedElsewhere, NoteForeign
  <2>2. \/ clash' = clash
        \/ \E ns : NoteForeign(ns)
    BY <1>9 DEF Elsewhere, WrittenElsewhere, ErasedElsewhere, MarkedElsewhere
  <2>3. phase = "down" => \A w \in Worker : \A n : ~WorkerOn(w, n)
    BY DEF WorkerOn, Idle
  <2>4. phase = "down" => ~clash'
    BY <2>2, <2>3 DEF NoteForeign
  <2> QED BY <2>1, <2>4
<1> QED BY <1>1, <1>2, <1>3, <1>4, <1>5, <1>6, <1>7, <1>8, <1>9 DEF Next, Lifespan, Exit, Crash

\* Only a new process forgets that operations have overlapped.
LEMMA StepClash ==
    ASSUME IInv, SInv, [Next]_vars, ~ProcessEnds, ~clash'
    PROVE  ~clash
<1>1. CASE Boot
  BY <1>1 DEF Boot, SInv, Phases
<1>2. ASSUME NEW t \in Task, Request(t)
      PROVE  ~clash
  BY <1>2 DEF Request, RegisterServer, FetchForUpdate, DeleteServer, NoteClash
<1>3. ASSUME NEW w \in Worker, Work(w)
      PROVE  ~clash
  BY <1>3 DEF Work, CommitUpdate, UpdateLost, SwapOut, Closed, EraseRow, NewClient,
     Connected, ConnectFailed, Listed, ListFailed, MarkConnected, NoteClash
<1>4. CASE Health
  BY <1>4 DEF Health, WakeUp, NextServer, ScanDone, ProbeOk, ProbeFailed, MarkDisconnected,
     Retry, RetryClosed, Reconnected, ReconnectFailed, Relisted, RelistFailed, MarkReconnected
<1>5. CASE Lifespan \/ Remote \/ UNCHANGED vars
  BY <1>1, <1>5 DEF Lifespan, Ready, Shutdown, StopServer, StopClosed, Exit, Crash, Remote,
     RemoteUp, RemoteDown, Swallowed, vars
<1>6. CASE Elsewhere
  BY <1>6 DEF Elsewhere, WrittenElsewhere, ErasedElsewhere, MarkedElsewhere, NoteForeign
<1> QED BY <1>1, <1>2, <1>3, <1>4, <1>5, <1>6 DEF Next

\* As long as operations have not overlapped, what they have done fits
\* together.
LEMMA StepSerial == IInv /\ IInv' /\ SInv /\ [Next]_vars => SInv'
<1> SUFFICES ASSUME IInv, IInv', SInv, [Next]_vars, ~clash' PROVE Serial'
  BY StepPhases DEF SInv
<1>1. CASE ProcessEnds
  BY <1>1, SerialEnds
<1>2. CASE ~ProcessEnds
  <2>1. ~clash
    BY <1>2, StepClash
  <2>2. Quiet
    BY <2>1 DEF Quiet, SInv
  <2>3. CASE UNCHANGED vars
    BY <2>2, <2>3 DEF Quiet, vars, Serial, Exclusive, WorkerOn, HealthOn, RowKept, Progress,
                Repairs, Backed, Swapping, Owned
  <2>4. ASSUME NEW t \in Task, Request(t)
        PROVE  Serial'
    <3>1. Undisturbed
      BY <2>2, <2>4 DEF Undisturbed, Request, RegisterServer, FetchForUpdate, DeleteServer
    <3> QED BY <2>4, <3>1, SerialRegister, SerialFetch, SerialDelete DEF Request
  <2>5. ASSUME NEW w \in Worker, Work(w)
        PROVE  Serial'
    <3>1. Undisturbed
      BY <2>2, <2>5 DEF Undisturbed, Work, CommitUpdate, UpdateLost, SwapOut, Closed, EraseRow,
         NewClient, Connected, ConnectFailed, Listed, ListFailed, MarkConnected
    <3> QED BY <2>5, <3>1, SerialCommitUpdate, SerialUpdateLost, SerialSwapOut, SerialClosed,
       SerialEraseRow, SerialNewClient, SerialConnected, SerialConnectFailed, SerialListed,
       SerialMarkConnected DEF Work
  <2>6. CASE Health
    <3>1. Undisturbed
      BY <2>2, <2>6 DEF Undisturbed, Health, WakeUp, NextServer, ScanDone, ProbeOk, ProbeFailed,
         MarkDisconnected, Retry, RetryClosed, Reconnected, ReconnectFailed, Relisted,
         RelistFailed, MarkReconnected
    <3> QED BY <2>6, <3>1, SerialHealth
  <2>7. CASE Lifespan /\ ~Boot
    <3>1. Undisturbed
      BY <1>2, <2>2, <2>7 DEF Undisturbed, Lifespan, Ready, Shutdown, StopServer, StopClosed,
         Exit, Crash
    <3> QED BY <1>2, <2>7, <3>1, SerialTurns, SerialStopServer, SerialStopClosed
            DEF Lifespan, Exit, Crash
  <2>8. CASE Remote
    <3>1. Undisturbed
      BY <2>2, <2>8 DEF Undisturbed, Remote, RemoteUp, RemoteDown, Swallowed
    <3> QED BY <2>8, <3>1, SerialRemote
  <2>9. CASE Boot \/ Elsewhere
    BY <2>2, <2>9, SerialBoot, SerialElsewhere
  <2> QED BY <2>3, <2>4, <2>5, <2>6, <2>7, <2>8, <2>9 DEF Next
<1> QED BY <1>1, <1>2

THEOREM SerialInvariant == Spec => []SInv
<1>1. Init => SInv
  BY SerialReset DEF Init, SInv, Phases
<1>2. IInv /\ IInv' /\ SInv /\ [Next]_vars => SInv'
  BY StepSerial
<1> QED BY <1>1, <1>2, InductiveInvariant, PTL DEF Spec

\* As long as operations have not overlapped, no session is leaked.
THEOREM SessionsKept == Spec => []SessionsOwned
<1>1. SInv => SessionsOwned
  BY DEF SInv, Serial, Owned, SessionsOwned, InUse
<1> QED BY <1>1, SerialInvariant, PTL

\* As long as operations have not overlapped, a client stands for a row
\* with its name and its current URL.
THEOREM ClientsBacked == Spec => []ClientsHaveRows
<1>1. IInv /\ SInv => ClientsHaveRows
  <2> SUFFICES ASSUME IInv, Serial, NEW n \in DOMAIN clients \ foreign, Settled(n)
               PROVE  \E r \in DOMAIN rows :
                        rows[r].name = n /\ rows[r].url = client[clients[n]].url
    BY DEF SInv, ClientsHaveRows
  <2>1. n \in Name
    BY DEF IInv, TypeOK
  <2>2. ~Swapping(n)
    BY DEF Settled, Swapping, WorkerOn
  <2> QED BY <2>1, <2>2 DEF Serial, Backed
<1> QED BY <1>1, InductiveInvariant, SerialInvariant, PTL

-----------------------------------------------------------------------------
\* A tool is in the namespace of the client its handler wraps, and this
\* client is the one under its name.

Owns(k) ==
    LET n == client[tools[k]].name IN
    /\ StartsWith(k, n)
    /\ n \in DOMAIN clients
    /\ tools[k] = clients[n]

TInv == ~clash => \A k \in DOMAIN tools : Owns(k)

\* A server is taken out with every tool in its namespace.
LEMMA OwnsPopped ==
    ASSUME \A k \in DOMAIN tools : Owns(k), client' = client, NEW n, PopServer(n)
    PROVE  \A k \in DOMAIN tools' : Owns(k)'
<1> SUFFICES ASSUME NEW k \in DOMAIN tools' PROVE Owns(k)'
  OBVIOUS
<1>1. k \in DOMAIN tools /\ tools'[k] = tools[k]
  BY DEF PopServer, Unregister, Restrict
<1>2. Owns(k)
  BY <1>1
<1>3. client[tools[k]].name # n
  BY <1>2 DEF PopServer, Unregister, Restrict, Owns
<1> QED BY <1>1, <1>2, <1>3 DEF PopServer, Without, Restrict, Owns

\* A client is published, or reconnected, and its old tools go.
LEMMA OwnsCleared ==
    ASSUME \A k \in DOMAIN tools : Owns(k), NamesKept,
           NEW n, tools' = Unregister(tools, n), \A m : m # n => SameEntry(m)
    PROVE  \A k \in DOMAIN tools' : Owns(k)'
<1> SUFFICES ASSUME NEW k \in DOMAIN tools' PROVE Owns(k)'
  OBVIOUS
<1>1. k \in DOMAIN tools /\ tools'[k] = tools[k] /\ ~StartsWith(k, n)
  BY DEF Unregister, Restrict
<1>2. Owns(k) /\ client'[tools[k]].name = client[tools[k]].name
  BY <1>1 DEF NamesKept
<1> QED BY <1>1, <1>2 DEF Owns, SameEntry

\* A listing is registered on the client under its name, also where it takes
\* the key of another server's tool.
LEMMA OwnsListed ==
    ASSUME NEW Segment, Namespaces(Segment), \A k \in DOMAIN tools : Owns(k),
           NEW n \in DOMAIN clients, n \in Name, client[clients[n]].name = n,
           NEW listing \in SUBSET Tool,
           tools' = Register(tools, Handlers(n, clients[n], listing)),
           clients' = clients, client' = client
    PROVE  \A k \in DOMAIN tools' : Owns(k)'
<1> DEFINE new == Handlers(n, clients[n], listing)
<1> SUFFICES ASSUME NEW k \in DOMAIN tools' PROVE Owns(k)'
  OBVIOUS
<1>1. CASE k \in DOMAIN new
  <2>1. PICK t \in listing : k = Key(n, t)
    BY <1>1 DEF Handlers
  <2>2. StartsWith(k, n)
    BY <2>1, OwnPrefix DEF Namespaces
  <2>3. new[k] = clients[n]
    BY <1>1 DEF Handlers
  <2> HIDE DEF new
  <2>4. tools'[k] = new[k]
    BY <1>1 DEF Register, new
  <2> QED BY <2>2, <2>3, <2>4 DEF Owns
<1>2. CASE k \notin DOMAIN new
  <2> HIDE DEF new
  <2>1. k \in DOMAIN tools /\ tools'[k] = tools[k]
    BY <1>2 DEF Register, new
  <2> QED BY <2>1 DEF Owns
<1> QED BY <1>1, <1>2

LEMMA StepOwns ==
    ASSUME NEW Segment, Namespaces(Segment), IInv, IInv', SInv, SInv', TInv, [Next]_vars
    PROVE  TInv'
<1> DEFINE AllOwn == \A k \in DOMAIN tools : Owns(k)
<1> SUFFICES ASSUME ~clash' PROVE AllOwn'
  BY DEF TInv
<1>1. CASE ProcessEnds
  BY <1>1 DEF ProcessEnds, NoTools
<1>2. CASE ~ProcessEnds
  <2>1. ~clash
    BY <1>2, StepClash
  <2>2. AllOwn /\ Serial /\ Named /\ TypeOK
    BY <2>1 DEF TInv, SInv, IInv
  <2>3. ASSUME tools' = tools, clients' = clients, NamesKept
        PROVE  AllOwn'
    BY <2>2, <2>3 DEF Owns, NamesKept
  <2>4. client' = client => NamesKept
    BY DEF NamesKept
  <2>5. ASSUME NEW c, NEW x \in {"none", "dead", "open", "mute"}, SetSession(c, x)
        PROVE  NamesKept
    BY <2>2, <2>5, SessionOnly DEF NamesKept, TypeOK
  <2>6. CASE UNCHANGED vars
    BY <2>3, <2>4, <2>6 DEF vars
  <2>7. ASSUME NEW t \in Task, Request(t)
        PROVE  AllOwn'
    BY <2>2, <2>3, <2>4, <2>7, OwnsPopped
    DEF Request, RegisterServer, FetchForUpdate, DeleteServer
  <2>8. ASSUME NEW w \in Worker, Work(w)
        PROVE  AllOwn'
    <3>1. CASE SwapOut(w)
      BY <2>2, <3>1, OwnsPopped DEF SwapOut
    <3>2. CASE Connected(w)
      <4>1. \A m : m # task[w].name => SameEntry(m)
        BY <3>2 DEF Connected, SameEntry, With
      <4>2. NamesKept
        BY <2>5, <3>2 DEF Connected
      <4> QED BY <2>2, <3>2, <4>1, <4>2, OwnsCleared DEF Connected
    <3>3. ASSUME NEW listing \in SUBSET Tool, Listed(w, listing)
          PROVE  AllOwn'
      <4>1. /\ task[w].name \in DOMAIN clients /\ task[w].name \in Name
            /\ clients[task[w].name] = task[w].cl
            /\ client[clients[task[w].name]].name = task[w].name
        BY <2>2, <3>3 DEF Listed, Serial, Progress, Named, Targets
      <4>2. /\ tools' = Register(tools, Handlers(task[w].name, clients[task[w].name], listing))
            /\ clients' = clients /\ client' = client
        BY <3>3, <4>1 DEF Listed
      <4> QED BY <2>2, <4>1, <4>2, OwnsListed
    <3>4. ASSUME NEW c \in Client, NewClient(w, c)
          PROVE  tools' = tools /\ clients' = clients /\ NamesKept
      BY <2>2, <3>4 DEF NewClient, Unreferenced, NamesKept, TypeOK
    <3>5. ASSUME Closed(w) \/ ConnectFailed(w)
          PROVE  tools' = tools /\ clients' = clients /\ NamesKept
      BY <2>5, <3>5 DEF Closed, ConnectFailed
    <3>6. ASSUME \/ \E n \in Name, u \in Url : CommitUpdate(w, n, u)
                 \/ UpdateLost(w) \/ EraseRow(w) \/ ListFailed(w) \/ MarkConnected(w)
          PROVE  tools' = tools /\ clients' = clients /\ client' = client
      BY <3>6 DEF CommitUpdate, UpdateLost, EraseRow, ListFailed, MarkConnected
    <3> QED BY <2>3, <2>4, <2>8, <3>1, <3>2, <3>3, <3>4, <3>5, <3>6 DEF Work
  <2>9. CASE Health
    <3>1. CASE Reconnected
      <4>1. \A m : m # health.name => SameEntry(m)
        BY <3>1 DEF Reconnected, SameEntry
      <4>2. NamesKept
        BY <2>5, <3>1 DEF Reconnected
      <4> QED BY <2>2, <3>1, <4>1, <4>2, OwnsCleared DEF Reconnected
    <3>2. ASSUME NEW listing \in SUBSET Tool, Relisted(listing)
          PROVE  AllOwn'
      <4>1. /\ health.name \in DOMAIN clients /\ health.name \in Name
            /\ clients[health.name] = health.cl
            /\ client[clients[health.name]].name = health.name
        BY <2>2, <3>2 DEF Relisted, Serial, Repairs, Named
      <4>2. /\ tools' = Register(tools, Handlers(health.name, clients[health.name], listing))
            /\ clients' = clients /\ client' = client
        BY <3>2, <4>1 DEF Relisted
      <4> QED BY <2>2, <4>1, <4>2, OwnsListed
    <3>3. ASSUME RetryClosed \/ ReconnectFailed
          PROVE  tools' = tools /\ clients' = clients /\ NamesKept
      BY <2>5, <3>3 DEF RetryClosed, ReconnectFailed
    <3>4. ASSUME ~Reconnected, ~RetryClosed, ~ReconnectFailed,
                 ~\E listing \in SUBSET Tool : Relisted(listing)
          PROVE  tools' = tools /\ clients' = clients /\ client' = client
      BY <2>9, <3>4 DEF Health, WakeUp, NextServer, ScanDone, ProbeOk, ProbeFailed,
         MarkDisconnected, Retry, RelistFailed, MarkReconnected
    <3> QED BY <2>3, <2>4, <3>1, <3>2, <3>3, <3>4
  <2>10. CASE Lifespan
    <3>1. ASSUME NEW n \in Name, StopServer(n)
          PROVE  AllOwn'
      BY <2>2, <3>1, OwnsPopped DEF StopServer
    <3>2. CASE StopClosed
      BY <2>3, <2>5, <3>2 DEF StopClosed
    <3>3. CASE Boot \/ Ready \/ Shutdown
      BY <2>3, <2>4, <3>3 DEF Boot, Ready, Shutdown
    <3> QED BY <1>2, <2>10, <3>1, <3>2, <3>3 DEF Lifespan, Exit, Crash
  <2>11. CASE Remote
    <3>1. ASSUME NEW u \in Url, RemoteUp(u)
          PROVE  AllOwn'
      BY <2>3, <2>4, <3>1 DEF RemoteUp
    <3>2. ASSUME NEW u \in Url, RemoteDown(u)
          PROVE  AllOwn'
      <4>1. NamesKept
        BY <2>2, <3>2 DEF RemoteDown, NamesKept, TypeOK, ClientRecord
      <4> QED BY <2>3, <3>2, <4>1 DEF RemoteDown
    <3>3. ASSUME NEW c \in Client, Swallowed(c)
          PROVE  AllOwn'
      BY <2>3, <2>5, <3>3 DEF Swallowed
    <3> QED BY <2>11, <3>1, <3>2, <3>3 DEF Remote
  <2>12. CASE Elsewhere
    <3>1. tools' = tools /\ clients' = clients /\ client' = client
      BY <2>12 DEF Elsewhere, WrittenElsewhere, ErasedElsewhere, MarkedElsewhere, NoteForeign
    <3> QED BY <2>3, <2>4, <3>1
  <2> QED BY <2>6, <2>7, <2>8, <2>9, <2>10, <2>11, <2>12 DEF Next
<1> QED BY <1>1, <1>2

\* As long as operations have not overlapped, a tool whose server nobody
\* works on is on the client of this server, whatever the names of the others.
THEOREM ToolsKept ==
    ASSUME NEW Segment, Namespaces(Segment)
    PROVE  Spec => []ToolsOwned
<1>1. Init => TInv
  BY DEF Init, TInv, NoTools
<1>2. IInv /\ IInv' /\ SInv /\ SInv' /\ TInv /\ [Next]_vars => TInv'
  BY StepOwns
<1>3. TInv => ToolsOwned
  BY DEF TInv, Owns, ToolsOwned
<1> QED BY <1>1, <1>2, <1>3, InductiveInvariant, SerialInvariant, PTL DEF Spec
=============================================================================
