--------------------------- MODULE ThinkTag_proof ---------------------------
(***************************************************************************)
(* What ThinkTagFilter returns, for chunks of any length.  Its loop is a   *)
(* recursive function of the buffer, and so is the reference it is         *)
(* compared with, so the first section says what can be said of a function *)
(* on sequences by induction on their length.  The second: the filter      *)
(* returns events, a buffer and a flag.  The third: when it has taken a    *)
(* chunk, the events, and the flag and buffer it goes on with, are those   *)
(* of a reader that saw each symbol of all that was said.                  *)
(***************************************************************************)
EXTENDS ThinkTag, SequenceTheorems, WellFoundedInduction, TLAPS

-----------------------------------------------------------------------------
\* Induction and recursion.

\* A set of numbers that is not empty has a least one.
LEMMA Least ==
    ASSUME NEW T \in SUBSET Nat, T # {}
    PROVE  \E n \in T : \A m \in T : n <= m
<1> DEFINE R == {ss \in Nat \X Nat : ss[1] < ss[2]}
<1>1. IsWellFoundedOn(R, Nat)
  BY NatLessThanWellFounded DEF OpToRel
<1> HIDE DEF R
<1>2. PICK n \in T : \A m \in T : <<m, n>> \notin R
  BY <1>1, WFMin
<1>3. ASSUME NEW m \in T PROVE n <= m
  <2>1. <<m, n>> \in R <=> m < n
    BY DEF R
  <2> QED BY <1>2, <2>1
<1> QED BY <1>3

\* A set of sequences that has a sequence when it has all the shorter ones has all.
LEMMA ByLength ==
    ASSUME NEW A, NEW G,
           \A s \in Seq(A) : (\A r \in Seq(A) : Len(r) < Len(s) => r \in G) => s \in G
    PROVE  \A s \in Seq(A) : s \in G
<1> DEFINE T == {n \in Nat : \E s \in Seq(A) : Len(s) = n /\ s \notin G}
<1> SUFFICES ASSUME NEW x \in Seq(A), x \notin G PROVE FALSE
  OBVIOUS
<1>1. Len(x) \in T
  OBVIOUS
<1>2. PICK n \in T : \A m \in T : n <= m
  BY <1>1, Least
<1>3. PICK s \in Seq(A) : Len(s) = n /\ s \notin G
  OBVIOUS
<1>4. ASSUME NEW r \in Seq(A), Len(r) < Len(s) PROVE r \in G
  BY <1>2, <1>3, <1>4
<1> QED BY <1>3, <1>4

\* Body says what F is of a sequence from what it is of shorter ones.
Descends(A, B, Body) ==
    \A P, Q \in [Seq(A) -> B], s \in Seq(A) :
       (\A r \in Seq(A) : Len(r) < Len(s) => P[r] = Q[r]) => Body[P][s] = Body[Q][s]

Recursive(A, B, Body) ==
    /\ \E b : b \in B
    /\ Body \in [[Seq(A) -> B] -> [Seq(A) -> B]]
    /\ Descends(A, B, Body)

Solves(A, Body, P, n) == \A s \in Seq(A) : Len(s) < n => P[s] = Body[P][s]

LEMMA SolutionsAgree ==
    ASSUME NEW A, NEW B, NEW Body, Descends(A, B, Body),
           NEW P \in [Seq(A) -> B], NEW Q \in [Seq(A) -> B],
           NEW n \in Nat, Solves(A, Body, P, n), Solves(A, Body, Q, n)
    PROVE  \A s \in Seq(A) : Len(s) < n => P[s] = Q[s]
<1> DEFINE G == {s \in Seq(A) : Len(s) < n => P[s] = Q[s]}
<1>1. ASSUME NEW s \in Seq(A), \A r \in Seq(A) : Len(r) < Len(s) => r \in G
      PROVE  s \in G
  <2> SUFFICES ASSUME Len(s) < n PROVE P[s] = Q[s]
    OBVIOUS
  <2>1. ASSUME NEW r \in Seq(A), Len(r) < Len(s) PROVE P[r] = Q[r]
    <3>1. Len(r) < n
      BY <2>1
    <3> QED BY <1>1, <2>1, <3>1
  <2>2. Body[P][s] = Body[Q][s]
    BY <2>1 DEF Descends
  <2> QED BY <2>2 DEF Solves
<1> HIDE DEF G
<1>2. \A s \in Seq(A) : s \in G
  BY <1>1, ByLength
<1> QED BY <1>2 DEF G

LEMMA SolutionExists ==
    ASSUME NEW A, NEW B, NEW b \in B,
           NEW Body \in [[Seq(A) -> B] -> [Seq(A) -> B]], Descends(A, B, Body),
           NEW n \in Nat
    PROVE  \E P \in [Seq(A) -> B] : Solves(A, Body, P, n)
<1> DEFINE T == {k \in Nat : ~\E P \in [Seq(A) -> B] : Solves(A, Body, P, k)}
<1>1. SUFFICES ASSUME T # {} PROVE FALSE
  BY DEF T
<1>2. PICK k \in T : \A m \in T : k <= m
  BY <1>1, Least
<1>3. k # 0
  <2>1. [s \in Seq(A) |-> b] \in [Seq(A) -> B]
    OBVIOUS
  <2>2. Solves(A, Body, [s \in Seq(A) |-> b], 0)
    BY DEF Solves
  <2> QED BY <2>1, <2>2
<1>4. k - 1 \in Nat /\ k - 1 \notin T
  BY <1>2, <1>3
<1>5. PICK P \in [Seq(A) -> B] : Solves(A, Body, P, k - 1)
  BY <1>4
<1> HIDE DEF T
<1>6. Body[P] \in [Seq(A) -> B]
  OBVIOUS
<1>7. Solves(A, Body, Body[P], k)
  <2>1. SUFFICES ASSUME NEW s \in Seq(A), Len(s) < k
                 PROVE  Body[P][s] = Body[Body[P]][s]
    BY DEF Solves
  <2>2. ASSUME NEW r \in Seq(A), Len(r) < Len(s) PROVE P[r] = Body[P][r]
    <3>1. Len(r) \in Nat /\ Len(s) \in Nat /\ k \in Nat
      BY <1>4 DEF T
    <3>2. Len(r) < k - 1
      BY <2>1, <2>2, <3>1
    <3> QED BY <1>5, <3>2 DEF Solves
  <2> QED BY <1>6, <2>2 DEF Descends
<1> QED BY <1>6, <1>7 DEF T

\* Such a body has a function.
LEMMA Recursion ==
    ASSUME NEW A, NEW B, NEW Body, Recursive(A, B, Body)
    PROVE  \E F \in [Seq(A) -> B] : F = Body[F]
<1> USE DEF Recursive
<1> DEFINE Best(s) == CHOOSE P \in [Seq(A) -> B] : Solves(A, Body, P, Len(s) + 1)
           F == [s \in Seq(A) |-> Best(s)[s]]
<1>0. ASSUME NEW P \in [Seq(A) -> B], NEW Q \in [Seq(A) -> B], NEW n \in Nat,
             Solves(A, Body, P, n), Solves(A, Body, Q, n)
      PROVE  \A s \in Seq(A) : Len(s) < n => P[s] = Q[s]
  BY <1>0, SolutionsAgree
<1>1. ASSUME NEW s \in Seq(A)
      PROVE  Best(s) \in [Seq(A) -> B] /\ Solves(A, Body, Best(s), Len(s) + 1)
  <2>1. Len(s) + 1 \in Nat
    OBVIOUS
  <2> QED BY <2>1, SolutionExists
<1> HIDE DEF Best
<1>2. F \in [Seq(A) -> B]
  BY <1>1
<1>3. \A r \in Seq(A) : F[r] = Best(r)[r]
  OBVIOUS
<1> HIDE DEF F
<1>4. ASSUME NEW s \in Seq(A) PROVE F[s] = Body[F][s]
  <2>0. \A r \in Seq(A) : Len(r) \in Nat /\ Len(r) < Len(r) + 1
    OBVIOUS
  <2>1. Best(s)[s] = Body[Best(s)][s]
    BY <1>1, <2>0 DEF Solves
  <2>2. ASSUME NEW r \in Seq(A), Len(r) < Len(s) PROVE Best(s)[r] = F[r]
    <3>1. Solves(A, Body, Best(s), Len(r) + 1) /\ Solves(A, Body, Best(r), Len(r) + 1)
      <4>1. \A q \in Seq(A) : Len(q) < Len(r) + 1 => Len(q) < Len(s) + 1
        BY <2>2, <2>0
      <4> QED BY <1>1, <4>1 DEF Solves
    <3>2. Len(r) + 1 \in Nat /\ Len(r) < Len(r) + 1
      BY <2>0
    <3>3. Best(s)[r] = Best(r)[r]
      <4> DEFINE P == Best(s)
                 Q == Best(r)
                 n == Len(r) + 1
      <4>1. P \in [Seq(A) -> B] /\ Q \in [Seq(A) -> B]
        BY <1>1
      <4>2. Solves(A, Body, P, n) /\ Solves(A, Body, Q, n) /\ n \in Nat /\ Len(r) < n
        BY <3>1, <3>2
      <4> HIDE DEF P, Q, n
      <4>3. \A x \in Seq(A) : Len(x) < n => P[x] = Q[x]
        BY <1>0, <4>1, <4>2
      <4> QED BY <4>2, <4>3 DEF P, Q
    <3> QED BY <1>3, <3>3
  <2>3. Body[Best(s)][s] = Body[F][s]
    BY <1>1, <1>2, <2>2 DEF Descends
  <2> QED BY <1>3, <2>1, <2>3
<1>5. Body[F] \in [Seq(A) -> B]
  BY <1>2
<1> QED BY <1>2, <1>4, <1>5

-----------------------------------------------------------------------------
\* What the filter returns.

\* It holds back no more than the start of an opening tag.
Output ==
    {r \in [events : Seq(FilterEvent), buffer : Seq(Symbol), in_think : BOOLEAN] :
        r.buffer = <<>> \/ (r.buffer = <<"<th">> /\ ~r.in_think)}

\* The body of Process, with P for what it returns of the rest.
Loop(P, s, inside) ==
    LET tag == IF inside THEN CloseTag ELSE OpenTag
        type == IF inside THEN "thinking" ELSE "chunk"
        hit == Min(Hits(tag, s))
        rest == P[SubSeq(s, hit + 2, Len(s))][~inside]
    IN  IF s = <<>>
        THEN [events |-> <<>>, buffer |-> <<>>, in_think |-> inside]
        ELSE IF Hits(tag, s) # {}
        THEN [rest EXCEPT !.events = Event(type, SubSeq(s, 1, hit - 1)) \o @]
        ELSE IF ~inside /\ PartialOpen(s)
        THEN [events |-> Event(type, Front(s)), buffer |-> <<Last(s)>>,
              in_think |-> FALSE]
        ELSE [events |-> Event(type, s), buffer |-> <<>>, in_think |-> inside]

\* Where the first tag is.
LEMMA FirstHit ==
    ASSUME NEW s \in Seq(Symbol), NEW tag, Hits(tag, s) # {}
    PROVE  LET hit == Min(Hits(tag, s)) IN
           /\ hit \in 1 .. Len(s) - 1
           /\ SubSeq(s, hit, hit + 1) = tag
           /\ \A i \in Hits(tag, s) : hit <= i
           /\ SubSeq(s, 1, hit - 1) \in Seq(Symbol)
           /\ SubSeq(s, hit + 2, Len(s)) \in Seq(Symbol)
           /\ Len(SubSeq(s, hit + 2, Len(s))) = Len(s) - hit - 1
           /\ Len(SubSeq(s, hit + 2, Len(s))) < Len(s)
<1> DEFINE hit == Min(Hits(tag, s))
<1>1. Hits(tag, s) \in SUBSET Nat
  BY DEF Hits
<1>2. hit \in Hits(tag, s) /\ \A i \in Hits(tag, s) : hit <= i
  BY <1>1, Least DEF Min
<1> HIDE DEF hit
<1>3. hit \in 1 .. Len(s) - 1 /\ SubSeq(s, hit, hit + 1) = tag
  BY <1>2 DEF Hits
<1>4. /\ SubSeq(s, 1, hit - 1) \in Seq(Symbol)
      /\ SubSeq(s, hit + 2, Len(s)) \in Seq(Symbol)
      /\ Len(SubSeq(s, hit + 2, Len(s))) = Len(s) - hit - 1
  <2>1. \A i \in Int, j \in Int : 1 <= i /\ j <= Len(s) => \A k \in i .. j : s[k] \in Symbol
    OBVIOUS
  <2> QED BY <1>3, <2>1, SubSeqProperties
<1>5. Len(SubSeq(s, hit + 2, Len(s))) < Len(s)
  BY <1>3, <1>4
<1> QED BY <1>2, <1>3, <1>4, <1>5 DEF hit

\* The loop goes on with a shorter rest.
LEMMA LoopLocal ==
    ASSUME NEW s \in Seq(Symbol), NEW inside \in BOOLEAN, NEW P, NEW Q,
           \A r \in Seq(Symbol) : Len(r) < Len(s) => P[r] = Q[r]
    PROVE  Loop(P, s, inside) = Loop(Q, s, inside)
<1> DEFINE tag == IF inside THEN CloseTag ELSE OpenTag
           rest == SubSeq(s, Min(Hits(tag, s)) + 2, Len(s))
<1>1. ASSUME Hits(tag, s) # {} PROVE P[rest] = Q[rest]
  <2>1. rest \in Seq(Symbol) /\ Len(rest) < Len(s)
    BY <1>1, FirstHit
  <2> HIDE DEF rest
  <2> QED BY <2>1
<1> QED BY <1>1 DEF Loop

LEMMA EventType ==
    ASSUME NEW type \in {"thinking", "chunk"}, NEW s \in Seq(Symbol)
    PROVE  Event(type, s) \in Seq(FilterEvent)
<1> DEFINE e == [type |-> type, content |-> s]
<1>1. e \in FilterEvent
  BY DEF FilterEvent
<1> HIDE DEF e
<1>2. <<e>> \in Seq(FilterEvent) /\ <<>> \in Seq(FilterEvent)
  BY <1>1
<1>3. Event(type, s) = IF s = <<>> THEN <<>> ELSE <<e>>
  BY DEF Event, e
<1> QED BY <1>2, <1>3

\* The last and the other elements.
LEMMA FrontLast ==
    ASSUME NEW A, NEW s \in Seq(A), s # <<>>
    PROVE  /\ Front(s) \in Seq(A) /\ Last(s) \in A
           /\ Len(Front(s)) = Len(s) - 1 /\ Len(Front(s)) < Len(s)
           /\ Append(Front(s), Last(s)) = s
<1>1. Len(s) \in Nat /\ Len(s) > 0
  BY EmptySeq
<1>2. \A i \in 1 .. Len(s) - 1 : s[i] \in A
  BY <1>1
<1>3. /\ Front(s) \in Seq(A) /\ Len(Front(s)) = Len(s) - 1
      /\ \A i \in 1 .. Len(s) - 1 : Front(s)[i] = s[i]
  <2> DEFINE n == Len(s) - 1
  <2>0. n \in Nat /\ \A i \in 1 .. n : s[i] \in A
    BY <1>1, <1>2
  <2> HIDE DEF n
  <2>1. SubSeq(s, 1, n) \in Seq(A) /\ Len(SubSeq(s, 1, n)) = IF 1 <= n THEN n - 1 + 1 ELSE 0
    BY <2>0, SubSeqProperties
  <2>2. \A i \in 1 .. n : SubSeq(s, 1, n)[i] = s[i]
    BY <2>0
  <2>3. Len(SubSeq(s, 1, n)) = n
    BY <2>0, <2>1
  <2> QED BY <2>1, <2>2, <2>3 DEF Front, n
<1>4. Last(s) = s[Len(s)] /\ Last(s) \in A
  BY <1>1 DEF Last
<1> HIDE DEF Front, Last
<1>5. /\ Append(Front(s), Last(s)) \in Seq(A)
      /\ Len(Append(Front(s), Last(s))) = Len(s)
      /\ \A i \in 1 .. Len(s) : Append(Front(s), Last(s))[i] = s[i]
  BY <1>1, <1>3, <1>4, AppendProperties
<1> QED BY <1>1, <1>3, <1>4, <1>5, SeqEqual

LEMMA LoopType ==
    ASSUME NEW s \in Seq(Symbol), NEW inside \in BOOLEAN, NEW P,
           \A r \in Seq(Symbol), b \in BOOLEAN : Len(r) < Len(s) => P[r][b] \in Output
    PROVE  Loop(P, s, inside) \in Output
<1> DEFINE tag == IF inside THEN CloseTag ELSE OpenTag
           type == IF inside THEN "thinking" ELSE "chunk"
           hit == Min(Hits(tag, s))
           rest == SubSeq(s, hit + 2, Len(s))
<1>1. CASE s = <<>>
  BY <1>1 DEF Loop, Output
<1>2. CASE s # <<>> /\ Hits(tag, s) # {}
  <2>1. rest \in Seq(Symbol) /\ Len(rest) < Len(s) /\ SubSeq(s, 1, hit - 1) \in Seq(Symbol)
    BY <1>2, FirstHit
  <2> DEFINE more == P[rest][~inside]
             first == Event(type, SubSeq(s, 1, hit - 1))
  <2>2. more \in Output
    <3> HIDE DEF rest
    <3>1. (~inside) \in BOOLEAN
      OBVIOUS
    <3> QED BY <2>1, <3>1
  <2>3. first \in Seq(FilterEvent)
    BY <2>1, EventType
  <2>4. Loop(P, s, inside) = [more EXCEPT !.events = first \o @]
    BY <1>2 DEF Loop
  <2> HIDE DEF more, first
  <2>5. first \o more.events \in Seq(FilterEvent)
    BY <2>2, <2>3 DEF Output
  <2> QED BY <2>2, <2>4, <2>5 DEF Output
<1>3. CASE s # <<>> /\ Hits(tag, s) = {} /\ ~inside /\ PartialOpen(s)
  <2>1. Front(s) \in Seq(Symbol) /\ Last(s) = "<th"
    BY <1>3, FrontLast DEF PartialOpen
  <2>2. Event("chunk", Front(s)) \in Seq(FilterEvent)
    BY <2>1, EventType
  <2>3. Loop(P, s, inside)
          = [events |-> Event("chunk", Front(s)), buffer |-> <<"<th">>, in_think |-> FALSE]
    BY <1>3, <2>1 DEF Loop
  <2>4. <<"<th">> \in Seq(Symbol)
    BY DEF Symbol
  <2> QED BY <2>2, <2>3, <2>4 DEF Output
<1>4. CASE s # <<>> /\ Hits(tag, s) = {} /\ ~(~inside /\ PartialOpen(s))
  <2>1. Event(type, s) \in Seq(FilterEvent)
    BY EventType
  <2>2. Loop(P, s, inside) = [events |-> Event(type, s), buffer |-> <<>>, in_think |-> inside]
    BY <1>4 DEF Loop
  <2> HIDE DEF type
  <2> QED BY <2>1, <2>2 DEF Output
<1> QED BY <1>1, <1>2, <1>3, <1>4

\* Process is what its definition says.
LEMMA ProcessUnfolds == \A s \in Seq(Symbol), b \in BOOLEAN : Process[s][b] = Loop(Process, s, b)
<1> DEFINE B == [BOOLEAN -> Output]
           Once(P) == [s \in Seq(Symbol) |-> [b \in BOOLEAN |-> Loop(P, s, b)]]
           Body == [P \in [Seq(Symbol) -> B] |-> Once(P)]
<1>1. Body \in [[Seq(Symbol) -> B] -> [Seq(Symbol) -> B]]
  BY LoopType
<1>2. Descends(Symbol, B, Body)
  <2> SUFFICES ASSUME NEW P \in [Seq(Symbol) -> B], NEW Q \in [Seq(Symbol) -> B],
                      NEW s \in Seq(Symbol),
                      \A r \in Seq(Symbol) : Len(r) < Len(s) => P[r] = Q[r]
               PROVE  Body[P][s] = Body[Q][s]
    BY DEF Descends
  <2>1. \A b \in BOOLEAN : Loop(P, s, b) = Loop(Q, s, b)
    BY LoopLocal
  <2> QED BY <2>1
<1>3. \E b : b \in B
  <2>1. [events |-> <<>>, buffer |-> <<>>, in_think |-> FALSE] \in Output
    BY DEF Output
  <2>2. [c \in BOOLEAN |-> [events |-> <<>>, buffer |-> <<>>, in_think |-> FALSE]] \in B
    BY <2>1
  <2> QED BY <2>2
<1>4. \E F \in [Seq(Symbol) -> B] : F = Body[F]
  <2> HIDE DEF Body, B
  <2>1. Recursive(Symbol, B, Body)
    BY <1>1, <1>2, <1>3 DEF Recursive
  <2> QED BY <2>1, Recursion
<1>5. \E F : F = Once(F)
  BY <1>4
<1>6. Process = CHOOSE P : P = Once(P)
  BY DEF Process, Loop
<1> HIDE DEF Once
<1>7. Process = Once(Process)
  BY <1>5, <1>6
<1> QED BY <1>7 DEF Once

\* The filter returns events, keeps the start of an opening tag at most, and knows
\* whether it is inside a tag.
THEOREM ProcessType == \A s \in Seq(Symbol), b \in BOOLEAN : Process[s][b] \in Output
<1> DEFINE G == {s \in Seq(Symbol) : \A b \in BOOLEAN : Process[s][b] \in Output}
<1>1. ASSUME NEW s \in Seq(Symbol), \A r \in Seq(Symbol) : Len(r) < Len(s) => r \in G
      PROVE  s \in G
  BY <1>1, ProcessUnfolds, LoopType
<1> HIDE DEF G
<1>2. \A s \in Seq(Symbol) : s \in G
  BY <1>1, ByLength
<1> QED BY <1>2 DEF G

-----------------------------------------------------------------------------
\* What the reference has seen, and what a sequence of pieces says.

LEMMA FrontOfAppend ==
    ASSUME NEW A, NEW s \in Seq(A), NEW e \in A
    PROVE  Front(Append(s, e)) = s /\ Last(Append(s, e)) = e
<1> DEFINE a == Append(s, e)
<1>1. a \in Seq(A) /\ a # <<>>
  BY AppendProperties
<1>2. Front(a) \in Seq(A) /\ Last(a) \in A /\ Append(Front(a), Last(a)) = a
  BY <1>1, FrontLast
<1> QED BY <1>2, AppendInjective

LEMMA ReadType ==
    ASSUME NEW seen \in Reader, NEW y \in Symbol
    PROVE  Read(seen, y) \in Reader
<1> DEFINE text == IF seen.held /\ ~seen.inside THEN Append(seen.text, "<th") ELSE seen.text
           lead == IF seen.inside THEN "</th" ELSE "<th"
<1>1. text \in Seq(Symbol)
  BY AppendProperties DEF Reader, Symbol
<1>2. Append(text, y) \in Seq(Symbol)
  BY <1>1, AppendProperties
<1>3. Read(seen, y) = IF seen.held /\ y = "ink"
        THEN [seen EXCEPT !.inside = ~@, !.held = FALSE]
        ELSE [text |-> IF y = lead \/ seen.inside THEN text ELSE Append(text, y),
              inside |-> seen.inside, held |-> y = lead]
  BY DEF Read
<1> DEFINE more == IF y = lead \/ seen.inside THEN text ELSE Append(text, y)
           held == y = lead
<1>4. more \in Seq(Symbol) /\ held \in BOOLEAN
  BY <1>1, <1>2
<1> HIDE DEF text, lead, more, held
<1>5. CASE seen.held /\ y = "ink"
  <2> DEFINE turned == ~seen.inside
  <2>1. Read(seen, y) = [seen EXCEPT !.inside = turned, !.held = FALSE]
    BY <1>3, <1>5
  <2>2. turned \in BOOLEAN
    OBVIOUS
  <2> HIDE DEF turned
  <2> QED BY <2>1, <2>2 DEF Reader
<1>6. CASE ~(seen.held /\ y = "ink")
  <2>1. Read(seen, y) = [text |-> more, inside |-> seen.inside, held |-> held]
    BY <1>3, <1>6 DEF more, held
  <2> QED BY <1>4, <2>1 DEF Reader
<1> QED BY <1>5, <1>6

LEMMA SeenReads ==
    \A x \in Reader :
       /\ Seen[<<>>][x] = x
       /\ \A s \in Seq(Symbol) : Seen[s][x] \in Reader
       /\ \A s \in Seq(Symbol), y \in Symbol : Seen[Append(s, y)][x] = Read(Seen[s][x], y)
<1> DEFINE B == [Reader -> Reader]
           One(P, s, x) == IF s = <<>> THEN x ELSE Read(P[Front(s)][x], Last(s))
           Once(P) == [s \in Seq(Symbol) |-> [x \in Reader |-> One(P, s, x)]]
           Body == [P \in [Seq(Symbol) -> B] |-> Once(P)]
<1>1. \E b : b \in B
  <2>1. [x \in Reader |-> x] \in B
    OBVIOUS
  <2> QED BY <2>1
<1>2. ASSUME NEW P, NEW s \in Seq(Symbol), NEW x \in Reader,
             \A r \in Seq(Symbol) : Len(r) < Len(s) => P[r][x] \in Reader
      PROVE  One(P, s, x) \in Reader
  <2>1. CASE s = <<>>
    BY <2>1
  <2>2. CASE s # <<>>
    <3>1. P[Front(s)][x] \in Reader /\ Last(s) \in Symbol
      BY <1>2, <2>2, FrontLast
    <3> QED BY <2>2, <3>1, ReadType
  <2> QED BY <2>1, <2>2
<1>3. Body \in [[Seq(Symbol) -> B] -> [Seq(Symbol) -> B]]
  <2>1. \A P \in [Seq(Symbol) -> B], s \in Seq(Symbol), x \in Reader : One(P, s, x) \in Reader
    BY <1>2
  <2> HIDE DEF One
  <2> QED BY <2>1
<1>4. Descends(Symbol, B, Body)
  <2> SUFFICES ASSUME NEW P \in [Seq(Symbol) -> B], NEW Q \in [Seq(Symbol) -> B],
                      NEW s \in Seq(Symbol),
                      \A r \in Seq(Symbol) : Len(r) < Len(s) => P[r] = Q[r]
               PROVE  Body[P][s] = Body[Q][s]
    BY DEF Descends
  <2>1. s # <<>> => P[Front(s)] = Q[Front(s)]
    BY FrontLast
  <2>2. \A x \in Reader : One(P, s, x) = One(Q, s, x)
    BY <2>1
  <2> HIDE DEF One
  <2> QED BY <2>2
<1>5. \E F : F = Once(F)
  <2>1. \E F \in [Seq(Symbol) -> B] : F = Body[F]
    <3>1. Recursive(Symbol, B, Body)
      BY <1>1, <1>3, <1>4 DEF Recursive
    <3> HIDE DEF Body, B
    <3> QED BY <3>1, Recursion
  <2> QED BY <2>1
<1>6. Seen = CHOOSE P : P = Once(P)
  BY DEF Seen
<1> HIDE DEF Once
<1>7. Seen = Once(Seen)
  BY <1>5, <1>6
<1>8. \A s \in Seq(Symbol), x \in Reader : Seen[s][x] = One(Seen, s, x)
  <2> HIDE DEF One
  <2>1. \A P : \A s \in Seq(Symbol), x \in Reader : Once(P)[s][x] = One(P, s, x)
    BY DEF Once
  <2>2. \A s \in Seq(Symbol), x \in Reader : Once(Seen)[s][x] = One(Seen, s, x)
    BY <2>1
  <2> QED BY <1>7, <2>2
<1> DEFINE G == {s \in Seq(Symbol) : \A x \in Reader : Seen[s][x] \in Reader}
<1>9. ASSUME NEW s \in Seq(Symbol), \A r \in Seq(Symbol) : Len(r) < Len(s) => r \in G
      PROVE  s \in G
  <2>1. \A r \in Seq(Symbol), x \in Reader : Len(r) < Len(s) => Seen[r][x] \in Reader
    BY <1>9
  <2> HIDE DEF One
  <2> QED BY <1>2, <1>8, <2>1
<1>10. \A s \in Seq(Symbol) : s \in G
  <2> HIDE DEF G
  <2> QED BY <1>9, ByLength
<1>11. ASSUME NEW x \in Reader, NEW s \in Seq(Symbol), NEW y \in Symbol
       PROVE  Seen[Append(s, y)][x] = Read(Seen[s][x], y)
  <2>1. Append(s, y) \in Seq(Symbol) /\ Append(s, y) # <<>>
    BY AppendProperties
  <2>2. Front(Append(s, y)) = s /\ Last(Append(s, y)) = y
    BY FrontOfAppend
  <2> QED BY <1>8, <2>1, <2>2
<1>12. ASSUME NEW x \in Reader PROVE Seen[<<>>][x] = x
  <2>1. <<>> \in Seq(Symbol)
    OBVIOUS
  <2>2. Seen[<<>>][x] = One(Seen, <<>>, x)
    BY <1>8, <2>1
  <2> QED BY <2>2
<1> QED BY <1>10, <1>11, <1>12

LEMMA SeenAppend ==
    ASSUME NEW x \in Reader, NEW s \in Seq(Symbol), NEW y \in Symbol
    PROVE  Seen[Append(s, y)][x] = Read(Seen[s][x], y)
<1>1. \A q \in Seq(Symbol), z \in Symbol : Seen[Append(q, z)][x] = Read(Seen[q][x], z)
  BY SeenReads
<1> QED BY <1>1

\* The pieces w, joined.
Joined[w \in Seq(Seq(Symbol))] == IF w = <<>> THEN <<>> ELSE Joined[Front(w)] \o Last(w)

LEMMA JoinedGrows ==
    /\ Joined[<<>>] = <<>>
    /\ \A w \in Seq(Seq(Symbol)) : Joined[w] \in Seq(Symbol)
    /\ \A w \in Seq(Seq(Symbol)), x \in Seq(Symbol) : Joined[Append(w, x)] = Joined[w] \o x
<1> DEFINE W == Seq(Symbol)
           One(P, w) == IF w = <<>> THEN <<>> ELSE P[Front(w)] \o Last(w)
           Once(P) == [w \in Seq(W) |-> One(P, w)]
           Body == [P \in [Seq(W) -> W] |-> Once(P)]
<1>1. <<>> \in W
  OBVIOUS
<1>2. ASSUME NEW P, NEW w \in Seq(W), \A r \in Seq(W) : Len(r) < Len(w) => P[r] \in W
      PROVE  One(P, w) \in W
  <2>1. CASE w = <<>>
    BY <1>1, <2>1
  <2>2. CASE w # <<>>
    <3>1. P[Front(w)] \in W /\ Last(w) \in W
      <4> HIDE DEF W
      <4> QED BY <1>2, <2>2, FrontLast
    <3> QED BY <2>2, <3>1, ConcatProperties
  <2> QED BY <2>1, <2>2
<1>3. Body \in [[Seq(W) -> W] -> [Seq(W) -> W]]
  <2> HIDE DEF W, One
  <2>1. \A P \in [Seq(W) -> W], w \in Seq(W) : One(P, w) \in W
    BY <1>2
  <2> QED BY <2>1
<1>4. Descends(W, W, Body)
  <2> HIDE DEF W
  <2> SUFFICES ASSUME NEW P \in [Seq(W) -> W], NEW Q \in [Seq(W) -> W], NEW w \in Seq(W),
                      \A r \in Seq(W) : Len(r) < Len(w) => P[r] = Q[r]
               PROVE  Body[P][w] = Body[Q][w]
    BY DEF Descends
  <2>1. w # <<>> => P[Front(w)] = Q[Front(w)]
    BY FrontLast
  <2>2. One(P, w) = One(Q, w)
    BY <2>1
  <2> QED BY <2>2
<1>5. \E F : F = Once(F)
  <2>1. \E F \in [Seq(W) -> W] : F = Body[F]
    <3>1. Recursive(W, W, Body)
      BY <1>1, <1>3, <1>4 DEF Recursive
    <3> HIDE DEF Body, W
    <3> QED BY <3>1, Recursion
  <2> QED BY <2>1
<1>6. Joined = CHOOSE P : P = Once(P)
  BY DEF Joined
<1> HIDE DEF Once, W
<1>7. Joined = Once(Joined)
  BY <1>5, <1>6
<1>8. \A w \in Seq(W) : Joined[w] = One(Joined, w)
  BY <1>7 DEF Once
<1> DEFINE G == {w \in Seq(W) : Joined[w] \in W}
<1>9. ASSUME NEW w \in Seq(W), \A r \in Seq(W) : Len(r) < Len(w) => r \in G
      PROVE  w \in G
  <2>1. \A r \in Seq(W) : Len(r) < Len(w) => Joined[r] \in W
    BY <1>9
  <2> HIDE DEF One
  <2> QED BY <1>2, <1>8, <2>1
<1>10. \A w \in Seq(W) : w \in G
  <2> HIDE DEF G
  <2> QED BY <1>9, ByLength
<1>11. ASSUME NEW w \in Seq(W), NEW x \in W
       PROVE  Joined[Append(w, x)] = Joined[w] \o x
  <2>1. Append(w, x) \in Seq(W) /\ Append(w, x) # <<>>
    BY AppendProperties
  <2>2. Front(Append(w, x)) = w /\ Last(Append(w, x)) = x
    BY FrontOfAppend
  <2> QED BY <1>8, <2>1, <2>2
<1>12. Joined[<<>>] = <<>>
  <2>1. <<>> \in Seq(W)
    OBVIOUS
  <2>2. Joined[<<>>] = One(Joined, <<>>)
    BY <1>8, <2>1
  <2> QED BY <2>2
<1> QED BY <1>10, <1>11, <1>12 DEF W

LEMMA JoinedHead ==
    \A w \in Seq(Seq(Symbol)) : w # <<>> => Joined[w] = Head(w) \o Joined[Tail(w)]
<1> DEFINE W == Seq(Symbol)
           G == {w \in Seq(W) : w # <<>> => Joined[w] = Head(w) \o Joined[Tail(w)]}
<1>1. ASSUME NEW w \in Seq(W), \A r \in Seq(W) : Len(r) < Len(w) => r \in G
      PROVE  w \in G
  <2> SUFFICES ASSUME w # <<>> PROVE Joined[w] = Head(w) \o Joined[Tail(w)]
    OBVIOUS
  <2> DEFINE v == Front(w)
             x == Last(w)
  <2>1. v \in Seq(W) /\ x \in W /\ w = Append(v, x) /\ Len(v) < Len(w)
    <3> HIDE DEF W, G
    <3> QED BY FrontLast
  <2>2. v # <<>> => Joined[v] = Head(v) \o Joined[Tail(v)]
    BY <1>1, <2>1
  <2> HIDE DEF v, x, G
  <2>3. Joined[w] = Joined[v] \o x /\ Joined[<<>>] = <<>>
    BY <2>1, JoinedGrows
  <2>4. CASE v = <<>>
    <3>1. Head(w) = x /\ Tail(w) = <<>>
      BY <2>1, <2>4, HeadTailAppend
    <3>2. <<>> \o x = x /\ x \o <<>> = x
      BY <2>1, ConcatEmptySeq
    <3> QED BY <2>3, <2>4, <3>1, <3>2
  <2>5. CASE v # <<>>
    <3>1. Head(w) = Head(v) /\ Tail(w) = Append(Tail(v), x)
      BY <2>1, <2>5, HeadTailAppend
    <3>2. Head(v) \in W /\ Tail(v) \in Seq(W)
      BY <2>1, <2>5, HeadTailProperties
    <3>3. Joined[Tail(w)] = Joined[Tail(v)] \o x /\ Joined[Tail(v)] \in W
      BY <2>1, <3>1, <3>2, JoinedGrows
    <3>4. (Head(v) \o Joined[Tail(v)]) \o x = Head(v) \o (Joined[Tail(v)] \o x)
      <4> DEFINE h == Head(v)
                 m == Joined[Tail(v)]
      <4>1. h \in Seq(Symbol) /\ m \in Seq(Symbol) /\ x \in Seq(Symbol)
        BY <2>1, <3>2, <3>3
      <4> HIDE DEF h, m
      <4>2. (h \o m) \o x = h \o (m \o x)
        BY <4>1, ConcatAssociative
      <4> QED BY <4>2 DEF h, m
    <3> QED BY <2>2, <2>3, <2>5, <3>1, <3>3, <3>4
  <2> QED BY <2>4, <2>5
<1>2. \A w \in Seq(W) : w \in G
  <2> HIDE DEF G, W
  <2> QED BY <1>1, ByLength
<1> QED BY <1>2

\* What the elements of a sequence say, one after the other, if f is what each says.
Says(f, es) == Joined[[i \in 1 .. Len(es) |-> f[es[i]]]]

LEMMA SaysGrows ==
    ASSUME NEW A, NEW f \in [A -> Seq(Symbol)], NEW es \in Seq(A)
    PROVE  /\ Says(f, <<>>) = <<>>
           /\ Says(f, es) \in Seq(Symbol)
           /\ \A e \in A : Says(f, Append(es, e)) = Says(f, es) \o f[e]
           /\ es # <<>> => /\ Head(es) \in A /\ Tail(es) \in Seq(A)
                           /\ Says(f, es) = f[Head(es)] \o Says(f, Tail(es))
<1> DEFINE W == Seq(Symbol)
           Pieces(q) == [i \in 1 .. Len(q) |-> f[q[i]]]
<1> HIDE DEF W
<1>0. f \in [A -> W]
  BY DEF W
<1>1. ASSUME NEW q \in Seq(A)
      PROVE  /\ Pieces(q) \in Seq(W) /\ Len(Pieces(q)) = Len(q)
             /\ \A i \in 1 .. Len(q) : Pieces(q)[i] = f[q[i]]
  <2>1. Len(q) \in Nat /\ \A i \in 1 .. Len(q) : f[q[i]] \in W
    BY <1>0
  <2> QED BY <2>1
<1>2. Says(f, <<>>) = <<>>
  <2>1. Pieces(<<>>) \in Seq(W) /\ Len(Pieces(<<>>)) = 0
    BY <1>1
  <2>2. Pieces(<<>>) = <<>>
    BY <2>1
  <2> QED BY <2>2, JoinedGrows DEF Says
<1>3. Says(f, es) \in Seq(Symbol)
  BY <1>1, JoinedGrows DEF Says, W
<1>4. ASSUME NEW e \in A PROVE Says(f, Append(es, e)) = Says(f, es) \o f[e]
  <2>1. /\ Append(es, e) \in Seq(A) /\ Len(Append(es, e)) = Len(es) + 1
        /\ \A i \in 1 .. Len(es) : Append(es, e)[i] = es[i]
        /\ Append(es, e)[Len(es) + 1] = e
    BY AppendProperties
  <2>2. f[e] \in W
    BY <1>0
  <2> DEFINE a == Pieces(Append(es, e))
             b == Append(Pieces(es), f[e])
  <2>3. a \in Seq(W) /\ Len(a) = Len(es) + 1
        /\ \A i \in 1 .. Len(es) + 1 : a[i] = f[Append(es, e)[i]]
    BY <1>1, <2>1
  <2>4. b \in Seq(W) /\ Len(b) = Len(es) + 1 /\ b[Len(es) + 1] = f[e]
        /\ \A i \in 1 .. Len(es) : b[i] = f[es[i]]
    <3>1. Pieces(es) \in Seq(W) /\ Len(Pieces(es)) = Len(es)
          /\ \A i \in 1 .. Len(es) : Pieces(es)[i] = f[es[i]]
      BY <1>1
    <3> HIDE DEF Pieces
    <3> QED BY <2>2, <3>1, AppendProperties
  <2>5. a = b
    <3> HIDE DEF a, b
    <3>1. \A i \in 1 .. Len(es) + 1 : a[i] = b[i]
      <4> SUFFICES ASSUME NEW i \in 1 .. Len(es) + 1 PROVE a[i] = b[i]
        OBVIOUS
      <4>1. Len(es) \in Nat
        OBVIOUS
      <4>2. a[i] = f[Append(es, e)[i]]
        BY <2>3
      <4>3. CASE i = Len(es) + 1
        BY <2>1, <2>4, <4>2, <4>3
      <4>4. CASE i \in 1 .. Len(es)
        <5>1. Append(es, e)[i] = es[i] /\ b[i] = f[es[i]]
          BY <2>1, <2>4, <4>4
        <5> QED BY <4>2, <5>1
      <4> QED BY <4>1, <4>3, <4>4
    <3> QED BY <2>3, <2>4, <3>1, SeqEqual
  <2>6. Joined[b] = Joined[Pieces(es)] \o f[e]
    BY <1>1, <2>2, JoinedGrows DEF W
  <2> QED BY <2>5, <2>6 DEF Says
<1>5. ASSUME es # <<>>
      PROVE  /\ Head(es) \in A /\ Tail(es) \in Seq(A)
             /\ Says(f, es) = f[Head(es)] \o Says(f, Tail(es))
  <2>1. /\ Head(es) \in A /\ Tail(es) \in Seq(A) /\ Len(Tail(es)) = Len(es) - 1
        /\ \A i \in 1 .. Len(Tail(es)) : Tail(es)[i] = es[i + 1]
        /\ Head(es) = es[1] /\ Len(es) \in Nat /\ Len(es) > 0
    BY <1>5, HeadTailProperties, EmptySeq
  <2> DEFINE w == Pieces(es)
  <2>2. w \in Seq(W) /\ Len(w) = Len(es) /\ \A i \in 1 .. Len(es) : w[i] = f[es[i]]
    BY <1>1
  <2> HIDE DEF w
  <2>3. w # <<>> /\ Head(w) = f[Head(es)]
    BY <2>1, <2>2
  <2>4. /\ Tail(w) \in Seq(W) /\ Len(Tail(w)) = Len(w) - 1
        /\ \A i \in 1 .. Len(Tail(w)) : Tail(w)[i] = w[i + 1]
    BY <2>2, <2>3, HeadTailProperties
  <2>5. Pieces(Tail(es)) = Tail(w)
    <3> DEFINE a == Pieces(Tail(es))
    <3>1. a \in Seq(W) /\ Len(a) = Len(es) - 1
          /\ \A i \in 1 .. Len(es) - 1 : a[i] = f[Tail(es)[i]]
      BY <1>1, <2>1
    <3> HIDE DEF a
    <3>2. \A i \in 1 .. Len(es) - 1 : a[i] = Tail(w)[i]
      BY <2>1, <2>2, <2>4, <3>1
    <3>3. a = Tail(w)
      BY <2>2, <2>4, <3>1, <3>2, SeqEqual
    <3> QED BY <3>3 DEF a
  <2>6. Joined[w] = Head(w) \o Joined[Tail(w)]
    BY <2>2, <2>3, JoinedHead DEF W
  <2> QED BY <2>1, <2>3, <2>5, <2>6 DEF Says, w
<1> QED BY <1>2, <1>3, <1>4, <1>5

\* The text among the events of the filter.
Text == [e \in FilterEvent |-> IF e.type = "chunk" THEN e.content ELSE <<>>]

TextOf(es) == Says(Text, es)

LEMMA TextType == Text \in [FilterEvent -> Seq(Symbol)]
  BY DEF Text, FilterEvent

LEMMA TextOfEvent ==
    ASSUME NEW type \in {"thinking", "chunk"}, NEW s \in Seq(Symbol),
           NEW es \in Seq(FilterEvent)
    PROVE  TextOf(Event(type, s) \o es) = (IF type = "chunk" THEN s ELSE <<>>) \o TextOf(es)
<1>0. TextOf(es) \in Seq(Symbol)
  BY TextType, SaysGrows DEF TextOf
<1>1. CASE s = <<>>
  <2>1. <<>> \o es = es /\ <<>> \o TextOf(es) = TextOf(es)
    BY <1>0, ConcatEmptySeq
  <2> QED BY <1>1, <2>1 DEF Event
<1>2. CASE s # <<>>
  <2> DEFINE e == [type |-> type, content |-> s]
             all == <<e>> \o es
  <2>1. e \in FilterEvent /\ Text[e] = IF type = "chunk" THEN s ELSE <<>>
    BY DEF FilterEvent, Text
  <2>2. Event(type, s) \o es = all
    BY <1>2 DEF Event
  <2> HIDE DEF e
  <2>3. all \in Seq(FilterEvent) /\ all # <<>> /\ Head(all) = e /\ Tail(all) = es
    <3>1. <<e>> \in Seq(FilterEvent) /\ Len(<<e>>) = 1 /\ <<e>>[1] = e
      BY <2>1
    <3>2. /\ all \in Seq(FilterEvent) /\ Len(all) = 1 + Len(es) /\ all[1] = e
          /\ \A i \in 1 .. Len(es) : all[i + 1] = es[i]
      <4> DEFINE u == <<e>>
      <4>1. u \in Seq(FilterEvent) /\ Len(u) = 1 /\ u[1] = e
        BY <3>1
      <4> HIDE DEF u
      <4>2. /\ u \o es \in Seq(FilterEvent) /\ Len(u \o es) = Len(u) + Len(es)
            /\ \A i \in 1 .. Len(u) + Len(es) :
                  (u \o es)[i] = IF i <= Len(u) THEN u[i] ELSE es[i - Len(u)]
        BY <4>1, ConcatProperties
      <4>3. Len(es) \in Nat
        OBVIOUS
      <4>4. (u \o es)[1] = u[1]
        BY <4>1, <4>2, <4>3
      <4>5. ASSUME NEW i \in 1 .. Len(es) PROVE (u \o es)[i + 1] = es[i]
        <5>1. i + 1 \in 1 .. Len(u) + Len(es) /\ ~(i + 1 <= Len(u)) /\ i + 1 - Len(u) = i
          BY <4>1, <4>3
        <5>2. (u \o es)[i + 1] = es[i + 1 - Len(u)]
          BY <4>2, <5>1
        <5> QED BY <5>1, <5>2
      <4> QED BY <4>1, <4>2, <4>4, <4>5 DEF u
    <3> HIDE DEF all
    <3>3. all # <<>> /\ Head(all) = e
      BY <3>2
    <3>4. Tail(all) \in Seq(FilterEvent) /\ Len(Tail(all)) = Len(es)
          /\ \A i \in 1 .. Len(es) : Tail(all)[i] = es[i]
      BY <3>2, <3>3, HeadTailProperties
    <3>5. Tail(all) = es
      BY <3>4, SeqEqual
    <3> QED BY <3>2, <3>3, <3>5
  <2> HIDE DEF all
  <2>4. TextOf(all) = Text[e] \o TextOf(es)
    BY <2>3, TextType, SaysGrows DEF TextOf
  <2> QED BY <2>1, <2>2, <2>4
<1> QED BY <1>1, <1>2

-----------------------------------------------------------------------------
\* What the filter returns is what a reader has seen.

Lead(inside) == IF inside THEN "</th" ELSE "<th"

\* A reader of the first k symbols of s, in which no tag ends.
Scanned(text, s, inside, k) ==
    LET held == k > 0 /\ s[k] = Lead(inside) IN
    [text |-> IF inside THEN text
              ELSE IF held THEN text \o SubSeq(s, 1, k - 1) ELSE text \o SubSeq(s, 1, k),
     inside |-> inside, held |-> held]

LEMMA Prefix ==
    ASSUME NEW A, NEW s \in Seq(A), NEW k \in 1 .. Len(s)
    PROVE  /\ SubSeq(s, 1, k - 1) \in Seq(A) /\ SubSeq(s, 1, k) \in Seq(A) /\ s[k] \in A
           /\ SubSeq(s, 1, k) = Append(SubSeq(s, 1, k - 1), s[k])
           /\ \A t \in Seq(A) : t \o SubSeq(s, 1, k) = Append(t \o SubSeq(s, 1, k - 1), s[k])
<1>1. Len(s) \in Nat /\ \A i \in 1 .. Len(s) : s[i] \in A
  OBVIOUS
<1>2. ASSUME NEW j \in 0 .. Len(s) PROVE SubSeq(s, 1, j) \in Seq(A)
  <2>1. \A i \in 1 .. j : s[i] \in A
    BY <1>1
  <2> QED BY <2>1, SubSeqProperties
<1>3. k - 1 \in 0 .. Len(s) /\ k \in 0 .. Len(s)
  BY <1>1
<1> DEFINE u == SubSeq(s, 1, k - 1)
           y == s[k]
<1>4. u \in Seq(A) /\ y \in A
  BY <1>1, <1>2, <1>3
<1>5. SubSeq(s, 1, k) = u \o <<y>>
  <2>1. 1 \in 1 .. Len(s) /\ k \in 1 .. Len(s)
    BY <1>1
  <2> QED BY <2>1, SubSeqRecursiveSecond
<1>6. SubSeq(s, 1, k) \in Seq(A)
  BY <1>2, <1>3
<1> HIDE DEF u, y
<1>7. u \o <<y>> = Append(u, y)
  BY <1>4, AppendIsConcat
<1>8. ASSUME NEW t \in Seq(A) PROVE t \o (u \o <<y>>) = Append(t \o u, y)
  <2>1. t \o u \in Seq(A)
    BY <1>4, ConcatProperties
  <2>2. Append(t \o u, y) = (t \o u) \o <<y>>
    BY <1>4, <2>1, AppendIsConcat
  <2> DEFINE v == <<y>>
  <2>3. t \in Seq(A) /\ u \in Seq(A) /\ v \in Seq(A)
    BY <1>4
  <2> HIDE DEF v
  <2>4. (t \o u) \o v = t \o (u \o v)
    BY ONLY <2>3
  <2> QED BY <2>2, <2>4 DEF v
<1> QED BY <1>4, <1>5, <1>6, <1>7, <1>8 DEF u, y

\* Readers with the same fields, and the fields of one that reads on.
LEMMA SameReader ==
    ASSUME NEW x \in Reader, NEW y \in Reader,
           x.text = y.text, x.inside <=> y.inside, x.held <=> y.held
    PROVE  x = y
  BY DEF Reader

LEMMA ReadFields ==
    ASSUME NEW x \in Reader, NEW y \in Symbol
    PROVE  IF x.held /\ y = "ink"
           THEN /\ Read(x, y).text = x.text
                /\ Read(x, y).inside <=> ~x.inside
                /\ ~Read(x, y).held
           ELSE LET t == IF x.held /\ ~x.inside THEN Append(x.text, "<th") ELSE x.text IN
                /\ Read(x, y).text = IF y = Lead(x.inside) \/ x.inside THEN t ELSE Append(t, y)
                /\ Read(x, y).inside <=> x.inside
                /\ Read(x, y).held <=> y = Lead(x.inside)
<1>1. CASE x.held /\ y = "ink"
  <2> DEFINE turned == ~x.inside
  <2>1. Read(x, y) = [x EXCEPT !.inside = turned, !.held = FALSE]
    BY <1>1 DEF Read
  <2>2. turned \in BOOLEAN /\ (turned <=> ~x.inside)
    OBVIOUS
  <2> HIDE DEF turned
  <2> QED BY <1>1, <2>1, <2>2 DEF Reader
<1>2. CASE ~(x.held /\ y = "ink")
  <2> DEFINE t == IF x.held /\ ~x.inside THEN Append(x.text, "<th") ELSE x.text
             lead == IF x.inside THEN "</th" ELSE "<th"
             more == IF y = lead \/ x.inside THEN t ELSE Append(t, y)
             held == y = lead
  <2>1. Read(x, y) = [text |-> more, inside |-> x.inside, held |-> held]
    BY <1>2 DEF Read
  <2>2. held \in BOOLEAN /\ (held <=> y = lead)
    OBVIOUS
  <2> HIDE DEF more, held
  <2>3. Read(x, y).text = more /\ (Read(x, y).inside <=> x.inside) /\ (Read(x, y).held <=> held)
    BY <2>1, <2>2
  <2> QED BY <1>2, <2>2, <2>3 DEF more, Lead
<1> QED BY <1>1, <1>2

LEMMA ScannedFields ==
    ASSUME NEW text \in Seq(Symbol), NEW s \in Seq(Symbol), NEW inside \in BOOLEAN,
           NEW k \in 0 .. Len(s)
    PROVE  LET x == Scanned(text, s, inside, k) IN
           /\ x \in Reader
           /\ x.inside <=> inside
           /\ x.held <=> k > 0 /\ s[k] = Lead(inside)
           /\ inside => x.text = text
           /\ ~inside /\ x.held => x.text = text \o SubSeq(s, 1, k - 1)
           /\ ~inside /\ ~x.held => x.text = text \o SubSeq(s, 1, k)
<1> DEFINE held == k > 0 /\ s[k] = Lead(inside)
           t == IF inside THEN text
                ELSE IF held THEN text \o SubSeq(s, 1, k - 1) ELSE text \o SubSeq(s, 1, k)
<1>1. Scanned(text, s, inside, k) = [text |-> t, inside |-> inside, held |-> held]
  BY DEF Scanned
<1>2. t \in Seq(Symbol)
  <2>1. text \o SubSeq(s, 1, k) \in Seq(Symbol)
    <3>1. CASE k = 0
      <4>1. SubSeq(s, 1, 0) = <<>>
        BY SubSeqEmpty
      <4> QED BY <3>1, <4>1, ConcatEmptySeq
    <3>2. CASE k # 0
      <4>1. k \in 1 .. Len(s)
        BY <3>2
      <4> QED BY <4>1, Prefix, ConcatProperties
    <3> QED BY <3>1, <3>2
  <2>2. held => text \o SubSeq(s, 1, k - 1) \in Seq(Symbol)
    <3>1. k > 0 => k \in 1 .. Len(s)
      OBVIOUS
    <3> QED BY <3>1, Prefix, ConcatProperties
  <2> QED BY <2>1, <2>2
<1>3. held \in BOOLEAN /\ (held <=> k > 0 /\ s[k] = Lead(inside))
  OBVIOUS
<1>4. /\ inside => t = text
      /\ ~inside /\ held => t = text \o SubSeq(s, 1, k - 1)
      /\ ~inside /\ ~held => t = text \o SubSeq(s, 1, k)
  OBVIOUS
<1> HIDE DEF held, t
<1> QED BY <1>1, <1>2, <1>3, <1>4 DEF Reader

\* One symbol more, if it does not end a tag.
LEMMA ScanOn ==
    ASSUME NEW text \in Seq(Symbol), NEW s \in Seq(Symbol), NEW inside \in BOOLEAN,
           NEW k \in 1 .. Len(s),
           ~(k > 1 /\ s[k - 1] = Lead(inside) /\ s[k] = "ink")
    PROVE  Read(Scanned(text, s, inside, k - 1), s[k]) = Scanned(text, s, inside, k)
<1> DEFINE x == Scanned(text, s, inside, k - 1)
           z == Scanned(text, s, inside, k)
           y == s[k]
           U == text \o SubSeq(s, 1, k - 1)
           t == IF x.held /\ ~x.inside THEN Append(x.text, "<th") ELSE x.text
<1>0. k \in Nat /\ k - 1 \in 0 .. Len(s) /\ k \in 0 .. Len(s) /\ Len(s) \in Nat
  OBVIOUS
<1>1. /\ x \in Reader
      /\ x.inside <=> inside
      /\ x.held <=> k - 1 > 0 /\ s[k - 1] = Lead(inside)
      /\ inside => x.text = text
      /\ ~inside /\ x.held => x.text = text \o SubSeq(s, 1, k - 1 - 1)
      /\ ~inside /\ ~x.held => x.text = U
  BY <1>0, ScannedFields
<1>2. /\ z \in Reader
      /\ z.inside <=> inside
      /\ z.held <=> y = Lead(inside)
      /\ inside => z.text = text
      /\ ~inside /\ z.held => z.text = U
      /\ ~inside /\ ~z.held => z.text = text \o SubSeq(s, 1, k)
  BY <1>0, ScannedFields
<1>3. y \in Symbol /\ text \o SubSeq(s, 1, k) = Append(U, y)
  BY Prefix
<1>4. ~inside => t = U
  <2>1. CASE ~x.held
    BY <1>1, <2>1
  <2>2. CASE ~inside /\ x.held
    <3>1. k - 1 \in 1 .. Len(s) /\ s[k - 1] = "<th"
      BY <1>0, <1>1, <2>2 DEF Lead
    <3>2. text \o SubSeq(s, 1, k - 1) = Append(text \o SubSeq(s, 1, k - 1 - 1), s[k - 1])
      BY <3>1, Prefix
    <3> QED BY <1>1, <2>2, <3>1, <3>2
  <2> QED BY <2>1, <2>2
<1>5. inside => t = text
  BY <1>1
<1>6. ~(x.held /\ y = "ink")
  BY <1>0, <1>1
<1>7. x.inside = inside /\ z.inside = inside
  BY <1>1, <1>2 DEF Reader
<1> HIDE DEF x, z, y, U
<1>8. /\ Read(x, y).text = IF y = Lead(x.inside) \/ x.inside THEN t ELSE Append(t, y)
      /\ Read(x, y).inside <=> x.inside
      /\ Read(x, y).held <=> y = Lead(x.inside)
  BY <1>1, <1>3, <1>6, ReadFields
<1> HIDE DEF t
<1>9. Read(x, y).text = z.text
  BY <1>2, <1>3, <1>4, <1>5, <1>7, <1>8
<1>10. (Read(x, y).inside <=> z.inside) /\ (Read(x, y).held <=> z.held)
  BY <1>2, <1>7, <1>8
<1>11. Read(x, y) \in Reader
  BY <1>1, <1>3, ReadType
<1>12. Read(x, y) = z
  BY <1>2, <1>9, <1>10, <1>11, SameReader
<1> QED BY <1>12 DEF x, y, z

LEMMA Scan ==
    ASSUME NEW x \in Reader, ~x.held, NEW s \in Seq(Symbol), NEW n \in 0 .. Len(s),
           \A j \in 1 .. n - 1 : ~(s[j] = Lead(x.inside) /\ s[j + 1] = "ink")
    PROVE  Seen[SubSeq(s, 1, n)][x] = Scanned(x.text, s, x.inside, n)
<1> DEFINE Bad == {k \in Nat : k <= n /\ Seen[SubSeq(s, 1, k)][x] # Scanned(x.text, s, x.inside, k)}
<1>1. SUFFICES ASSUME n \in Bad PROVE FALSE
  OBVIOUS
<1>2. PICK k \in Bad : \A m \in Bad : k <= m
  BY <1>1, Least
<1>3. x.text \in Seq(Symbol) /\ x.inside \in BOOLEAN /\ n \in Nat /\ Len(s) \in Nat /\ n <= Len(s)
  BY DEF Reader
<1>4. CASE k = 0
  <2>1. SubSeq(s, 1, 0) = <<>> /\ x.text \o <<>> = x.text
    BY <1>3, SubSeqEmpty, ConcatEmptySeq
  <2> DEFINE z == Scanned(x.text, s, x.inside, 0)
  <2>2. z \in Reader /\ z.text = x.text /\ (z.inside <=> x.inside) /\ ~z.held
    <3>1. 0 \in 0 .. Len(s) /\ ~(0 > 0)
      BY <1>3
    <3>2. /\ z \in Reader /\ (z.inside <=> x.inside) /\ ~z.held
          /\ x.inside => z.text = x.text
          /\ ~x.inside => z.text = x.text \o SubSeq(s, 1, 0)
      BY <1>3, <3>1, ScannedFields
    <3> QED BY <2>1, <3>2
  <2> HIDE DEF z
  <2>3. x = z
    BY <2>2, SameReader
  <2>4. Seen[<<>>][x] = x
    BY SeenReads
  <2> QED BY <1>2, <1>4, <2>1, <2>3, <2>4 DEF z
<1>5. CASE k # 0
  <2>1. k \in Nat /\ k <= n /\ k - 1 \in Nat /\ k - 1 \notin Bad
    BY <1>2, <1>5
  <2>2. Seen[SubSeq(s, 1, k - 1)][x] = Scanned(x.text, s, x.inside, k - 1)
    BY <1>3, <2>1
  <2>3. k \in 1 .. Len(s)
    BY <1>3, <1>5, <2>1
  <2>4. ~(k > 1 /\ s[k - 1] = Lead(x.inside) /\ s[k] = "ink")
    <3>1. k > 1 => k - 1 \in 1 .. n - 1 /\ k - 1 + 1 = k
      BY <1>3, <2>1
    <3> QED BY <3>1
  <2>5. Read(Scanned(x.text, s, x.inside, k - 1), s[k]) = Scanned(x.text, s, x.inside, k)
    BY <1>3, <2>3, <2>4, ScanOn
  <2>6. Seen[SubSeq(s, 1, k)][x] = Read(Seen[SubSeq(s, 1, k - 1)][x], s[k])
    <3>1. /\ SubSeq(s, 1, k - 1) \in Seq(Symbol) /\ s[k] \in Symbol
          /\ SubSeq(s, 1, k) = Append(SubSeq(s, 1, k - 1), s[k])
      BY <2>3, Prefix
    <3> DEFINE u == SubSeq(s, 1, k - 1)
               y == s[k]
    <3> HIDE DEF u, y
    <3>2. Seen[Append(u, y)][x] = Read(Seen[u][x], y)
      BY <3>1, SeenAppend DEF u, y
    <3> QED BY <3>1, <3>2 DEF u, y
  <2> QED BY <1>2, <2>2, <2>5, <2>6
<1> QED BY <1>4, <1>5

\* A reader goes on where it stopped.
LEMMA SeenConcat ==
    ASSUME NEW x \in Reader, NEW p \in Seq(Symbol)
    PROVE  \A s \in Seq(Symbol) : Seen[p \o s][x] = Seen[s][Seen[p][x]]
<1> DEFINE G == {s \in Seq(Symbol) : Seen[p \o s][x] = Seen[s][Seen[p][x]]}
<1>1. ASSUME NEW s \in Seq(Symbol), \A r \in Seq(Symbol) : Len(r) < Len(s) => r \in G
      PROVE  s \in G
  <2>1. Seen[p][x] \in Reader
    BY SeenReads
  <2>2. CASE s = <<>>
    <3>1. p \o <<>> = p
      BY ConcatEmptySeq
    <3> QED BY <2>1, <2>2, <3>1, SeenReads
  <2>3. CASE s # <<>>
    <3> DEFINE f == Front(s)
               y == Last(s)
    <3>1. f \in Seq(Symbol) /\ y \in Symbol /\ s = Append(f, y) /\ Len(f) < Len(s)
      BY <2>3, FrontLast
    <3>2. Seen[p \o f][x] = Seen[f][Seen[p][x]]
      BY <1>1, <3>1
    <3> HIDE DEF f, y, G
    <3>3. p \o Append(f, y) = Append(p \o f, y) /\ p \o f \in Seq(Symbol)
      <4>1. p \o f \in Seq(Symbol) /\ <<y>> \in Seq(Symbol)
        BY <3>1, ConcatProperties
      <4>2. Append(f, y) = f \o <<y>> /\ Append(p \o f, y) = (p \o f) \o <<y>>
        BY <3>1, <4>1, AppendIsConcat
      <4> DEFINE v == <<y>>
      <4> HIDE DEF v
      <4>3. (p \o f) \o v = p \o (f \o v)
        BY <3>1, <4>1, ConcatAssociative DEF v
      <4> QED BY <4>1, <4>2, <4>3 DEF v
    <3>4. Seen[p \o s][x] = Read(Seen[p \o f][x], y)
      BY <3>1, <3>3, SeenAppend
    <3>5. Seen[s][Seen[p][x]] = Read(Seen[f][Seen[p][x]], y)
      BY <2>1, <3>1, SeenReads
    <3> QED BY <3>2, <3>4, <3>5 DEF G
  <2> QED BY <2>2, <2>3
<1>2. \A s \in Seq(Symbol) : s \in G
  <2> HIDE DEF G
  <2> QED BY <1>1, ByLength
<1> QED BY <1>2

LEMMA TextOfOne ==
    ASSUME NEW type \in {"thinking", "chunk"}, NEW s \in Seq(Symbol)
    PROVE  TextOf(Event(type, s)) = IF type = "chunk" THEN s ELSE <<>>
<1> DEFINE e == Event(type, s)
           t == IF type = "chunk" THEN s ELSE <<>>
<1>1. e \in Seq(FilterEvent) /\ t \in Seq(Symbol) /\ <<>> \in Seq(FilterEvent)
  BY EventType
<1>2. TextOf(e \o <<>>) = t \o TextOf(<<>>)
  BY <1>1, TextOfEvent
<1>3. TextOf(<<>>) = <<>>
  BY <1>1, TextType, SaysGrows DEF TextOf
<1> HIDE DEF e, t
<1>4. e \o <<>> = e /\ t \o <<>> = t
  BY <1>1, ConcatEmptySeq
<1> QED BY <1>2, <1>3, <1>4 DEF e, t

\* A tag begins where its first symbol is followed by the second.
LEMMA HitsAre ==
    ASSUME NEW s \in Seq(Symbol), NEW inside \in BOOLEAN, NEW j \in 1 .. Len(s) - 1
    PROVE  j \in Hits(IF inside THEN CloseTag ELSE OpenTag, s)
              <=> s[j] = Lead(inside) /\ s[j + 1] = "ink"
<1>1. Len(s) \in Nat /\ \A i \in 1 .. Len(s) : s[i] \in Symbol
  OBVIOUS
<1>2. \A i \in j .. j + 1 : s[i] \in Symbol
  BY <1>1
<1> DEFINE u == SubSeq(s, j, j + 1)
<1>3. u \in Seq(Symbol) /\ Len(u) = 2 /\ u[1] = s[j] /\ u[2] = s[j + 1]
  <2>1. /\ u \in Seq(Symbol)
        /\ Len(u) = IF j <= j + 1 THEN j + 1 - j + 1 ELSE 0
        /\ \A i \in 1 .. j + 1 - j + 1 : u[i] = s[j + i - 1]
    BY <1>2, SubSeqProperties
  <2>2. j + 1 - j + 1 = 2 /\ j + 1 - 1 = j /\ j + 2 - 1 = j + 1 /\ j <= j + 1
    OBVIOUS
  <2> HIDE DEF u
  <2>3. Len(u) = 2 /\ 1 \in 1 .. j + 1 - j + 1 /\ 2 \in 1 .. j + 1 - j + 1
    BY <2>1, <2>2
  <2>4. u[1] = s[j + 1 - 1] /\ u[2] = s[j + 2 - 1]
    BY <2>1, <2>3
  <2> QED BY <2>1, <2>2, <2>3, <2>4
<1> HIDE DEF u
<1>4. \A lead : u = <<lead, "ink">> <=> u[1] = lead /\ u[2] = "ink"
  BY <1>3
<1>5. u = (IF inside THEN CloseTag ELSE OpenTag) <=> s[j] = Lead(inside) /\ s[j + 1] = "ink"
  BY <1>3, <1>4 DEF CloseTag, OpenTag, Lead
<1>6. j \in 1 .. Len(s) /\ j < Len(s)
  BY <1>1
<1> QED BY <1>5, <1>6 DEF Hits, u

\* The filter has returned of s what a reader x has seen of it, unless it ends
\* with the first half of a closing tag.
Follows(x, s) ==
    LET r == Process[s][x.inside]
        z == Seen[s][x]
    IN  ~(r.in_think /\ s # <<>> /\ Last(s) = "</th") =>
           /\ z.text = x.text \o TextOf(r.events)
           /\ z.inside <=> r.in_think
           /\ z.held <=> r.buffer # <<>>

LEMMA FollowsWithoutTag ==
    ASSUME NEW s \in Seq(Symbol), s # <<>>, NEW x \in Reader, ~x.held,
           Hits(IF x.inside THEN CloseTag ELSE OpenTag, s) = {}
    PROVE  Follows(x, s)
<1> DEFINE i == x.inside
           T == x.text
           n == Len(s)
           r == Process[s][i]
           z == Seen[s][x]
<1>0. i \in BOOLEAN /\ T \in Seq(Symbol) /\ n \in Nat /\ n > 0
  BY EmptySeq DEF Reader
<1>1. r = Loop(Process, s, i)
  BY <1>0, ProcessUnfolds
<1>2. z = Scanned(T, s, i, n)
  <2>1. \A j \in 1 .. n - 1 : ~(s[j] = Lead(i) /\ s[j + 1] = "ink")
    BY <1>0, HitsAre
  <2>2. SubSeq(s, 1, n) = s /\ n \in 0 .. Len(s)
    BY <1>0, SubSeqFull
  <2> QED BY <2>1, <2>2, Scan
<1>3. /\ z.inside <=> i
      /\ z.held <=> Last(s) = Lead(i)
      /\ i => z.text = T
      /\ ~i /\ z.held => z.text = T \o Front(s)
      /\ ~i /\ ~z.held => z.text = T \o s
  <2>1. n \in 0 .. Len(s) /\ SubSeq(s, 1, n) = s /\ n > 0
    BY <1>0, SubSeqFull
  <2> HIDE DEF n, z
  <2>2. /\ z.inside <=> i
        /\ z.held <=> n > 0 /\ s[n] = Lead(i)
        /\ i => z.text = T
        /\ ~i /\ z.held => z.text = T \o SubSeq(s, 1, n - 1)
        /\ ~i /\ ~z.held => z.text = T \o SubSeq(s, 1, n)
    <3> DEFINE w == Scanned(T, s, i, n)
    <3>1. /\ w.inside <=> i
          /\ w.held <=> n > 0 /\ s[n] = Lead(i)
          /\ i => w.text = T
          /\ ~i /\ w.held => w.text = T \o SubSeq(s, 1, n - 1)
          /\ ~i /\ ~w.held => w.text = T \o SubSeq(s, 1, n)
      <4>1. /\ i \in BOOLEAN /\ T \in Seq(Symbol) /\ s \in Seq(Symbol)
            /\ n \in 0 .. Len(s)
        BY <1>0, <2>1
      <4> HIDE DEF i, T, w
      <4> QED BY ONLY <4>1, ScannedFields DEF w
    <3>2. z = w
      BY <1>2
    <3> HIDE DEF w
    <3> QED BY <3>1, <3>2
  <2>3. s[n] = Last(s) /\ SubSeq(s, 1, n - 1) = Front(s)
    BY DEF Last, Front, n
  <2> QED BY <2>1, <2>2, <2>3
<1>4. T \o <<>> = T
  BY <1>0, ConcatEmptySeq
<1>5. CASE ~i /\ PartialOpen(s)
  <2>1. r = [events |-> Event("chunk", Front(s)), buffer |-> <<Last(s)>>, in_think |-> FALSE]
    BY <1>1, <1>5 DEF Loop
  <2>2. Last(s) = Lead(i)
    BY <1>5 DEF PartialOpen, Lead
  <2>3. Front(s) \in Seq(Symbol) /\ TextOf(Event("chunk", Front(s))) = Front(s)
    BY FrontLast, TextOfOne
  <2>4. <<Last(s)>> # <<>>
    OBVIOUS
  <2>5. r.events = Event("chunk", Front(s)) /\ r.buffer = <<Last(s)>> /\ ~r.in_think
    BY <2>1
  <2> HIDE DEF r, z
  <2> QED BY <1>3, <1>5, <2>2, <2>3, <2>4, <2>5 DEF Follows, r, z
<1>6. CASE ~i /\ ~PartialOpen(s)
  <2>1. r = [events |-> Event("chunk", s), buffer |-> <<>>, in_think |-> FALSE]
    BY <1>0, <1>1, <1>6 DEF Loop
  <2>2. Last(s) # Lead(i)
    BY <1>6 DEF PartialOpen, Lead
  <2>3. TextOf(Event("chunk", s)) = s
    BY TextOfOne
  <2>4. r.events = Event("chunk", s) /\ r.buffer = <<>> /\ ~r.in_think
    BY <2>1
  <2> HIDE DEF r, z
  <2> QED BY <1>3, <1>6, <2>2, <2>3, <2>4 DEF Follows, r, z
<1>7. CASE i
  <2>1. r = [events |-> Event("thinking", s), buffer |-> <<>>, in_think |-> i]
    BY <1>1, <1>7 DEF Loop
  <2>2. Lead(i) = "</th"
    BY <1>7 DEF Lead
  <2>3. TextOf(Event("thinking", s)) = <<>>
    BY TextOfOne
  <2>4. r.events = Event("thinking", s) /\ r.buffer = <<>> /\ r.in_think
    BY <1>7, <2>1
  <2> HIDE DEF r, z
  <2> QED BY <1>3, <1>4, <1>7, <2>2, <2>3, <2>4 DEF Follows, r, z
<1> QED BY <1>0, <1>5, <1>6, <1>7

LEMMA FollowsTag ==
    ASSUME NEW s \in Seq(Symbol), NEW x \in Reader, ~x.held,
           Hits(IF x.inside THEN CloseTag ELSE OpenTag, s) # {},
           \A rest \in Seq(Symbol), y \in Reader :
              Len(rest) < Len(s) /\ ~y.held => Follows(y, rest)
    PROVE  Follows(x, s)
<1> DEFINE i == x.inside
           T == x.text
           tag == IF i THEN CloseTag ELSE OpenTag
           type == IF i THEN "thinking" ELSE "chunk"
           hit == Min(Hits(tag, s))
           first == SubSeq(s, 1, hit - 1)
           rest == SubSeq(s, hit + 2, Len(s))
           more == Process[rest][~i]
           r == Process[s][i]
           z == Seen[s][x]
           w == Seen[SubSeq(s, 1, hit)][x]
           y == Seen[SubSeq(s, 1, hit + 1)][x]
           said == IF type = "chunk" THEN first ELSE <<>>
<1>0. i \in BOOLEAN /\ T \in Seq(Symbol) /\ Len(s) \in Nat
  BY DEF Reader
<1>1. /\ hit \in 1 .. Len(s) - 1
      /\ SubSeq(s, hit, hit + 1) = tag
      /\ \A j \in Hits(tag, s) : hit <= j
      /\ first \in Seq(Symbol) /\ rest \in Seq(Symbol)
      /\ Len(rest) = Len(s) - hit - 1
      /\ Len(rest) < Len(s)
  BY FirstHit
<1>2. r = [more EXCEPT !.events = Event(type, first) \o @]
  <2>1. s # <<>>
    BY <1>0, <1>1
  <2>2. r = Loop(Process, s, i)
    BY <1>0, ProcessUnfolds
  <2> QED BY <2>1, <2>2 DEF Loop
<1>3. more \in Output
  <2>1. (~i) \in BOOLEAN
    OBVIOUS
  <2> HIDE DEF rest
  <2> QED BY <1>1, <2>1, ProcessType
<1> HIDE DEF hit
<1>4. s[hit] = Lead(i) /\ s[hit + 1] = "ink"
  <2>1. hit \in Hits(tag, s)
    BY <1>0, <1>1 DEF Hits
  <2> QED BY <1>0, <1>1, <2>1, HitsAre
<1>5. \A j \in 1 .. hit - 1 : ~(s[j] = Lead(i) /\ s[j + 1] = "ink")
  <2> SUFFICES ASSUME NEW j \in 1 .. hit - 1, s[j] = Lead(i), s[j + 1] = "ink" PROVE FALSE
    OBVIOUS
  <2>1. j \in 1 .. Len(s) - 1
    BY <1>0, <1>1
  <2>2. j \in Hits(tag, s)
    BY <1>0, <2>1, HitsAre
  <2> QED BY <1>1, <2>2
<1>6. w \in Reader /\ w.held /\ (w.inside <=> i) /\ w.text = IF i THEN T ELSE T \o first
  <2>1. hit \in 0 .. Len(s) /\ hit > 0
    BY <1>0, <1>1
  <2>2. w = Scanned(T, s, i, hit)
    BY <1>5, <2>1, Scan
  <2> DEFINE v == Scanned(T, s, i, hit)
  <2>3. /\ v \in Reader
        /\ v.inside <=> i
        /\ v.held <=> hit > 0 /\ s[hit] = Lead(i)
        /\ i => v.text = T
        /\ ~i /\ v.held => v.text = T \o first
    <3> HIDE DEF i, T
    <3> QED BY <1>0, <2>1, ScannedFields
  <2>4. w = v
    BY <2>2
  <2> HIDE DEF v, w
  <2> QED BY <1>4, <2>1, <2>3, <2>4
<1>7. y \in Reader /\ ~y.held /\ (y.inside <=> ~i) /\ y.text = w.text
  <2>1. hit + 1 \in 1 .. Len(s) /\ hit + 1 - 1 = hit
    BY <1>0, <1>1
  <2>2. /\ SubSeq(s, 1, hit) \in Seq(Symbol) /\ "ink" \in Symbol
        /\ SubSeq(s, 1, hit + 1) = Append(SubSeq(s, 1, hit), "ink")
    <3> DEFINE k == hit + 1
    <3>1. k \in 1 .. Len(s) /\ k - 1 = hit /\ s[k] = "ink"
      BY <1>0, <1>1, <1>4, <2>1
    <3>2. /\ SubSeq(s, 1, k - 1) \in Seq(Symbol)
          /\ SubSeq(s, 1, k) = Append(SubSeq(s, 1, k - 1), s[k])
      <4> HIDE DEF k
      <4> QED BY <3>1, Prefix
    <3>3. "ink" \in Symbol
      BY DEF Symbol
    <3>4. SubSeq(s, 1, k - 1) = SubSeq(s, 1, hit)
      <4> HIDE DEF k
      <4> QED BY <3>1
    <3>5. SubSeq(s, 1, hit + 1) = Append(SubSeq(s, 1, hit), "ink")
      <4>1. SubSeq(s, 1, k) = Append(SubSeq(s, 1, hit), "ink")
        <5> HIDE DEF k
        <5> QED BY <3>1, <3>2, <3>4
      <4> QED BY <4>1
    <3> HIDE DEF k
    <3> QED BY <3>2, <3>3, <3>4, <3>5
  <2>3. y = Read(w, "ink")
    BY <2>2, SeenAppend
  <2> HIDE DEF w, y, i
  <2>4. /\ Read(w, "ink").text = w.text
        /\ Read(w, "ink").inside <=> ~w.inside
        /\ ~Read(w, "ink").held
    BY <1>6, <2>2, ReadFields
  <2>5. Read(w, "ink") \in Reader
    BY <1>6, <2>2, ReadType
  <2> QED BY <1>6, <2>3, <2>4, <2>5
<1>8. z = Seen[rest][y]
  <2>1. hit + 1 \in 0 .. Len(s) /\ hit + 1 + 1 = hit + 2 /\ hit + 1 \in 1 .. Len(s)
    BY <1>0, <1>1
  <2>2. SubSeq(s, 1, hit + 1) \o SubSeq(s, hit + 2, Len(s)) = s
    <3>1. 1 \in 1 .. Len(s) + 1 /\ hit + 1 \in 1 - 1 .. Len(s) /\ Len(s) \in hit + 1 .. Len(s)
      BY <1>0, <2>1
    <3>2. SubSeq(s, 1, hit + 1) \o SubSeq(s, hit + 1 + 1, Len(s)) = SubSeq(s, 1, Len(s))
      BY <3>1, ConcatAdjacentSubSeq
    <3> QED BY <2>1, <3>2, SubSeqFull
  <2>3. SubSeq(s, 1, hit + 1) \in Seq(Symbol)
    BY <2>1, Prefix
  <2> DEFINE p == SubSeq(s, 1, hit + 1)
  <2> HIDE DEF p, rest
  <2>4. Seen[p \o rest][x] = Seen[rest][Seen[p][x]]
    BY <1>1, <2>3, SeenConcat DEF p
  <2> QED BY <2>2, <2>4 DEF p, rest
<1>9. Follows(y, rest)
  <2> HIDE DEF rest, y
  <2> QED BY <1>1, <1>7
<1>10. (~i) = y.inside
  <2> HIDE DEF y, i
  <2> QED BY <1>0, <1>7 DEF Reader
<1>11. /\ r.buffer = more.buffer /\ (r.in_think <=> more.in_think)
       /\ TextOf(r.events) = said \o TextOf(more.events)
       /\ said \in Seq(Symbol) /\ TextOf(more.events) \in Seq(Symbol)
  <2> DEFINE e == Event(type, first)
  <2> HIDE DEF more, r, e
  <2>1. r = [more EXCEPT !.events = e \o @]
    BY <1>2 DEF e
  <2>2. more.events \in Seq(FilterEvent)
    BY <1>3 DEF Output
  <2>3. r.events = e \o more.events /\ r.buffer = more.buffer /\ (r.in_think <=> more.in_think)
    BY <1>3, <2>1 DEF Output
  <2>4. TextOf(e \o more.events) = said \o TextOf(more.events)
    <3> HIDE DEF first
    <3> QED BY <1>1, <2>2, TextOfEvent DEF e
  <2>5. said \in Seq(Symbol)
    BY <1>1
  <2>6. TextOf(more.events) \in Seq(Symbol)
    BY <2>2, TextType, SaysGrows DEF TextOf
  <2> QED BY <2>3, <2>4, <2>5, <2>6
<1>12. SUFFICES ASSUME ~(r.in_think /\ s # <<>> /\ Last(s) = "</th")
                PROVE  /\ z.text = T \o TextOf(r.events)
                       /\ z.inside <=> r.in_think
                       /\ z.held <=> r.buffer # <<>>
  BY DEF Follows
<1>13. ~(more.in_think /\ rest # <<>> /\ Last(rest) = "</th")
  <2>1. ASSUME rest # <<>> PROVE Last(rest) = Last(s) /\ s # <<>>
    <3> DEFINE m == Len(rest)
    <3>1. m \in Nat /\ m > 0 /\ m = Len(s) - hit - 1
      <4> HIDE DEF rest
      <4> QED BY <1>1, <2>1, EmptySeq
    <3>2. m \in 1 .. Len(s) - (hit + 2) + 1 /\ hit + 2 + m - 1 = Len(s)
      <4> HIDE DEF rest, m
      <4>1. hit \in Int /\ Len(s) \in Int /\ m \in Int
        BY <1>0, <1>1, <3>1
      <4> QED BY <3>1, <4>1
    <3>3. \A k \in hit + 2 .. Len(s) : s[k] \in Symbol
      BY <1>0, <1>1
    <3>4. \A k \in 1 .. Len(s) - (hit + 2) + 1 : rest[k] = s[hit + 2 + k - 1]
      BY <1>0, <1>1, <3>3, SubSeqProperties
    <3> HIDE DEF rest, m
    <3>5. rest[m] = s[Len(s)]
      BY <3>2, <3>4
    <3>6. s # <<>>
      BY <1>0, <1>1
    <3> QED BY <3>5, <3>6 DEF Last, m
  <2> HIDE DEF rest, more, r
  <2> QED BY <1>11, <1>12, <2>1
<1>14. /\ z.text = y.text \o TextOf(more.events)
       /\ z.inside <=> more.in_think
       /\ z.held <=> more.buffer # <<>>
  <2>1. Process[rest][y.inside] = more
    BY <1>10
  <2> HIDE DEF rest, more, y, z
  <2> QED BY <1>8, <1>9, <1>13, <2>1 DEF Follows
<1>15. y.text = T \o said
  <2>1. T \o <<>> = T
    BY <1>0, ConcatEmptySeq
  <2> HIDE DEF y, w, first
  <2> QED BY <1>6, <1>7, <2>1
<1>16. (T \o said) \o TextOf(more.events) = T \o (said \o TextOf(more.events))
  <2> DEFINE m == TextOf(more.events)
  <2>1. T \in Seq(Symbol) /\ said \in Seq(Symbol) /\ m \in Seq(Symbol)
    BY <1>0, <1>11
  <2>2. (T \o said) \o m = T \o (said \o m)
    <3> HIDE DEF said, T, m
    <3> QED BY <2>1, ConcatAssociative
  <2> QED BY <2>2
<1> HIDE DEF r, more, y, z, said, T
<1> QED BY <1>11, <1>14, <1>15, <1>16

\* However long the chunk and wherever its tags are.
LEMMA FilterFollows == \A s \in Seq(Symbol), x \in Reader : ~x.held => Follows(x, s)
<1> DEFINE G == {s \in Seq(Symbol) : \A x \in Reader : ~x.held => Follows(x, s)}
<1>1. ASSUME NEW s \in Seq(Symbol), \A r \in Seq(Symbol) : Len(r) < Len(s) => r \in G
      PROVE  s \in G
  <2> SUFFICES ASSUME NEW x \in Reader, ~x.held PROVE Follows(x, s)
    OBVIOUS
  <2>1. CASE s = <<>>
    <3>1. x.inside \in BOOLEAN /\ x.text \in Seq(Symbol) /\ <<>> \in Seq(FilterEvent)
      BY DEF Reader
    <3>2. Process[<<>>][x.inside] = [events |-> <<>>, buffer |-> <<>>, in_think |-> x.inside]
      BY <2>1, <3>1, ProcessUnfolds DEF Loop
    <3>3. Seen[<<>>][x] = x
      BY SeenReads
    <3>4. TextOf(<<>>) = <<>> /\ x.text \o <<>> = x.text
      BY <3>1, TextType, SaysGrows, ConcatEmptySeq DEF TextOf
    <3> DEFINE r == Process[<<>>][x.inside]
               i == x.inside
    <3>5. r.events = <<>> /\ r.buffer = <<>> /\ r.in_think = i
      BY <3>2
    <3>6. Seen[<<>>][x].text = x.text \o TextOf(r.events)
      <4> HIDE DEF r
      <4> QED BY <3>3, <3>4, <3>5
    <3>7. Seen[<<>>][x].inside <=> r.in_think
      <4> HIDE DEF r
      <4> QED BY <3>3, <3>5 DEF i
    <3>8. Seen[<<>>][x].held <=> r.buffer # <<>>
      <4> HIDE DEF r
      <4> QED BY <3>3, <3>5
    <3> HIDE DEF r, i
    <3> QED BY <2>1, <3>6, <3>7, <3>8 DEF Follows, r
  <2>2. CASE s # <<>> /\ Hits(IF x.inside THEN CloseTag ELSE OpenTag, s) = {}
    BY <2>2, FollowsWithoutTag
  <2>3. CASE Hits(IF x.inside THEN CloseTag ELSE OpenTag, s) # {}
    <3>1. \A rest \in Seq(Symbol), y \in Reader :
             Len(rest) < Len(s) /\ ~y.held => Follows(y, rest)
      BY <1>1
    <3> HIDE DEF G
    <3> QED BY <2>3, <3>1, FollowsTag
  <2> QED BY <2>1, <2>2, <2>3
<1>2. \A s \in Seq(Symbol) : s \in G
  <2> HIDE DEF G
  <2> QED BY <1>1, ByLength
<1> QED BY <1>2

\* The reader x is where a filter with this buffer is.
Keeps(x, buffer) ==
    /\ buffer = <<>> \/ (buffer = <<"<th">> /\ ~x.inside)
    /\ x.held <=> buffer # <<>>

\* What comes last in two sequences, the second not empty.
LEMMA LastOfConcat ==
    ASSUME NEW A, NEW p \in Seq(A), NEW s \in Seq(A), s # <<>>
    PROVE  p \o s # <<>> /\ Last(p \o s) = Last(s) /\ p \o s \in Seq(A)
<1>1. Len(p \o s) = Len(p) + Len(s) /\ Len(p) \in Nat /\ Len(s) \in Nat /\ p \o s \in Seq(A)
  BY ConcatProperties
<1>2. Len(s) > 0
  BY <1>1, EmptySeq
<1>3. p \o s # <<>>
  <2>1. Len(p \o s) > 0
    BY <1>1, <1>2
  <2> QED BY <2>1, EmptySeq
<1>4. (p \o s)[Len(p \o s)] = s[Len(s)]
  BY <1>1, <1>2
<1> QED BY <1>1, <1>3, <1>4 DEF Last

LEMMA Holding ==
    ASSUME NEW x \in Reader, x.held, ~x.inside
    PROVE  \E y \in Reader : /\ ~y.held /\ ~y.inside /\ y.text = x.text
                             /\ Seen[<<"<th">>][y] = x
<1> DEFINE y == [text |-> x.text, inside |-> FALSE, held |-> FALSE]
<1>1. y \in Reader /\ y.text = x.text /\ ~y.inside /\ ~y.held /\ x.text \in Seq(Symbol)
  BY DEF Reader
<1>2. "<th" \in Symbol /\ <<>> \in Seq(Symbol) /\ Append(<<>>, "<th") = <<"<th">>
  BY DEF Symbol
<1> HIDE DEF y
<1>3. Seen[<<"<th">>][y] = Read(y, "<th")
  <2>1. Seen[Append(<<>>, "<th")][y] = Read(Seen[<<>>][y], "<th")
    BY <1>1, <1>2, SeenAppend
  <2>2. Seen[<<>>][y] = y
    BY <1>1, SeenReads
  <2> QED BY <1>2, <2>1, <2>2
<1>4. /\ Read(y, "<th").text = y.text
      /\ Read(y, "<th").inside <=> y.inside
      /\ Read(y, "<th").held
  BY <1>1, <1>2, ReadFields DEF Lead
<1>5. Read(y, "<th") \in Reader
  BY <1>1, <1>2, ReadType
<1>6. Read(y, "<th") = x
  <2> DEFINE z == Read(y, "<th")
  <2> HIDE DEF z
  <2> QED BY <1>1, <1>4, <1>5, SameReader DEF z
<1> QED BY <1>1, <1>3, <1>6

\* process() of any chunk takes a filter from where a reader is to where that
\* reader is when it has seen the chunk, and returns the text it has added; but
\* for a chunk that ends within a closing tag.
THEOREM FilterResumes ==
    ASSUME NEW x \in Reader, NEW buffer \in Seq(Symbol), Keeps(x, buffer),
           NEW c \in Seq(Symbol), c # <<>>,
           ~(Process[buffer \o c][x.inside].in_think /\ Last(c) = "</th")
    PROVE  /\ Seen[c][x].text = x.text \o TextOf(Process[buffer \o c][x.inside].events)
           /\ Seen[c][x].inside <=> Process[buffer \o c][x.inside].in_think
           /\ Keeps(Seen[c][x], Process[buffer \o c][x.inside].buffer)
<1> DEFINE s == buffer \o c
           r == Process[s][x.inside]
           z == Seen[c][x]
<1>1. s # <<>> /\ Last(s) = Last(c) /\ s \in Seq(Symbol)
  BY LastOfConcat
<1>2. PICK y \in Reader : /\ ~y.held /\ (y.inside <=> x.inside) /\ y.text = x.text
                          /\ Seen[s][y] = z
  <2>1. CASE buffer = <<>>
    <3>1. s = c
      BY <2>1, ConcatEmptySeq
    <3>2. ~x.held
      BY <2>1 DEF Keeps
    <3> HIDE DEF s
    <3> QED BY <3>1, <3>2
  <2>2. CASE buffer # <<>>
    <3>1. buffer = <<"<th">> /\ ~x.inside /\ x.held
      BY <2>2 DEF Keeps
    <3>2. PICK y \in Reader : /\ ~y.held /\ ~y.inside /\ y.text = x.text
                              /\ Seen[<<"<th">>][y] = x
      BY <3>1, Holding
    <3>3. Seen[buffer \o c][y] = Seen[c][Seen[buffer][y]]
      BY SeenConcat
    <3>4. Seen[s][y] = z
      BY <3>1, <3>2, <3>3
    <3> HIDE DEF s, z
    <3> QED BY <3>1, <3>2, <3>4
  <2> QED BY <2>1, <2>2
<1>3. Process[s][y.inside] = r
  <2>1. y.inside = x.inside
    BY <1>2 DEF Reader
  <2> HIDE DEF s
  <2> QED BY <2>1
<1>4. r \in Output
  <2>1. x.inside \in BOOLEAN
    BY DEF Reader
  <2> HIDE DEF s
  <2> QED BY <1>1, <2>1, ProcessType
<1>5. ~(r.in_think /\ Last(s) = "</th")
  BY <1>1
<1>6. /\ z.text = x.text \o TextOf(r.events)
      /\ z.inside <=> r.in_think
      /\ z.held <=> r.buffer # <<>>
  <2>1. Follows(y, s)
    <3> HIDE DEF s
    <3> QED BY <1>1, <1>2, FilterFollows
  <2> HIDE DEF s, r, z
  <2> QED BY <1>1, <1>2, <1>3, <1>5, <2>1 DEF Follows
<1>7. Keeps(z, r.buffer)
  <2>1. r.buffer = <<>> \/ (r.buffer = <<"<th">> /\ ~r.in_think)
    <3> HIDE DEF r
    <3> QED BY <1>4 DEF Output
  <2> HIDE DEF r, z
  <2> QED BY <1>6, <2>1 DEF Keeps
<1> QED BY <1>6, <1>7

\* flush() returns the rest of what is visible.
THEOREM FlushShows ==
    ASSUME NEW said \in Seq(Symbol), NEW x \in Reader, x = Seen[said][Unread],
           NEW buffer \in Seq(Symbol), Keeps(x, buffer)
    PROVE  Visible(said) = x.text \o TextOf(Flush(buffer, x.inside))
<1>1. x.text \in Seq(Symbol) /\ "<th" \in Symbol
  BY DEF Reader, Symbol
<1>2. Visible(said) = IF x.held /\ ~x.inside THEN Append(x.text, "<th") ELSE x.text
  BY DEF Visible
<1>3. CASE buffer = <<>>
  <2>1. Flush(buffer, x.inside) = <<>> /\ <<>> \in Seq(FilterEvent)
    BY <1>3 DEF Flush, Event
  <2>2. TextOf(<<>>) = <<>>
    BY <2>1, TextType, SaysGrows DEF TextOf
  <2>3. ~x.held
    BY <1>3 DEF Keeps
  <2>4. x.text \o <<>> = x.text
    BY <1>1, ConcatEmptySeq
  <2> QED BY <1>2, <2>1, <2>2, <2>3, <2>4
<1>4. CASE buffer # <<>>
  <2>1. buffer = <<"<th">> /\ ~x.inside /\ x.held
    BY <1>4 DEF Keeps
  <2>2. Flush(buffer, x.inside) = Event("chunk", buffer)
    BY <2>1 DEF Flush
  <2>3. TextOf(Event("chunk", buffer)) = buffer
    BY TextOfOne
  <2>4. Append(x.text, "<th") = x.text \o <<"<th">>
    BY <1>1, AppendIsConcat
  <2> QED BY <1>2, <2>1, <2>2, <2>3, <2>4
<1> QED BY <1>3, <1>4
=============================================================================
