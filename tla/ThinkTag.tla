------------------------------ MODULE ThinkTag ------------------------------
(***************************************************************************)
(* ThinkTagFilter (services/event_mapper.py): splits what a language model *)
(* says into thinking and visible text, chunk by chunk, and holds back the *)
(* start of a tag until the next chunk tells what it is.                   *)
(*                                                                         *)
(* A tag is two symbols, "<think>" = "<th" "ink" and "</think>" = "</th"   *)
(* "ink", so that a chunk may end within one; "x" is any other text.       *)
(***************************************************************************)
EXTENDS Integers, Sequences, SequencesExt

Symbol == {"<th", "</th", "ink", "x"}
OpenTag == <<"<th", "ink">>
CloseTag == <<"</th", "ink">>

\* Where a tag begins in s.
Hits(tag, s) == {i \in 1..Len(s) : i < Len(s) /\ SubSeq(s, i, i + 1) = tag}

FilterEvent == [type : {"thinking", "chunk"}, content : Seq(Symbol)]

Event(type, s) == IF s = <<>> THEN <<>> ELSE <<[type |-> type, content |-> s]>>

\* Mutant of PartialOpen: nothing is held back.
NeverPartial(s) == FALSE

\* A partial "<think" at the tail, which process() keeps for the next chunk.
PartialOpen(s) == Last(s) = "<th"

\* The loop of process() over its buffer s, inside a tag or not: the events it
\* returns, the buffer it keeps, and whether it ends inside a tag.
Process[s \in Seq(Symbol)] == [inside \in BOOLEAN |->
    LET tag == IF inside THEN CloseTag ELSE OpenTag
        type == IF inside THEN "thinking" ELSE "chunk"
        hit == Min(Hits(tag, s))
        rest == Process[SubSeq(s, hit + 2, Len(s))][~inside]
    IN  IF s = <<>>
        THEN [events |-> <<>>, buffer |-> <<>>, in_think |-> inside]
        ELSE IF Hits(tag, s) # {}
        THEN [rest EXCEPT !.events = Event(type, SubSeq(s, 1, hit - 1)) \o @]
        ELSE IF ~inside /\ PartialOpen(s)
        THEN [events |-> Event(type, Front(s)), buffer |-> <<Last(s)>>,
              in_think |-> FALSE]
        ELSE [events |-> Event(type, s), buffer |-> <<>>, in_think |-> inside]]

\* What flush() returns at the end of a stream.
Flush(buffer, inside) == Event(IF inside THEN "thinking" ELSE "chunk", buffer)

-----------------------------------------------------------------------------
\* The reference: the text outside of the tags, read symbol by symbol from the
\* whole of what was said.  A reader has the text so far, is inside a tag or not,
\* and may have met what could be the first half of the next one.
Reader == [text : Seq(Symbol), inside : BOOLEAN, held : BOOLEAN]

Unread == [text |-> <<>>, inside |-> FALSE, held |-> FALSE]

Read(seen, y) ==
    LET lead == IF seen.inside THEN "</th" ELSE "<th"
        text == IF seen.held /\ ~seen.inside THEN Append(seen.text, "<th")
                                             ELSE seen.text
    IN  IF seen.held /\ y = "ink"
        THEN [seen EXCEPT !.inside = ~@, !.held = FALSE]
        ELSE [text |-> IF y = lead \/ seen.inside THEN text ELSE Append(text, y),
              inside |-> seen.inside, held |-> y = lead]

\* The reader after s, from the reader x.
Seen[s \in Seq(Symbol)] == [x \in Reader |->
    IF s = <<>> THEN x ELSE Read(Seen[Front(s)][x], Last(s))]

Visible(said) ==
    LET end == Seen[said][Unread]
    IN  IF end.held /\ ~end.inside THEN Append(end.text, "<th") ELSE end.text
=============================================================================
