---------------------------- MODULE MCChatStream ----------------------------
(***************************************************************************)
(* ChatStream for TLC.                                                     *)
(***************************************************************************)
EXTENDS ChatStream, TLC

\* Chunks that end before, within and after a tag.
Chunks == {<<y>> : y \in Symbol} \cup {<<y, z>> : y, z \in Symbol}

\* What a model says matters to its own turn alone.  One turn of a conversation that
\* is not deleted and that is read as it was said has all of MaxSymbols for it; one that
\* is not has four symbols, any other turn one, two turns at a time none.
Brief == Spoken <= 1 /\ \A i \in DOMAIN table : Len(table[i].content) <= 1

Quiet ==
    /\ Cardinality({t \in Turn : gen[t].pc # "idle"}) > 1 => Spoken = 0
    /\ Cardinality(UserRows) + Cardinality({t \in Turn : gen[t].pc = "checked"}) > 1 => Brief
    /\ ~exists \/ (\E t \in Turn : gen[t].pc \in {"cut", "cancelling", "unsaved"}) => Brief
    /\ (\E t \in Turn : garbled[t]) => Spoken <= 4

Symmetric == Permutations(Turn)
=============================================================================
