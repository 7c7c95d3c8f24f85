------------------------- MODULE MCConversationView -------------------------
(***************************************************************************)
(* ConversationView for TLC.                                               *)
(***************************************************************************)
EXTENDS ConversationView, FiniteSetsExt, TLC

CONSTANTS MaxUsed, MaxMessages

\* What the tab has not touched yet.
Untouched ==
    /\ trail = {At(Home)}
    /\ target = [x \in Text |-> Home]
    /\ \A c \in Conv : ~create[c].on /\ ~removal[c].on

Used == {c \in Conv : ~Unused(c)}
Stored == FoldSet(LAMBDA c, n : n + Len(messages[c]), 0, Conv)

Plain ==
    /\ Stored <= 1 /\ redone = {}
    /\ \A c \in Conv : row[c].state # "gone" /\ ~removal[c].on

Brief ==
    /\ Plain
    /\ \E t \in Turn : turn[t].pc = "idle"
    /\ Cardinality({c \in Conv : fetch[c].pc # "none"}) <= 1

\* The list is read while the tab rests, and the tab works while the clock does: on
\* one conversation with some messages, or on two with one.
Apart ==
    \/ Untouched
    \/ /\ now = 0 /\ reader.pc = "begin"
       /\ \A c \in Conv : ~row[c].is_archived
       /\ Used \subseteq 1 .. MaxUsed
       /\ Stored <= MaxMessages
       /\ Cardinality(Used) > 1 => Brief
       /\ (\A t \in Turn : turn[t].pc # "idle") => Plain

Symmetric == Permutations(Text) \cup Permutations(Turn)
=============================================================================
