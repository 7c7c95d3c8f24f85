-------------------------- MODULE MCShortTermMemory --------------------------
(***************************************************************************)
(* ShortTermMemory for TLC.                                                *)
(***************************************************************************)
EXTENDS ShortTermMemory, TLC

\* Room for one and for two messages beyond those kept, and none.
MCSettings ==
    {[window_size |-> w, summary_threshold |-> 1] : w \in 2 .. 5}

\* The defaults, 20 and 15 with 5 to spare, on a scale of one to five.
Defaults == {[window_size |-> 4, summary_threshold |-> 3]}

Symmetric == Permutations(Task)
=============================================================================
