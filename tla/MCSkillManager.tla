--------------------------- MODULE MCSkillManager ---------------------------
(***************************************************************************)
(* SkillManager for TLC.                                                   *)
(***************************************************************************)
EXTENDS SkillManager, TLC

Symmetric ==
    Permutations(Process) \cup Permutations(Row) \cup Permutations(Name)
        \cup Permutations(Version) \cup Permutations(Task)

\* The table and the memory are compared only while no process starts beside
\* another.
NotCrowded == ~crowded
=============================================================================
