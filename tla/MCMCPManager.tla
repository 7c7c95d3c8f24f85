---------------------------- MODULE MCMCPManager ----------------------------
(***************************************************************************)
(* MCPManager for TLC.  Of three names, <<a>> is a prefix of <<a, b>>, and *)
(* <<z>> is separate from both.                                            *)
(***************************************************************************)
EXTENDS MCPManager, TLC

CONSTANTS a, b, z   \* segments of names

OneName == {<<a>>}
ThreeNames == {<<a>>, <<a, b>>, <<z>>}
OneTool == {<<"x">>}

Symmetric == Permutations(Client) \cup Permutations(Url)

\* The safety properties say nothing once operations have overlapped.
NoClash == ~clash

\* Other processes write the rows of one name, the one that another begins with.
FewForeign == foreign \subseteq {<<a>>}

\* One server is away at a time.
FewDown == Cardinality(Url \ up) <= 1

NamesInUse ==
    {rows[r].name : r \in DOMAIN rows} \cup DOMAIN clients
        \cup {client[c].name : c \in Client} \cup foreign

\* <<a>> meets either of the other names, which do not meet each other.
TwoNames == ~({<<a, b>>, <<z>>} \subseteq NamesInUse)

\* The status column is only ever written: states that differ in it alone
\* have the same future.
ButStatus ==
    <<[r \in DOMAIN rows |-> <<rows[r].name, rows[r].url>>], clients, client, tools,
      task, health, stop, phase, up, clash, foreign>>
=============================================================================
