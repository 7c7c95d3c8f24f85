---------------------------- MODULE ToolRegistry ----------------------------
(***************************************************************************)
(* The unified tool registry (backend/app/services/tool_registry): a flat  *)
(* dictionary from a namespaced name to a handler.  Every source of tools  *)
(* shares it, and owns the names that start with its prefix.               *)
(*                                                                         *)
(* A namespaced name is the sequence of the segments that "__" separates:  *)
(* tool t of MCP server n is "mcp__n__t", which is n \o t here, since a    *)
(* server name or a tool name may itself hold "__".  The constant first    *)
(* segment is left out, and so are names that end and tools that begin     *)
(* with "_", for which the split is not unique.  A registry is a function  *)
(* whose domain is the set of registered names.                            *)
(***************************************************************************)
EXTENDS Naturals, Sequences, Functions

NoTools == [k \in {} |-> k]

\* What if tools went by the name their server lists?
KeyUnqualified(server, tool) == tool

\* The name a tool of a server is registered under.
Key(server, tool) == server \o tool

\* str.startswith for a prefix that ends with the separator.
StartsWith(key, prefix) ==
    /\ Len(prefix) < Len(key)
    /\ SubSeq(key, 1, Len(prefix)) = prefix

\* register(), once for each name of new: the last registration wins.
Register(registry, new) ==
    [k \in DOMAIN registry \cup DOMAIN new |->
        IF k \in DOMAIN new THEN new[k] ELSE registry[k]]

\* unregister(): every name under the prefix goes.
Unregister(registry, prefix) ==
    Restrict(registry, {k \in DOMAIN registry : ~StartsWith(k, prefix)})

\* No server name is a prefix of another: what keeps their tools apart.
PrefixFree(names) ==
    \A m, n \in names :
        m # n => ~(Len(m) <= Len(n) /\ SubSeq(n, 1, Len(m)) = m)
=============================================================================
