---------------------------- MODULE ToolDirectory ----------------------------
(***************************************************************************)
(* What the agent is promised about the tools of MCP servers: each server  *)
(* has a directory of its own.  A directory is emptied as a whole, or a    *)
(* listing is published into it; a step touches one directory only, and a  *)
(* tool found in the directory of a server is answered by that server.     *)
(* The flat, prefix-keyed registry of MCPManager implements this.          *)
(***************************************************************************)
CONSTANTS Name, Tool, NoServer

VARIABLE answeredBy     \* answeredBy[n][t]: the server a call of tool t of n reaches

Nothing == [t \in Tool |-> NoServer]

Init == answeredBy = [n \in Name |-> Nothing]

Clear(n) == answeredBy' = [answeredBy EXCEPT ![n] = Nothing]

Publish(n, listing) ==
    answeredBy' = [answeredBy EXCEPT ![n] =
        [t \in Tool |-> IF t \in listing THEN n ELSE @[t]]]

\* The process stops: nothing is registered any more.
Reset == answeredBy' = [n \in Name |-> Nothing]

Next ==
    \/ \E n \in Name : Clear(n)
    \/ \E n \in Name, listing \in SUBSET Tool : Publish(n, listing)
    \/ Reset

Spec == Init /\ [][Next]_answeredBy
==============================================================================
