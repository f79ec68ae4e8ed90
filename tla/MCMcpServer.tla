---------------------------- MODULE MCMcpServer ----------------------------
(***************************************************************************)
(* An instance of McpServer for TLC.                                       *)
(***************************************************************************)
EXTENDS McpServer

CONSTANTS k1, k2, k3

KeysMC == {k1, k2, k3}
Announced == [offered |-> TRUE, changed |-> TRUE, long |-> FALSE]
HellosMC == {Announced, [Announced EXCEPT !.long = TRUE]}

\* One session under the same id twice, a change of the roots, two sessions, and what an update may meet.
Script(kinds) == [kind \in Kinds |-> IF kind \in DOMAIN kinds THEN kinds[kind] ELSE 0]
BudgetsMC ==
    {Script([initialize |-> 1, call |-> 2, cancelled |-> 1]),
     Script([initialize |-> 1, initialized |-> 1, call |-> 1, cancelled |-> 1]),
     Script([initialize |-> 2, initialized |-> 2, call |-> 1]),
     Script([initialize |-> 1, initialized |-> 1, changed |-> 1, call |-> 1, update |-> 1]),
     Script([initialize |-> 1, call |-> 1, query |-> 1, update |-> 1]),
     Script([call |-> 3]),
     Script([long |-> 1, initialize |-> 1, query |-> 1, update |-> 1])}
===========================================================================
