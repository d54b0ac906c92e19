--------------------------- MODULE MCSearchMemory ---------------------------
(* An agent with a fact of its own, what sub-agent a found (a1) and         *)
(* concluded (a2), and what sub-agent b found (b1).  a1 and b1 come from    *)
(* one task text, which both sub-agents were given.                         *)
EXTENDS SearchMemory

MCFact == {"own", "a1", "a2", "b1"}
MCAgentOf == [f \in MCFact |-> CASE f = "own" -> "root" [] f = "b1" -> "b" [] OTHER -> "a"]
MCCaptureOf == [f \in MCFact |-> IF f \in {"a1", "b1"} THEN "task" ELSE NoCapture]
MCProvenance == {<<"b1", "a2">>}

\* own replaced old; b1 contradicts it; own and a2 both sum up raw; a sibling
\* of the reader contradicts own too.
MCRelating ==
  {<<"own", "old", "supersedes">>, <<"sibling", "own", "contradicts">>,
   <<"own", "raw", "rollup_of">>, <<"a2", "raw", "rollup_of">>, <<"b1", "own", "contradicts">>}
=============================================================================
