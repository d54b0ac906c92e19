---------------------------- MODULE MCFactStore -----------------------------
(* Instances of FactStore and Retrieval for TLC: the budget of a vector     *)
(* database, corrected from $100k to $50k to $75k, in one session whose     *)
(* root has forked two sub-agents.                                          *)
EXTENDS Retrieval

root == Root("s")
forkA == Fork(root, "a")
forkB == Fork(root, "b")

\* budget: "the budget is $100k"; echo and ask: the same nearly word for word,
\* as a statement and as a question; fits: a claim on the topic that builds on
\* $100k; note: one that mentions $100k elsewhere; half, final: corrections.
MCBody == {"budget", "echo", "ask", "fits", "note", "half", "final"}

\* Similarity bands: near-verbatim, close enough to supersede, on the topic,
\* and about something else.
MCSimilarity ==
  [a \in MCBody |-> [b \in MCBody |->
    CASE a = b -> 100
      [] {a, b} \subseteq {"budget", "echo", "ask"} -> 90
      [] "note" \in {a, b} -> 20
      [] "fits" \in {a, b} -> 50
      [] OTHER -> 73]]

MCValuesOf ==
  [b \in MCBody |->
    CASE b \in {"budget", "echo", "ask", "fits", "note"} -> {100}
      [] b = "half" -> {50}
      [] b = "final" -> {75}
      [] OTHER -> {}]

MCShapeOf == [v \in {50, 75, 100} |-> "number"]

Remembered(n, b) == [ns |-> n, source |-> "remember_tool", key |-> RememberKey, body |-> b]
Concluded(n, b) == [ns |-> ParentOf(n), source |-> "conclude_task", key |-> n, body |-> b]
Said(n, b) == [ns |-> n, source |-> "passive_capture", key |-> <<"msg">>, body |-> b]
Answered(n, b) == [ns |-> n, source |-> "passive_capture", key |-> AnswerKey, body |-> b]

\* What each fact id of a run is derived from.
MCIdentity ==
  [f \in Fact |->
    CASE f = "said_budget" -> Said(root, "budget")
      [] f = "said_echo" -> Said(root, "echo")
      [] f = "said_ask" -> Said(root, "ask")
      [] f = "answered_note" -> Answered(root, "note")
      [] f = "answered_fits" -> Answered(root, "fits")
      [] f = "root_half" -> Remembered(root, "half")
      [] f = "root_final" -> Remembered(root, "final")
      [] f = "forkA_half" -> Remembered(forkA, "half")
      [] f = "forkB_final" -> Remembered(forkB, "final")
      [] f = "concludedA_final" -> Concluded(forkA, "final")]

MCKey == {RememberKey, AnswerKey, <<"msg">>, forkA, forkB}
MCShortId == [f \in Fact |-> f]

\* The root's thread and one in each fork.
MCHomeOf ==
  [c \in Caller |->
    CASE c = "root" -> root [] c = "subA" -> forkA [] c = "subB" -> forkB]
=============================================================================
