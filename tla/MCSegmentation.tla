--------------------------- MODULE MCSegmentation ---------------------------
(* Messages of one or two sentences of up to three parts.  claim: "it must  *)
(* be self-hostable"; brief: "use it"; ending: "keep to the budget we have"; *)
(* sole: "found"; noun: "high throughput"; figure: "p99 latency of 4.2s";   *)
(* bare: "4."; ask: "tell me about it"; goal: "we need to decide".  The     *)
(* separator line is a comma at the end of a line.                          *)
EXTENDS Segmentation

MCVerbAt ==
  [k \in PartKind |->
    CASE k \in {"claim", "goal"} -> {"inside"}
      [] k = "brief" -> {"first"}
      [] k = "ending" -> {"last"}
      [] k = "sole" -> {"only"}
      [] OTHER -> {}]

MCLabel == { <<>>, <<"noun">>, <<"brief">>, <<"bare">> }

\* The sentences of n parts.  Where there is a label there is a colon, and there
\* can be a colon without one.
OfParts(n) ==
  { s \in [label : MCLabel, colon : BOOLEAN, question : BOOLEAN,
           parts : [1..n -> PartKind], joints : [1..(n - 1) -> Joint]] :
    s.label # <<>> => s.colon }

MCSentences == UNION { OfParts(n) : n \in 1..3 }

Plain(p) == [label |-> <<>>, colon |-> FALSE, question |-> FALSE, parts |-> <<p>>, joints |-> <<>>]

\* What follows: framing, or the marker of a list.
MCMore == { Plain("noun"), Plain("bare") }
=============================================================================
