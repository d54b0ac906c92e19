------------------------------ MODULE Selection ------------------------------
(***************************************************************************)
(* The last part of BeadsStore.search: the rows of the ranking query are   *)
(* cut to k by _select_top_k, which goes through them in rank order and    *)
(* skips what restates a row already kept, what would give one capture or  *)
(* one sub-agent too many slots.                                           *)
(*                                                                         *)
(* The rows and the derived_from edges among them are read by two          *)
(* statements, each a transaction of its own, and other agents insert      *)
(* edges all the time; the loop then works on what it has read.            *)
(***************************************************************************)
EXTENDS Naturals, Sequences, FiniteSets

CONSTANTS
  Fact,         \* facts the query can return
  AgentOf,      \* AgentOf[f]: f.agent_id
  Below,        \* facts of the namespaces below the reader's: demoted
  Concluded,    \* facts whose source is conclude_task or fallback_conclude
  CaptureOf,    \* CaptureOf[f]: f.context_embedding, or NoCapture
  NoCapture,
  Overfetch,    \* _OVERFETCH
  MaxPerAgent,  \* DESCENDANT_MAX_PER_AGENT
  SourceCaps,   \* the values of CONTEXT_MAX_PER_SOURCE to consider; 0 is off
  Provenance,   \* bound: the derived_from edges that can be recorded
  MaxK          \* bound: slots asked for

Agent == { AgentOf[f] : f \in Fact }
Capture == { CaptureOf[f] : f \in Fact } \ {NoCapture}
At == {"idle", "ranked", "select", "done", "render"}

ASSUME SelectionAssumption ==
  /\ IsFiniteSet(Fact) /\ Below \subseteq Fact /\ Concluded \subseteq Fact
  /\ Provenance \subseteq Fact \X Fact
  /\ DOMAIN AgentOf = Fact /\ DOMAIN CaptureOf = Fact
  /\ Overfetch \in Nat \ {0} /\ MaxPerAgent \in Nat /\ SourceCaps \subseteq Nat
  /\ MaxK \in Nat \ {0}

VARIABLES
  derived,    \* derived_from edges of the store: <<fact, what it is derived from>>
  at,         \* where search is
  k,          \* slots asked for
  perSource,  \* CONTEXT_MAX_PER_SOURCE of this process
  rows,       \* rows not yet looked at, best first
  parents,    \* derived_parents: the edges of the rows, as they were read
  kept,       \* rows kept, best first
  agentCount, \* per_agent
  sourceCount,\* per_source
  skipped     \* history: rows the loop has passed over

selectVars == <<derived, at, k, perSource, rows, parents, kept, agentCount, sourceCount, skipped>>

RangeOf(s) == { s[i] : i \in 1..Len(s) }
Kept == RangeOf(kept)
Smaller(a, b) == IF a < b THEN a ELSE b

\* The rows the statement can return: any of the facts, in any order, each once.
Ranking == UNION { { s \in [1..n -> Fact] : \A i, j \in 1..n : s[i] = s[j] => i = j }
                   : n \in 0..Cardinality(Fact) }

SelectTypeOK ==
  /\ derived \subseteq Fact \X Fact
  /\ at \in At
  /\ k \in 1..MaxK
  /\ perSource \in SourceCaps
  /\ rows \in Seq(Fact)
  /\ parents \subseteq Fact \X Fact
  /\ kept \in Seq(Fact) /\ Len(kept) <= k
  /\ agentCount \in [Agent -> Nat]
  /\ sourceCount \in [Capture -> Nat]
  /\ skipped \subseteq Fact

SelectInit ==
  /\ derived = {}
  /\ at = "idle"
  /\ k = 1
  /\ perSource \in SourceCaps
  /\ rows = <<>> /\ parents = {} /\ kept = <<>> /\ skipped = {}
  /\ agentCount = [a \in Agent |-> 0]
  /\ sourceCount = [c \in Capture |-> 0]

-----------------------------------------------------------------------------
(* The two statements.                                                     *)

\* LIMIT k * _OVERFETCH: without spare rows a cap would only shrink k.
WindowSize(n) == n * Overfetch

\* The ranking query: the heads of whatever matches, best first.
Rank(n, ranking) ==
  /\ at = "idle"
  /\ at' = "ranked"
  /\ k' = n
  /\ rows' = SubSeq(ranking, 1, Smaller(Len(ranking), WindowSize(n)))
  /\ UNCHANGED <<derived, perSource, parents, kept, agentCount, sourceCount, skipped>>

\* _derived_parents: a second statement, restricted to the rows of the first.
ReadParents ==
  /\ at = "ranked"
  /\ at' = "select"
  /\ parents' = { e \in derived : e[1] \in RangeOf(rows) }
  /\ UNCHANGED <<derived, k, perSource, rows, kept, agentCount, sourceCount, skipped>>

-----------------------------------------------------------------------------
(* One turn of the loop, on the best row not yet looked at.                *)

Row == Head(rows)
Looking == at = "select" /\ rows # <<>>

\* Mutant: a row is compared with the last kept row only.
RestatesLast(f) == kept # <<>> /\ <<f, kept[Len(kept)]>> \in parents

\* Mutant: any row of the window will do, kept or not.
RestatesAny(f) == \E g \in Fact : <<f, g>> \in parents

\* A fact it is derived from has been kept already.
Restates(f) == \E g \in Kept : <<f, g>> \in parents

\* Mutant: rationing by namespace, which a conclusion does not show.
RationedBelow(f) == f \in Below

Rationed(f) == f \in Below \/ f \in Concluded

OfCapture(f) == perSource # 0 /\ CaptureOf[f] # NoCapture
SourceFull(f) == OfCapture(f) /\ sourceCount[CaptureOf[f]] >= perSource
AgentFull(f) == Rationed(f) /\ agentCount[AgentOf[f]] >= MaxPerAgent

\* The row's capture gets one slot more, before its agent is looked at.
CountSource(f) ==
  sourceCount' = IF OfCapture(f) THEN [sourceCount EXCEPT ![CaptureOf[f]] = @ + 1]
                 ELSE sourceCount

\* A row that restates a kept one, or whose capture has its slots.
Pass ==
  /\ Looking
  /\ Restates(Row) \/ SourceFull(Row)
  /\ rows' = Tail(rows)
  /\ skipped' = skipped \cup {Row}
  /\ UNCHANGED <<derived, at, k, perSource, parents, kept, agentCount, sourceCount>>

\* A row whose agent has its slots: its capture has been counted all the same.
PassAgent ==
  /\ Looking
  /\ ~Restates(Row) /\ ~SourceFull(Row) /\ AgentFull(Row)
  /\ CountSource(Row)
  /\ rows' = Tail(rows)
  /\ skipped' = skipped \cup {Row}
  /\ UNCHANGED <<derived, at, k, perSource, parents, kept, agentCount>>

\* The loop is left as soon as k rows are kept.
RowsLeft == IF Len(kept) + 1 = k THEN <<>> ELSE Tail(rows)

Keep ==
  /\ Looking
  /\ ~Restates(Row) /\ ~SourceFull(Row) /\ ~AgentFull(Row)
  /\ CountSource(Row)
  /\ agentCount' = IF Rationed(Row) THEN [agentCount EXCEPT ![AgentOf[Row]] = @ + 1]
                   ELSE agentCount
  /\ kept' = Append(kept, Row)
  /\ rows' = RowsLeft
  /\ UNCHANGED <<derived, at, k, perSource, parents, skipped>>

\* search returns.
Selected ==
  /\ at = "select" /\ rows = <<>>
  /\ at' = "done"
  /\ UNCHANGED <<derived, k, perSource, rows, parents, kept, agentCount, sourceCount, skipped>>

\* The caller is through with the result.
Forget ==
  /\ at' = "idle" /\ k' = 1
  /\ rows' = <<>> /\ parents' = {} /\ kept' = <<>> /\ skipped' = {}
  /\ agentCount' = [a \in Agent |-> 0]
  /\ sourceCount' = [c \in Capture |-> 0]
  /\ UNCHANGED <<derived, perSource>>

-----------------------------------------------------------------------------
\* _record_provenance of another agent: one edge, never to the fact itself.
AddProvenance(f, g) ==
  /\ f # g /\ <<f, g>> \in Provenance
  /\ derived' = derived \cup {<<f, g>>}
  /\ UNCHANGED <<at, k, perSource, rows, parents, kept, agentCount, sourceCount, skipped>>

SelectStep ==
  \/ \E n \in 1..MaxK : \E ranking \in Ranking : Rank(n, ranking)
  \/ ReadParents
  \/ Pass
  \/ PassAgent
  \/ Keep
  \/ Selected

-----------------------------------------------------------------------------
Delegated == Below \cup Concluded
SlotsOf(a) == { i \in 1..Len(kept) : kept[i] \in Delegated /\ AgentOf[kept[i]] = a }

\* "so three researchers each get a hearing": no sub-agent has more than
\* MaxPerAgent slots, whether its facts come from its own namespace or from a
\* conclusion in the reader's.
VoicesCapped == \A a \in Agent : Cardinality(SlotsOf(a)) <= MaxPerAgent

\* No row comes after a row that it was derived from when the search read the
\* edges, and none is listed twice.
NoRestatement ==
  \A i, j \in 1..Len(kept) : j < i => <<kept[i], kept[j]>> \notin parents /\ kept[i] # kept[j]

\* "a skipped row's slot goes to the next-best row": when fewer than k rows are
\* returned, each row passed over restates a returned row, or comes from a
\* sub-agent that has all its slots, or (with CONTEXT_MAX_PER_SOURCE set) from
\* a capture of which a row was let through before.
SlotsFilled ==
  at = "done" /\ Len(kept) < k =>
    \A f \in skipped :
      \/ \E g \in Kept : <<f, g>> \in parents
      \/ f \in Delegated /\ Cardinality(SlotsOf(AgentOf[f])) = MaxPerAgent
      \/ perSource # 0 /\ CaptureOf[f] # NoCapture /\ 
         \E g \in (Kept \cup skipped) \ {f} : CaptureOf[g] = CaptureOf[f]
=============================================================================
