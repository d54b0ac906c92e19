---------------------------- MODULE SearchMemory ----------------------------
(***************************************************************************)
(* The search_memory tool (tools.py): what search returned is printed with *)
(* the distance-1 neighbours of each hit (BeadsStore.neighbours), which    *)
(* are read by a third statement.  A fact is printed at most once, a hit   *)
(* gets at most MAX_NEIGHBOURS of them, corrections before contradictions  *)
(* before the findings of a summary.                                       *)
(***************************************************************************)
EXTENDS Selection

CONSTANTS
  Other,        \* facts that only an edge leads to
  Relating,     \* bound: the edges <<from, to, relation>> that can be recorded
  Readable,     \* facts whose namespace the caller may read
  Directive     \* facts of kind directive

Node == Fact \cup Other
MAX_NEIGHBOURS == 2

\* _EXPAND; relates_to and derived_from are not worth their characters.
Expand == {"supersedes", "contradicts", "rollup_of"}
Rank3 == [supersedes |-> 0, contradicts |-> 1, rollup_of |-> 2]
Links == Node \X Node \X (Expand \cup {"relates_to"})

ASSUME SearchMemoryAssumption ==
  /\ Relating \subseteq Links
  /\ Readable \subseteq Node /\ Directive \subseteq Node
  /\ Fact \subseteq Readable \ Directive

VARIABLES
  edges,      \* fact_edges, without derived_from
  hits,       \* the hits not printed yet
  graph,      \* the edges at the hits, as they were read
  asRead,     \* history: the edges of the store when it was read
  lines,      \* what has been printed: <<hit, fact>>, a hit's own line as <<f, f>>
  seen        \* facts not to be printed again

vars == <<selectVars, edges, hits, graph, asRead, lines, seen>>
renderVars == <<hits, graph, asRead, lines, seen>>

TypeOK ==
  /\ SelectTypeOK
  /\ edges \subseteq Links
  /\ hits \in Seq(Fact)
  /\ graph \subseteq asRead /\ asRead \subseteq edges
  /\ lines \in Seq(Fact \X Node)
  /\ seen \subseteq Node

Init ==
  /\ SelectInit
  /\ edges = {}
  /\ hits = <<>> /\ lines = <<>> /\ seen = {} /\ graph = {} /\ asRead = {}

Search == SelectStep /\ UNCHANGED <<edges, renderVars>>

-----------------------------------------------------------------------------
(* neighbours: edges in both directions.                                   *)

\* Mutant: only edges that leave a hit are followed.
SeedSource(e) == e[1]

\* The hit an edge is shown at: its source, if that is a hit.
Seed(e) == IF e[1] \in Kept THEN e[1] ELSE e[2]

FarEnd(e) == IF e[1] \in Kept THEN e[2] ELSE e[1]

\* The edges shown at f: those whose far end is worth showing.
Neighbours(f) ==
  { <<FarEnd(e), e[3]>> :
      e \in { d \in graph : Seed(d) = f /\ d[3] \in Expand /\ FarEnd(d) \notin Directive } }

\* Mutant: what is printed of one hit is not known to the next.
HitsNotSeen == {}

\* "Seeded with every hit, and carried across hits."
SeenAtFirst == Kept

ReadNeighbours ==
  /\ at = "done" /\ kept # <<>>
  /\ at' = "render"
  /\ hits' = kept
  /\ graph' = { e \in edges : {e[1], e[2]} \cap Kept # {} /\ FarEnd(e) \in Readable }
  /\ asRead' = edges
  /\ seen' = SeenAtFirst
  /\ lines' = <<>>
  /\ UNCHANGED <<derived, k, perSource, rows, parents, kept, agentCount, sourceCount, skipped, edges>>

\* "No memories found."
NothingFound ==
  /\ at = "done" /\ kept = <<>>
  /\ Forget
  /\ UNCHANGED <<edges, renderVars>>

-----------------------------------------------------------------------------
(* Printing.                                                               *)

Printed(f) == \E i \in 1..Len(lines) : lines[i][1] = f
ShownAt(f) == { i \in 1..Len(lines) : lines[i][1] = f /\ lines[i][2] # f }

\* The line of the next hit.
PrintHit ==
  /\ at = "render" /\ hits # <<>> /\ ~Printed(Head(hits))
  /\ lines' = Append(lines, <<Head(hits), Head(hits)>>)
  /\ UNCHANGED <<selectVars, edges, hits, graph, asRead, seen>>

\* The neighbours of f still to be printed at it.
Left(f) ==
  IF Cardinality(ShownAt(f)) >= MAX_NEIGHBOURS THEN {}
  ELSE { n \in Neighbours(f) : n[1] \notin seen }

\* The best relation first; within one, the shorter body.
FirstOf(ns) == { n \in ns : \A m \in ns : Rank3[n[2]] <= Rank3[m[2]] }

PrintNeighbour ==
  /\ at = "render" /\ hits # <<>> /\ Printed(Head(hits))
  /\ \E n \in FirstOf(Left(Head(hits))) :
       /\ lines' = Append(lines, <<Head(hits), n[1]>>)
       /\ seen' = seen \cup {n[1]}
  /\ UNCHANGED <<selectVars, edges, hits, graph, asRead>>

NextHit ==
  /\ at = "render" /\ hits # <<>> /\ Printed(Head(hits)) /\ Left(Head(hits)) = {}
  /\ hits' = Tail(hits)
  /\ UNCHANGED <<selectVars, edges, graph, asRead, lines, seen>>

\* The text goes to the model.
Return ==
  /\ at = "render" /\ hits = <<>>
  /\ Forget
  /\ graph' = {} /\ asRead' = {} /\ lines' = <<>> /\ seen' = {}
  /\ UNCHANGED <<edges, hits>>

-----------------------------------------------------------------------------
\* add_edge, by other agents.
Relate(e) ==
  /\ edges' = edges \cup {e}
  /\ UNCHANGED <<selectVars, renderVars>>

Derive(e) == AddProvenance(e[1], e[2]) /\ UNCHANGED <<edges, renderVars>>

Next ==
  \/ Search
  \/ ReadNeighbours
  \/ NothingFound
  \/ PrintHit
  \/ PrintNeighbour
  \/ NextHit
  \/ Return
  \/ \E e \in Relating : Relate(e)
  \/ \E e \in Provenance : Derive(e)

Spec == Init /\ [][Next]_vars

-----------------------------------------------------------------------------
\* "a fact already shown - as a result or as some earlier hit's neighbour - is
\* not worth its characters twice".
ShownOnce ==
  \A i, j \in 1..Len(lines) : lines[i][2] = lines[j][2] => i = j

\* Every relation read is told, or there was no room for it: a neighbour that
\* is not printed anywhere was left out at a hit that shows two others, of
\* relations at least as telling.  An edge between two hits, which is attached
\* to only one of them, leaves none of the two out.
NeighboursTold ==
  at = "render" /\ hits = <<>> =>
    \A f \in Kept : \A e \in asRead :
      LET far == IF e[1] = f THEN e[2] ELSE e[1]
          asTelling == { i \in ShownAt(f) : \E d \in asRead :
                           /\ {d[1], d[2]} = {f, lines[i][2]}
                           /\ Rank3[d[3]] <= Rank3[e[3]] }
      IN  f \in {e[1], e[2]} /\ e[3] \in Expand /\ far \in Readable \ Directive =>
            \/ \E i \in 1..Len(lines) : lines[i][2] = far
            \/ Cardinality(asTelling) = MAX_NEIGHBOURS
=============================================================================
