----------------------------- MODULE Retrieval ------------------------------
(***************************************************************************)
(* What search returns from the graph that FactStore keeps: a match on any *)
(* version of a claim is resolved to the head of its supersedes chain      *)
(* (the recursive query in BeadsStore.search).  The ranking and the cut to *)
(* k rows are left out: Surfaced is what some query can bring up.          *)
(***************************************************************************)
EXTENDS FactStore

SUPERSEDE_MAX_DEPTH == 10

\* Mutant: the walk stops after one edge.
OneStepFrom(f) == IF Superseders(f) = {} THEN {f} ELSE Superseders(f)

\* The deepest rows of the walk from f along supersedes edges towards newer
\* facts, at most SUPERSEDE_MAX_DEPTH edges deep.
DeepestFrom(f) ==
  LET walk[d \in 0..SUPERSEDE_MAX_DEPTH] ==
        IF d = 0 THEN {f}
        ELSE LET cur == walk[d - 1]
                 up == UNION { Superseders(g) : g \in cur }
             IN  IF up = {} THEN cur ELSE up
  IN  walk[SUPERSEDE_MAX_DEPTH]

\* Mutant: a match is returned as it is.
HeadOfItself(f) == f

\* Mutant: from and to of the edge are mixed up.
HeadBackwards(f) ==
  LET ends == { g \in Fact : <<f, g, "supersedes">> \in edges }
  IN  IF ends = {} THEN f ELSE CHOOSE h \in ends : \A g \in ends : created[g] <= created[h]

\* head_of: deepest wins, created_at breaks the tie of a merge.
HeadOf(f) ==
  LET ends == IF Superseders(f) = {} THEN {f} ELSE DeepestFrom(f)
  IN  CHOOSE h \in ends : \A g \in ends : created[g] <= created[h]

\* The versions a query from namespace n can match ...
Matchable(n) ==
  { f \in Stored :
      NsOf(f) \in ReadableFrom[n] /\ Kind(f) # "directive" /\ BodyOf(f) \in Embedded }

\* ... and the heads it can return: the head has to be readable as well, but
\* neither its kind nor its status is looked at again.
Surfaced(n) == { h \in { HeadOf(f) : f \in Matchable(n) } : NsOf(h) \in ReadableFrom[n] }

\* subtree_facts: the facts recall_from_subagents may show to an agent at n.
SubtreeFacts(n) ==
  { f \in Stored : NsOf(f) # n /\ n \in ChainOf[NsOf(f)] /\ status[f] = "active" }

Reader == { HomeOf[c] : c \in Caller }

-----------------------------------------------------------------------------
\* Some call has retired f but not yet inserted the edge that explains it.
BeingExplained(f) == \E c \in Caller : step[c] = "explain" /\ current[c] = f

\* While no stored fact is asserted again, the head of every chain is live:
\* whatever version a query hits, search answers with the current value.
HeadIsCurrent ==
  ~Reassert =>
    \A f \in Stored :
      LET h == HeadOf(f)
      IN  status[h] = "active" \/ h \in torn \/ BeingExplained(h)

\* The failure the cascade exists for: once a correction has settled, neither
\* the corrected fact nor an earlier restatement of it reaches any agent, by
\* search or by recall_from_subagents.
StaleNeverSurfaces ==
  ~Reassert =>
    \A n \in Reader :
      LET shown == Surfaced(n) \cup SubtreeFacts(n)
      IN  \A pair \in settled : \A f \in shown :
            f = pair[2] \/ StaleFor(f, pair[1], pair[2]) => f \in torn \/ BeingExplained(f)

\* Directives are filtered on the version that matched, not on the head it is
\* resolved to; they still never surface, because no path that writes a
\* directive ever lets it supersede anything.
DirectivesHeldOut ==
  \A f \in Stored : Kind(f) # "directive" => Kind(HeadOf(f)) # "directive"

\* README "Reading the store directly": search returns only active facts.  Said
\* here of the moments when no call is between its statements, and of graphs in
\* which no agent has cited a fact as superseding itself.
OnlyActiveSurface ==
  (\A c \in Caller : step[c] = "idle") /\ (\A f \in Fact : f \notin Superseders(f)) =>
    \A n \in Reader : \A h \in Surfaced(n) : status[h] = "active"
=============================================================================
