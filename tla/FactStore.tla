----------------------------- MODULE FactStore ------------------------------
(***************************************************************************)
(* The durable fact graph: facts, typed edges and the retirement of facts  *)
(* by `supersedes` edges (beads_memory/store.py, with the calls that       *)
(* tools.py and middleware.py make on it).                                 *)
(*                                                                         *)
(* Every connection is autocommit, so each SQL statement is a transaction  *)
(* of its own and a call is a sequence of them.  A caller (the thread of a *)
(* tool call or of a middleware hook, bound to the namespace of its agent) *)
(* therefore has a program counter, and one action is one statement:       *)
(*                                                                         *)
(*   idle --> write --> link --> retire --> cascade --> sweep <--> explain *)
(*                                                                         *)
(* Statements that read only columns nothing ever updates (the chain of a  *)
(* namespace, a body, an embedding, a created_at) commute with every other *)
(* statement and are merged into the one that uses what they read.         *)
(***************************************************************************)
EXTENDS Namespaces

CONSTANTS
  Fact,              \* fact ids
  Identity,          \* Identity[f]: what the id f is derived from
  Key,               \* source keys
  Body,              \* the texts a fact can have
  Caller,            \* threads that call the store
  HomeOf,            \* HomeOf[c]: the namespace caller c is bound to
  ShortId,           \* ShortId[f]: the eight hex digits an agent cites
  Similarity,        \* Similarity[a][b]: cosine similarity of two bodies, in %
  Embedded,          \* the bodies that have an embedding
  ValuesOf,          \* ValuesOf[b]: value_tokens(b)
  ShapeOf,           \* ShapeOf[v]: _shape(v), "time" or "number"
  DirectiveBody,     \* the bodies that classify_fragment calls directives
  RetireSuperseded,  \* BeadsStore(retire_superseded=...)
  Reassert,          \* may a fact be written that is stored already?
  CallsFail,         \* may a statement raise, or the process stop, mid-call?
  MaxCalls,          \* bound: calls with a reference that are begun
  NoFact

Source == {"remember_tool", "conclude_task", "passive_capture"}

\* contradicts, relates_to and rollup_of edges are read by neither the cascade
\* nor search; "none" is a call without a reference.
Relation == {"supersedes", "derived_from", "none"}
Step == {"idle", "write", "link", "retire", "cascade", "sweep", "explain"}

(***************************************************************************)
(* derive_fact_id: the id is a hash of the namespace (which holds the      *)
(* session), the path that wrote the fact, that path's source key and the  *)
(* body, length-prefixed so that two different inputs never read alike.    *)
(***************************************************************************)
FactInput == [ns : Namespace, source : Source, key : Key, body : Body]

ASSUME FactAssumption ==
  /\ Identity \in [Fact -> FactInput]
  /\ \A f, g \in Fact : Identity[f] = Identity[g] => f = g
  /\ NoFact \notin Fact
ASSUME CallerAssumption == HomeOf \in [Caller -> Namespace]
ASSUME SwitchAssumption ==
  /\ RetireSuperseded \in BOOLEAN /\ Reassert \in BOOLEAN /\ CallsFail \in BOOLEAN
  /\ MaxCalls \in Nat

\* Source keys: remember_fact's constant, and content_key for an answer.  A
\* message has its own id; a conclusion is keyed by the concluding namespace.
RememberKey == <<"remember">>
AnswerKey == <<"sha256">>

NsOf(f) == Identity[f].ns
SourceOf(f) == Identity[f].source
KeyOf(f) == Identity[f].key
BodyOf(f) == Identity[f].body

\* The namespaces of a run, and what each may cite from and search.
Row == { HomeOf[c] : c \in Caller } \cup { NsOf(f) : f \in Fact }
ChainOf == [n \in Row |-> Chain(n)]
ReadableFrom == [n \in Row |-> Readable(n, Row)]

VARIABLES
  clock,     \* the time, advanced by every INSERT of a fact
  created,   \* created[f]: f.created_at, 0 while there is no row
  status,    \* status[f]: 'active' or 'superseded'
  edges,     \* the rows <<from, to, relation>> of fact_edges
  step,      \* step[c]: the statement caller c executes next
  call,      \* call[c]: the arguments of c's call
  todo,      \* todo[c]: the rows of c's cascade not yet retired
  current,   \* current[c]: the row c's cascade is working on
  begun,     \* calls with a reference begun so far
  settled,   \* history: the <<from, to>> whose add_edge("supersedes") returned
  torn       \* history: the facts a failed call left between two statements

vars == <<clock, created, status, edges, step, call, todo, current, begun,
          settled, torn>>

Call == [from : Fact \cup {NoFact}, to : Fact \cup {NoFact}, rel : Relation]
NoCall == [from |-> NoFact, to |-> NoFact, rel |-> "none"]

TypeOK ==
  /\ clock \in Nat
  /\ created \in [Fact -> Nat]
  /\ status \in [Fact -> {"active", "superseded"}]
  /\ edges \subseteq Fact \X Fact \X Relation
  /\ step \in [Caller -> Step]
  /\ call \in [Caller -> Call]
  /\ todo \in [Caller -> SUBSET Fact]
  /\ current \in [Caller -> Fact \cup {NoFact}]
  /\ begun \in Nat
  /\ settled \subseteq Fact \X Fact
  /\ torn \subseteq Fact

Init ==
  /\ clock = 0
  /\ created = [f \in Fact |-> 0]
  /\ status = [f \in Fact |-> "active"]
  /\ edges = {}
  /\ step = [c \in Caller |-> "idle"]
  /\ call = [c \in Caller |-> NoCall]
  /\ todo = [c \in Caller |-> {}]
  /\ current = [c \in Caller |-> NoFact]
  /\ begun = 0
  /\ settled = {}
  /\ torn = {}

Stored == { f \in Fact : created[f] > 0 }
Superseders(f) == { g \in Fact : <<g, f, "supersedes">> \in edges }

\* The kind each write path gives its fact.
Kind(f) ==
  CASE SourceOf(f) = "remember_tool" -> "conclusion"
    [] SourceOf(f) = "conclude_task" -> "summary"
    [] SourceOf(f) = "passive_capture" ->
         IF KeyOf(f) = AnswerKey THEN "conclusion"
         ELSE IF BodyOf(f) \in DirectiveBody THEN "directive" ELSE "user_input"

-----------------------------------------------------------------------------
(* Similarity thresholds and the test for a stale restatement.             *)

SUPERSEDE_MIN_SIMILARITY == 55
CASCADE_MIN_SIMILARITY == 85
CASCADE_TOPICAL_SIMILARITY == 45

\* The guard on add_edge("supersedes"); it fails open without embeddings.
MaySupersede(from, to) ==
  {BodyOf(from), BodyOf(to)} \subseteq Embedded =>
    Similarity[BodyOf(from)][BodyOf(to)] >= SUPERSEDE_MIN_SIMILARITY

\* contested_values(old, new): what the correction introduces, and the old
\* values of a shape that it disturbs.
NewValues(old, new) == ValuesOf[new] \ ValuesOf[old]
StaleValues(old, new) ==
  { v \in ValuesOf[old] : \E w \in NewValues(old, new) : ShapeOf[v] = ShapeOf[w] }

\* _is_stale_restatement: does `body` still assert what `new` corrects in `old`?
IsStaleRestatement(body, derived, old, new) ==
  \/ Similarity[body][old] >= CASCADE_MIN_SIMILARITY
  \/ /\ ValuesOf[body] \cap StaleValues(old, new) # {}
     /\ ValuesOf[body] \cap NewValues(old, new) = {}
     /\ derived \/ Similarity[body][old] >= CASCADE_TOPICAL_SIMILARITY

\* Mutant: the cascade does not compare created_at.
MayCascadeAnyAge(f, from, to) ==
  /\ f # from
  /\ NsOf(f) = NsOf(to)
  /\ created[f] > 0
  /\ {BodyOf(f), BodyOf(to)} \subseteq Embedded

\* The rows _cascade_supersede selects from, and those of them it retires.
MayCascade(f, from, to) ==
  /\ f # from
  /\ NsOf(f) = NsOf(to)
  /\ created[f] > 0 /\ created[f] < created[from]
  /\ {BodyOf(f), BodyOf(to)} \subseteq Embedded

IsDerived(f, to) == <<f, to, "derived_from">> \in edges

Restatements(from, to) ==
  { f \in Fact :
      /\ status[f] = "active"
      /\ MayCascade(f, from, to)
      /\ IsStaleRestatement(BodyOf(f), IsDerived(f, to), BodyOf(to), BodyOf(from)) }

-----------------------------------------------------------------------------
(* How a call begins: what its caller may write and what it may cite.      *)

\* Mutant: a prefix is resolved in the whole session.
CitableAnywhere(c) == { t \in Stored : HomeOf[c] \in Row }

\* resolve_short_id over the caller's ancestor_chain: the cited prefix must
\* match exactly one stored fact.  Its status is not looked at.
Citable(c) == { t \in Stored : NsOf(t) \in ChainOf[HomeOf[c]] }
Resolvable(c) ==
  { t \in Citable(c) : \A u \in Citable(c) : ShortId[u] = ShortId[t] => u = t }

\* While Reassert is FALSE nobody writes a fact that is stored or being stored.
MayWrite(f) ==
  Reassert \/ (created[f] = 0 /\ \A d \in Caller : step[d] = "write" => call[d].from # f)

\* Mutant: ON CONFLICT (id) DO UPDATE SET created_at = now().
InsertRefreshing(f) == clock' = clock + 1 /\ created' = [created EXCEPT ![f] = clock + 1]

\* write_fact: INSERT ... ON CONFLICT (id) DO NOTHING.  A fact that is stored
\* already keeps its created_at and its status.
Insert(f) ==
  IF created[f] = 0
    THEN clock' = clock + 1 /\ created' = [created EXCEPT ![f] = clock + 1]
    ELSE UNCHANGED <<clock, created>>

\* A call without a reference is that one statement.
WriteOnly(c, f) ==
  /\ step[c] = "idle"
  /\ MayWrite(f)
  /\ Insert(f)
  /\ UNCHANGED <<status, edges, step, call, todo, current, begun, settled, torn>>

\* A call with a reference has resolved it, and goes on to write and link.
Begin(c, from, to, rel) ==
  /\ step[c] = "idle"
  /\ MayWrite(from)
  /\ begun < MaxCalls /\ begun' = begun + 1
  /\ step' = [step EXCEPT ![c] = "write"]
  /\ call' = [call EXCEPT ![c] = [from |-> from, to |-> to, rel |-> rel]]
  /\ UNCHANGED <<clock, created, status, edges, todo, current, settled, torn>>

\* remember_fact(body, relates_to, relation).  A reference that does not
\* resolve, or a relation that is not one, is reported and nothing changes.
RememberFact(c) ==
  \E f \in Fact :
    /\ SourceOf(f) = "remember_tool" /\ NsOf(f) = HomeOf[c] /\ KeyOf(f) = RememberKey
    /\ \/ WriteOnly(c, f)
       \/ \E t \in Resolvable(c) : Begin(c, f, t, "supersedes")

\* conclude_task(summary, supersedes): the summary of a fork goes to its
\* parent, keyed by the fork; what it supersedes is resolved from the fork.
ConcludeTask(c) ==
  \E f \in Fact :
    /\ ~IsRoot(HomeOf[c])
    /\ SourceOf(f) = "conclude_task" /\ NsOf(f) = ParentOf(HomeOf[c]) /\ KeyOf(f) = HomeOf[c]
    /\ \/ WriteOnly(c, f)
       \/ \E t \in Resolvable(c) : Begin(c, f, t, "supersedes")

\* before_model captures what the user (or, in a fork, the parent) said.
CaptureUserMessage(c) ==
  \E f \in Fact :
    /\ SourceOf(f) = "passive_capture" /\ NsOf(f) = HomeOf[c] /\ KeyOf(f) # AnswerKey
    /\ WriteOnly(c, f)

\* after_model, in a root agent, captures a claim of the final answer and
\* links it to a fact that was injected from the readable scope.
CaptureAnswer(c) ==
  \E f \in Fact :
    /\ IsRoot(HomeOf[c])
    /\ SourceOf(f) = "passive_capture" /\ NsOf(f) = HomeOf[c] /\ KeyOf(f) = AnswerKey
    /\ \/ WriteOnly(c, f)
       \/ \E t \in Stored \ {f} :
            /\ NsOf(t) \in ReadableFrom[HomeOf[c]] /\ Kind(t) # "directive"
            /\ Begin(c, f, t, "derived_from")

-----------------------------------------------------------------------------
(* The statements of a call.                                               *)

Goto(c, s) == step' = [step EXCEPT ![c] = s] /\ call' = call

Return(c) ==
  /\ step' = [step EXCEPT ![c] = "idle"]
  /\ call' = [call EXCEPT ![c] = NoCall]

WriteFact(c) ==
  /\ step[c] = "write"
  /\ Insert(call[c].from)
  /\ Goto(c, "link")
  /\ UNCHANGED <<status, edges, todo, current, begun, settled, torn>>

\* add_edge refuses a supersedes edge between facts about different things.
RefuseEdge(c) ==
  /\ step[c] = "link"
  /\ call[c].rel = "supersedes" /\ ~MaySupersede(call[c].from, call[c].to)
  /\ Return(c)
  /\ UNCHANGED <<clock, created, status, edges, todo, current, begun, settled, torn>>

\* add_edge: INSERT the edge; only supersedes goes on to retire its target.
InsertEdge(c) ==
  LET k == call[c] IN
  /\ step[c] = "link"
  /\ k.rel = "supersedes" => MaySupersede(k.from, k.to)
  /\ edges' = edges \cup {<<k.from, k.to, k.rel>>}
  /\ IF k.rel = "supersedes" /\ RetireSuperseded THEN Goto(c, "retire") ELSE Return(c)
  /\ UNCHANGED <<clock, created, status, todo, current, begun, settled, torn>>

\* Mutant: the status is mistyped.
RetireTargetWrongly(c) ==
  /\ step[c] = "retire"
  /\ status' = [status EXCEPT ![call[c].to] = "superceded"]
  /\ Goto(c, "cascade")
  /\ UNCHANGED <<clock, created, edges, todo, current, begun, settled, torn>>

RetireTarget(c) ==
  /\ step[c] = "retire"
  /\ status' = [status EXCEPT ![call[c].to] = "superseded"]
  /\ Goto(c, "cascade")
  /\ UNCHANGED <<clock, created, edges, todo, current, begun, settled, torn>>

\* _cascade_supersede: one SELECT decides which rows will be retired.
SelectRestatements(c) ==
  /\ step[c] = "cascade"
  /\ todo' = [todo EXCEPT ![c] = Restatements(call[c].from, call[c].to)]
  /\ Goto(c, "sweep")
  /\ UNCHANGED <<clock, created, status, edges, current, begun, settled, torn>>

\* Mutant: a row that has been retired is not taken off the list.
RetireRestatementAgain(c) ==
  /\ step[c] = "sweep"
  /\ \E f \in todo[c] :
       /\ status' = [status EXCEPT ![f] = "superseded"]
       /\ current' = [current EXCEPT ![c] = f]
  /\ Goto(c, "explain")
  /\ UNCHANGED <<clock, created, edges, todo, begun, settled, torn>>

\* The loop over those rows: UPDATE the row, then INSERT the edge that
\* explains it.
RetireRestatement(c) ==
  /\ step[c] = "sweep"
  /\ \E f \in todo[c] :
       /\ status' = [status EXCEPT ![f] = "superseded"]
       /\ current' = [current EXCEPT ![c] = f]
       /\ todo' = [todo EXCEPT ![c] = @ \ {f}]
  /\ Goto(c, "explain")
  /\ UNCHANGED <<clock, created, edges, begun, settled, torn>>

\* Mutant: the cascade records no edge.
ExplainNothing(c) ==
  /\ step[c] = "explain"
  /\ current' = [current EXCEPT ![c] = NoFact]
  /\ Goto(c, "sweep")
  /\ UNCHANGED <<clock, created, status, edges, todo, begun, settled, torn>>

ExplainRestatement(c) ==
  /\ step[c] = "explain"
  /\ edges' = edges \cup {<<call[c].from, current[c], "supersedes">>}
  /\ current' = [current EXCEPT ![c] = NoFact]
  /\ Goto(c, "sweep")
  /\ UNCHANGED <<clock, created, status, todo, begun, settled, torn>>

EndCascade(c) ==
  /\ step[c] = "sweep" /\ todo[c] = {}
  /\ settled' = settled \cup {<<call[c].from, call[c].to>>}
  /\ Return(c)
  /\ UNCHANGED <<clock, created, status, edges, todo, current, begun, torn>>

\* A statement raises (the connection drops) or the process stops: what was
\* executed stays, the rest of the call is lost.  A retry is another call.  A
\* call that stops before its edge is inserted did what WriteOnly does.
BetweenTwoStatements(c) ==
  CASE step[c] = "retire" -> {call[c].to}
    [] step[c] = "explain" -> {current[c]}
    [] OTHER -> {}

CallFails(c) ==
  /\ CallsFail
  /\ step[c] \notin {"idle", "write", "link"}
  /\ torn' = torn \cup BetweenTwoStatements(c)
  /\ todo' = [todo EXCEPT ![c] = {}]
  /\ current' = [current EXCEPT ![c] = NoFact]
  /\ Return(c)
  /\ UNCHANGED <<clock, created, status, edges, begun, settled>>

-----------------------------------------------------------------------------
BeginCall(c) ==
  RememberFact(c) \/ ConcludeTask(c) \/ CaptureUserMessage(c) \/ CaptureAnswer(c)

Statement(c) ==
  \/ WriteFact(c) \/ RefuseEdge(c) \/ InsertEdge(c) \/ RetireTarget(c)
  \/ SelectRestatements(c) \/ RetireRestatement(c) \/ ExplainRestatement(c)
  \/ EndCascade(c)

Next == \E c \in Caller : BeginCall(c) \/ Statement(c) \/ CallFails(c)

Spec == Init /\ [][Next]_vars

\* A thread that is in a call keeps executing its statements.
FairSpec == Spec /\ \A c \in Caller : WF_vars(Statement(c))

-----------------------------------------------------------------------------
(* What the store promises.                                                *)

\* A supersedes edge never joins two siblings: the fact that retires another
\* was written above it, below it or beside it in one namespace, so parallel
\* forks cannot retire each other's facts (add_edge, resolve_short_id and the
\* namespace filter of the cascade together).
SupersedesComparable ==
  \A f, g \in Fact : <<g, f, "supersedes">> \in edges => Comparable(NsOf(g), NsOf(f))

\* Some call is between the two statements that retire f.
MidRetirement(f) ==
  \E c \in Caller :
    \/ step[c] = "retire" /\ call[c].to = f
    \/ step[c] = "explain" /\ current[c] = f

\* The two records of a retirement agree: outside the pairs of statements that
\* write them, and where no call died between the two, a fact is 'superseded'
\* exactly when some supersedes edge says by what.  search reads the edges,
\* subtree_facts the status.
StatusMatchesEdges ==
  RetireSuperseded =>
    \A f \in Fact \ torn :
      (status[f] = "superseded" <=> Superseders(f) # {}) \/ MidRetirement(f)

\* f restated, before `from` was written, the value that `from` corrects in
\* `to`.  Provenance is left out: derived_from edges are recorded after their
\* fact, so one can arrive after the cascade has looked.
StaleFor(f, from, to) ==
  MayCascade(f, from, to) /\ IsStaleRestatement(BodyOf(f), FALSE, BodyOf(to), BodyOf(from))

\* Once add_edge has returned, the target and every earlier restatement of it
\* are retired, and no later write brings one back: whatever ran in between,
\* whatever failed before, and whichever of two racing corrections came last.
CascadeComplete ==
  \A f \in Fact :
    status[f] = "active" =>
      \A pair \in settled : f # pair[2] /\ ~StaleFor(f, pair[1], pair[2])

\* While no stored fact is asserted again, a fact is superseded by facts that
\* are newer than it, so corrections never form a cycle: the cascade's
\* created_at filter and the order of resolve, write and link in the tools.
CorrectionsPointBack ==
  ~Reassert =>
    \A f, g \in Fact : <<g, f, "supersedes">> \in edges => created[f] < created[g]

\* Every call ends: each statement is followed by the next, and the loop over
\* the selected rows is finite.
CallsReturn == \A c \in Caller : step[c] # "idle" ~> step[c] = "idle"
=============================================================================
