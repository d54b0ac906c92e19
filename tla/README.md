# Verification of langgraph-beads-memory

TLA+ specifications of the durable memory that this repository gives to LangGraph agents:
how a message becomes facts, the fact graph in PostgreSQL, the calls that write it, what
search makes of it and shows to a model, and the delegation of tasks to sub-agents; of the
benchmark harness with the clients and connections its threads share; and of the playground
server. TLC checks the specifications on small instances; TLAPS proves every safety
invariant they satisfy for every value of the constants.

## The system

| Component | Code | State | Operations |
|---|---|---|---|
| Namespace tree | `store.py` 268-338, `ids.py`, `schema.sql` | rows `(session_id, extra_path, parent_id)` | root, fork, ancestor chain, descendant scope |
| Fact store | `store.py` 374-560 | `facts`, `fact_edges`, `facts.status` | `write_fact`, `add_edge`, the cascade of a `supersedes` edge |
| Retrieval | `store.py` 166-225, 340-372, 564-785 | none | `search`, `subtree_facts`, `neighbours`, `resolve_short_id` |
| Memory tools | `tools.py` | `concluded` of one sub-agent run | `remember_fact`, `conclude_task`, `search_memory`, `recall_from_subagents` |
| Sub-agent wrapper | `subagent.py` | locals of `_run` | fork, run the agent, enforce the rollup, answer |
| Middleware | `middleware.py` | `_last_injected` | capture of user messages, tool results and answers; window and injection |
| Segmentation | `segment.py` | none | splitting, classification, value tokens |
| Identity | `ids.py` | none | content-derived ids |
| LLM client | `demo/llm.py`, `demo/resilient.py` | client cache, httpx clients | generate, probe, restart, rebuild, retry |
| Connections | `demo/conditions.py` 100-149 | one connection per thread, a shared registry | get, execute, close |
| Harness | `demo/harness.py`, `demo/conditions.py` | turn deadline | run a scenario turn by turn |
| Playground | `playground/app.py` | `_chats`, `.chats.json`, `_gpu` | start a turn, execute it, save, load, resume |
| Benchmarks | the rest of `demo/`, `scripts/`, `results/` | files | offline scoring and reporting |

How they interact. An agent is a LangGraph loop around a model. The middleware's hooks and
the memory tools call `BeadsStore` synchronously, each on a connection of its thread and each
connection with autocommit, so **every SQL statement is a transaction of its own**. A root
agent delegates by calling sub-agent tools; LangGraph's ToolNode runs the tool calls of one
message on threads (two at once in the demo), so several sub-agents, and several tool calls of
one sub-agent, interleave statement by statement on one database. Sub-agents read their
ancestors and write to their own namespace; only `conclude_task` and the wrapper's fallback
write to the parent.

What is hard here: multi-statement calls that another caller interleaves with or a failure
cuts (`add_edge`, the cascade, `conclude_task`, the fallback); references that are resolved
before the write they are used for; facts that are asserted again (ids are content-derived, so
an old row is found instead of a new one inserted); the supersedes relation, which any agent
can extend and which search follows; the order of `created_at`; and the end of a sub-agent
with half-done work. `PROJECT.json` lists each of these at its line, under `hazards`.

What makes each component correct:

* *Fact store*: status and edges agree; a correction retires its target and every earlier
  restatement of the corrected value, lastingly; corrections point from newer to older facts;
  forks cannot retire each other's facts.
* *Retrieval*: whatever version of a claim is matched, the answer is a live fact; corrected
  values and directives do not surface.
* *Selection and rendering*: of the k rows no sub-agent and no capture takes more than its
  share, none restates another, a slot is not lost to a row that was passed over; what is
  printed is printed once, and what an edge tells of a hit is not silently dropped.
* *Segmentation*: a message is cut into fragments that lose and repeat nothing; what it states
  becomes a fact, what frames it does not.
* *Middleware*: what the user says is stored before the model speaks; what is on the screen is
  not injected as well; an answer is derived from what the model was shown, exactly; what memory
  returns is not stored again.
* *Delegation*: every task comes back; the parent's namespace then holds a summary of it, which
  is linked to what the sub-agent recorded, and which never claims what was not found.
* *Clients, connections, harness*: however many threads find the server wedged at once, one
  client is open and it is the one in use; a run closes that client and its connections; each
  turn is recorded once, ends, and has no thread at work when the next one begins.
* *Playground*: a turn is found again by its number, no arm runs twice for it, it is answered,
  through restarts too, and what was saved survives.

## Modules

| Module | Models |
|---|---|
| `Namespaces` | the namespace tree as sequences of path segments |
| `FactStore` (extends `Namespaces`) | the fact graph and the calls that write it, one action per SQL statement |
| `Retrieval` (extends `FactStore`) | head resolution in `search`, what a reader can be shown |
| `MCFactStore` (extends `Retrieval`) | constants for TLC: one session, a root, two forks, three values of a budget |
| `FactStoreProofs` (extends `Retrieval`) | the theorems about the store and about what search resolves a match to |
| `EnforcedRollup` | the contract of delegation, abstractly |
| `SubAgent` | `_run` and `conclude_task`, one action per statement; implements `EnforcedRollup` |
| `MCSubAgent` (extends `SubAgent`) | constants for TLC |
| `SubAgentProofs` (extends `SubAgent`) | the theorems about delegation |
| `Selection` | `_derived_parents` and `_select_top_k`: from ranked rows to k |
| `SearchMemory` (extends `Selection`) | `neighbours` and the text of `search_memory` |
| `MCSearchMemory` (extends `SearchMemory`) | constants for TLC |
| `SearchMemoryProofs` (extends `SearchMemory`) | the theorems about selection and rendering |
| `Segmentation` | `segment.py` and `_user_fact_specs`: from a message to its facts |
| `MCSegmentation` (extends `Segmentation`) | the messages TLC enumerates |
| `SegmentationProofs` (extends `Segmentation`) | the theorems about what becomes of a message |
| `Middleware` | the hooks around one agent, from the user's message to the answer's provenance |
| `MCMiddleware` (extends `Middleware`) | constants for TLC |
| `MiddlewareProofs` (extends `Middleware`) | the theorems about a turn |
| `Clients` | the shared LLM client: request, probe, restart, rebuild, retry |
| `Connections` | the database connections of a run's threads and their registry |
| `Harness` (extends `Clients`, `Connections`) | a run of the benchmark, turn by turn, under its deadlines |
| `MCHarness` (extends `Harness`) | the instances of a run |
| `HarnessProofs` (extends `Harness`) | the theorems about a run |
| `Playground` | the chat server: requests, workers, the GPU lock, the file of chats, restarts |
| `PlaygroundProofs` (extends `Playground`) | the theorems about the chat server |
| `MCPlayground` (extends `Playground`) | constants for TLC: what each request does and to which chat |
| `Recursion` | induction over numbers and the existence of functions defined by recursion, for the proofs |

The modules fit together as follows. `Middleware` sees a message as the set of facts
`Segmentation` makes of it, and the store as a set of facts, whose status, edges and times are
in `FactStore`; `Selection` starts from the heads that `Retrieval` resolves; the
`supersedes` edge of a conclusion in `SubAgent` is `FactStore`'s `ConcludeTask`; a turn's
tools in `Harness` are the sub-agents of `SubAgent`, reduced to the calls they make. `Harness`
is a composition in the strict sense: its actions conjoin those of `Clients` and
`Connections`.

### FactStore

A *caller* is the thread of one tool call or hook, bound to the namespace of its agent
(`HomeOf`). Its program counter `step` says which SQL statement it executes next:

    idle -> write -> link -> retire -> cascade -> sweep <-> explain
             |        |        |          |         |          |
           INSERT   guard,   UPDATE     SELECT   UPDATE of   INSERT of
           fact     INSERT   target   candidates  one row    its edge
                    edge

| Action | Code |
|---|---|
| `RememberFact`, `ConcludeTask`, `CaptureUserMessage`, `CaptureAnswer` | the four write paths, up to the resolution of their reference |
| `WriteOnly`, `WriteFact` | `write_fact`: `INSERT ... ON CONFLICT DO NOTHING` |
| `RefuseEdge`, `InsertEdge` | `add_edge`: the similarity guard and the edge |
| `RetireTarget` | the UPDATE of the target's status |
| `SelectRestatements`, `RetireRestatement`, `ExplainRestatement`, `EndCascade` | `_cascade_supersede` |
| `CallFails` | a statement raises or the process stops; the rest of the call is lost |

Abstractions. A fact id is a model value whose `Identity` is the input of its hash: namespace,
write path, source key and body; equal inputs give equal ids and hashes do not collide. A body
is a model value with the three things the code computes from it as constants: pairwise
similarity in per cent, value tokens with their shapes, and whether it reads as a directive.
`created_at` is a logical clock that every INSERT of a new row advances, so it is assumed that
rows are stamped in the order in which they are inserted (each INSERT is its own transaction;
two INSERTs within a microsecond, or stamped in one order and committed in the other, are not
modelled). Reads of columns that are never updated (body, embedding, namespace,
`created_at` of a stored row) commute with all other statements and are merged into the step
that uses them. Edges that neither the cascade nor search reads (`contradicts`, `relates_to`,
`rollup_of`) are left out here; `SubAgent` has the `rollup_of` edges. The status 'archived' is
never set by the code and is left out. `torn` and `settled` are history variables that only
properties read: the facts a failed call left between two statements, and the corrections
whose `add_edge` has returned. A call without a reference, and a call that fails before its
edge is inserted, do the same thing: `WriteOnly`.

Bounds. `MaxCalls` bounds the calls with a reference; calls without one are bounded by the
finite set of facts. `Reassert` says whether a stored fact may be written again: `FALSE`
isolates what holds while every assertion is new, `TRUE` is the unrestricted program.

### Retrieval

`DeepestFrom` is the recursive query of `search`: the rows at the greatest depth reached from a
fact along supersedes edges, at most ten deep; `HeadOf` picks the newest of them. `Matchable`
and `Surfaced` are the filters before and after that step. Ranking by distance and the cut to
k rows are left out, so `Surfaced` is everything *some* query can bring up; a property that
nothing stale is in it holds for every query.

### SubAgent

One `_run` per task. While the agent runs, other tools and hooks record facts into its
namespace (`Record`) concurrently with the statements of a `conclude_task` call: one INSERT per
fragment of the summary (`WriteClaim`), one SELECT of the child's facts (`SelectFindings`), one
INSERT per `rollup_of` edge (`LinkClaim`), and at last `concluded["fact_id"]` (`EndConclude`).
The agent ends (`EndAgent`) by raising, with a
text, or with an empty string, when ToolNode has joined its threads. Then the wrapper answers,
or writes a fallback with one of its four bodies (`Synthesized`), links it and answers.
`Fails` collects what can raise: `ForkFails` before the agent starts, `ConcludeFails` at any
statement of a call, `FallbackFails` in the fallback, which `_run` does not catch. Failures are
in no fairness condition, so no property can rest on one. Namespaces of different
tasks are disjoint (fork suffixes are assumed fresh), so per-task functions are the state. The
`supersedes` edge of a conclusion is `FactStore`'s `ConcludeTask`; here it is part of
`EndConclude`.

`EnforcedRollup` keeps of all this the outcome of each task and the set of tasks the parent's
namespace holds a summary of: a task is answered only when it is in that set, nothing leaves
the set, and nothing enters it for a task that is over. The refinement mapping sends `phase` to
the outcome and `summaries[t] # {}` to membership.

### Selection and SearchMemory

One search by one reader, while other agents add edges. `at` follows the code:

    idle -> ranked -> select -> done -> render -> idle
        Rank  ReadParents  (loop)  ReadNeighbours  Return

| Action | Code |
|---|---|
| `Rank` | the ranking query of `search`, cut to `k * _OVERFETCH` rows |
| `ReadParents` | `_derived_parents`, a statement of its own |
| `Pass`, `PassAgent`, `Keep`, `Selected` | one row of the loop of `_select_top_k`: a restatement or a full capture, a full agent, a slot; the end |
| `ReadNeighbours`, `NothingFound` | `neighbours`, the third statement, and the seeding of `seen` |
| `PrintHit`, `PrintNeighbour`, `NextHit`, `Return` | the loop of `search_memory` over hits and their neighbours |
| `Relate`, `Derive` | `add_edge` and `_record_provenance` of other agents, at any time |

Abstractions. The distances only order the rows: every order of every subset of the facts is
considered. Bodies only order the neighbours of one relation (the shorter first), so any of
them may come first. `skipped` and `asRead` are history: the rows passed over, and the edges of
the store when `neighbours` read it, against which `NeighboursTold` measures the text. The
counters are the code's: `PassAgent` counts the row's capture although the row is not kept,
because the code increments `per_source` before it looks at the agent (`store.py` 205).

### Segmentation

A text is what the regular expressions see: sentences, each a sequence of parts and the
separators between them, with a label before a colon or without. A part is a model value of
which constants tell where in it a clause verb stands (`VerbAt`: between two words, first, last
or alone), and whether it is long enough, holds a digit, a word, or opens as an instruction or
a goal. The place matters because `_looks_like_clause` asks for a space on both sides of the
verb: the ends of the text are padded, within it the separators decide (`AfterSpace`,
`BeforeSpace`, `Clause`), and a comma has no space before it. A label is a part, too: it is
dropped by a split, and counts where the sentence is kept whole. `Unworded`, `Conjoined` and
`OpensAsDirective` are `_first_word` and `_strip_leading_conjunction`, which look past digits
and one conjunction. `SplitIntoFacts` (with `Enumerates`, `Merged`, `SplitEnumeration`) is
`split_into_facts`, its merging loop the recursive function `merged` of the parts read so far
(one turn is `MergePart`); `Substantive` and `IsDirective` are
`is_substantive` and `classify_fragment`; `UserFactSpecs` is `_user_fact_specs`. A fragment is
an interval of parts with the joints that are written between them, so that what the split
does to the wording (a strong separator becomes a comma, a short label is dropped) is kept. The
state machine only writes a message sentence by sentence (`Write`) and captures it (`Capture`);
its purpose is to enumerate the inputs.

### Middleware

One agent, one invocation at a time; a turn goes `before -> wrap -> model` and then either
`tools -> before` or `after -> user`.

| Action | Code |
|---|---|
| `Send` | the host appends a user message and invokes the agent |
| `CaptureClaim`, `Heard` | `before_model`: every claim of every human message, one `write_fact` each, again at every model call |
| `Inject` | `wrap_model_call`: window, exclusion, search, system message, `_last_injected` |
| `CallTools`, `Answer` | the model |
| `ToolReturns`, `CaptureResult`, `CaptureResultFails`, `ToolsDone` | `wrap_tool_call` on ToolNode's threads |
| `RecordClaim`, `RecordLink`, `EndTurn` | `after_model`: a claim of the answer, then its `derived_from` edges |
| `Raise` | a hook, the model or a tool raises: the run is over, what was written stays. `handler` is called outside the `try` of `wrap_tool_call`; the executor lets the other tools finish first |

A fact is an id; a message is the set of ids it is split into. `Candidates` bounds what a search
may return from above: any k of the facts stored where the agent reads (its own, and `Others`,
recorded by its sub-agents) that are neither directives nor excluded. Heads, their readability,
the ranking and the cut are in `Retrieval` and `Selection`, and what holds for every such choice
holds for the one they make; nothing is said here about what *is* found. `kept`, `inject` and
`captureFinal` are chosen once: whether the host keeps the conversation or starts a new one with
each message, and two options of the constructor. A host that starts anew is the treatment arm
of the benchmark, and the reason why memory matters. `shown` and `owed` are history: what was
injected when an answer was given, and the edges that this answer is due. Ids of messages do not
collide and a tool's result does not repeat a user's claim verbatim (`MiddlewareAssumption` asks
it of memory tools only).

### Clients, Connections, Harness

`Clients` is `ResilientChatOllama._generate` with one cache key. A thread's `step` is

    request -> probe -> restart -> poll -> lock -> set -> close -> again -> retry
                  |________________________________^

`Healthy`, `Unhealthy`, `Restart` and `Poll` are `ensure_healthy`, whose probe a busy server may
fail (`ProbeFails`; `MaxFailures` bounds these and the requests that fail on a healthy server);
`Lock`, `SetClients` and `CloseOld` are `_rebuild_clients`; `MakeLlm` and `CloseLlms` the cache.
The server is external: it is healthy, wedged or starting (`Wedge`, `Started`). A request is
lost when the server is restarted or its client closed under it. `Connections` is
`_ThreadLocalConnection`: `Connect` and `Register` are the two halves of `_get`, `Lose` an
exception between them, `CloseAll` is `close`, which closes what the class's registry holds, and
`ThreadsEnd` is the end of ToolNode's threads.

`Harness` is `run_once`: `StartTurn`, `Cancel`, `Record`, `RecordError`, `Cleanup`, `Release`
are its loop, `Expire`, `RaiseTimeout`, `AbandonTools`, `UnwindJoined` and `DumpFires` its two
deadlines. In
between, the main thread and the tool threads execute statements (`Statement`,
`KeepConnection`) and call the model (`CallModel`, `SubAgentCalls`, `Model`), each of which may
raise (`ConnectFails`, `MainRaises`, `CallRaises`, `ToolRaises`); `FanOut` and `Join` are
ToolNode. A tool that returns an error as text is one that returns. One that raises ends the
turn (`JoinRaises`): the exception passes through ToolNode's executor, which waits for the other
tools (`unwinding`) with the alarm still armed. `RaiseTimeout` is a `TurnTimeout` in whatever the
main thread is doing, between any two of its steps; if that is the wait for the tools, the
executor goes on waiting before the exception leaves it. `AbandonTools` is one in that second
wait, of which there is nothing more to wait: the tools at work are nobody's (`abandoned`), and
may go on into later turns. Elsewhere, while another exception is leaving the turn, a
`TurnTimeout` would only take its place. `stray`, `dropped` and `abandoned` are history: what an
exception kept from being registered, closed or joined. A connection that the server drops is
replaced like one that is missing.

### Playground

FastAPI runs each handler on a thread of its pool, and every turn has a worker thread; both
share `_chats` without a lock. A thread of the model is `<<q, "request">>` or `<<q, "worker">>`
for a request `q` (create, rename or post), and `pc` says what it does next:

    request  idle -> (append) -> save -> write -> (schedule) -> answered
    worker   test -> wait -> mark -> marking -> run -> keep -> keeping -> test ... off

A thread whose `_save` raises goes to `failed` (a request, answered with an error) or `died` (a
worker, which frees the GPU as it ends); a restart makes both of them, and a request that was
under way, `lost`.

| Action | Code |
|---|---|
| `CreateChat`, `Rename` | `create_chat` and `rename` up to their `_save` |
| `CountTurns`, `AppendTurn`, `Schedule` | `start_turn`: `n = len(...)`, the append, `_schedule` and the response |
| `BeginSave`, `RequestSaved`, `RunArm`, `ReleaseGpu` | the two halves of `_save` (dump and truncate; write), with what follows them in the caller |
| `TestArm`, `TakeGpu`, `ArmAnswers` | the loop of `_execute_turn` |
| `Growing` | a key added to `_chats` or to a chat, which makes a loop of `_save` in another thread raise |
| `Restart` | the process stops between any two steps; `_load`, then `_resume_unfinished` |

Abstractions. A turn keeps which arms have answered, not the answers, and a chat whether it has
the key `named`, not its title. The dump of the data and the opening of the file are one step:
between them nothing is shared with another thread but `_chats`, and what an interleaving there
would leave in the file, the later open followed by the older dump, two overlapping writes leave
as well. (A `json.dumps` or an `open` that raises leaves the file as it was: the save has no
effect at all. Only a write that raises is modelled.) A write onto a file that another one has
written since may leave a mixture, which `_load` cannot parse. `executions` and `saved` are
history variables: how often an arm was run since a restart last found it unanswered, and the
posts that some completed write contained. The constants are switches of the environment:
`OneAtATime` is what the page (`static/index.html`) does, which disables Send while a message is
under way; `IterationRaises` admits the failing loop of `_save`; `WritesFail` admits an
exception inside its `suppress`.

## Runs

| Run | Instance | Shows |
|---|---|---|
| `store_faults` | 4 facts, root and one fork, facts asserted again, failing calls, 3 calls with references | `TypeOK`; `StatusMatchesEdges`: outside torn calls the status column and the supersedes edges agree; `CascadeComplete`: what a returned correction retired stays retired |
| `store_fresh` | 5 facts, root and two forks, failing calls | `SupersedesComparable`, `CorrectionsPointBack`, `HeadIsCurrent`, `StaleNeverSurfaces`, `DirectivesHeldOut` and, with fairness, `CallsReturn` |
| `subagent` | two tasks that share a thread, two findings, two fragments, a second conclude call, failures | `TypeOK`, `ConclusionRolledUp`, `FallbackRolledUp`, `NoFallbackOnceConcluded`, `AnswerBacked`, `KeepsContract` (the refinement) and, with fairness, `TasksEnd` |
| `search_memory` | four facts of two sub-agents and the reader, three more reached by edges, up to three slots, with and without a cap per capture | `VoicesCapped`, `NoRestatement`, `SlotsFilled`, `ShownOnce`, `NeighboursTold` |
| `capture` | every sentence of up to three parts of nine kinds and three separators, and one sentence of framing after it | `EveryPartOnce`, `NothingStatedIsLost`, `NoFraming` |
| `middleware` | two turns with up to two rounds of tools each, a window of two messages, two facts injected, hooks and tools that raise | `HeardBeforeAnswered`, `ProvenanceExact`, `MemoryNotFedBack` |
| `harness` | two turns, a main thread and two tool threads, a server that wedges once, statements and tools that raise, both deadlines | `OneOpenClient`, `CurrentIsOpen`, `NothingOutlivesRun`, `NoDeadlineBetweenTurns`, `OneRecordPerTurn`, `TurnsDoNotOverlap` and, with fairness, `TurnsEnd` |
| `playground` | one chat, a rename, two turns posted one after the other, failing writes, iterations that raise, one restart | `TypeOK`, `IndexedByN`, `ExecutedOnce` and, with fairness, `TurnsAnswered` |
| `reasserted_value` | violation | a user corrects a value and goes back to the first one: each of the two versions supersedes the other and search returns both, superseded, against README line 578 |
| `rebuild_disturbs` | violation | one request that fails on a healthy server closes the shared client under another thread's request, against the docstring in `demo/llm.py` 101-103 |
| `turn_stranded` | violation | two messages posted to one chat at once get the same `n`; one turn is never executed, against the docstring in `playground/app.py` 250-252 |
| `transcript_lost` | violation | a restart between truncation and write loses saved turns, against the comment in `playground/app.py` 32 |

The violations are one property each, and each is a disagreement of the code with a line of its
own documentation; `PROJECT.json` quotes the lines under `findings`. The passing runs show what
does hold next to them: `playground`, for instance, that with the page's own discipline the
index, the lock and the resumption are right, and `harness` that rebuilding a client, however
often, never leaves two of them.

More disagreements and observations need no run, because the text explains them and the models
have them as steps or as exceptions of their properties:

* A cascade that stops between the UPDATE of a row and the INSERT of its edge (`store.py` 528)
  leaves a retirement nothing explains, against the comment at 529-530. `torn` is this case in
  `StatusMatchesEdges`.
* A fork's correction of a shared fact hides the claim from its siblings (README 332-334 says
  that nothing is hidden; the comment at `store.py` 657-659 says that this is meant).
* A fact recorded while `conclude_task` runs is not rolled up (`tools.py` 207), against section
  5 of the design document; hence "when the call began" in `ConclusionRolledUp`.
* A sub-agent that raises after it has concluded is answered with "completed" (`subagent.py` 67
  and 136), against README line 249: `AnswerConcluded`.
* The fallback of `_run` can itself raise, at its embedding or INSERT, which leaves the parent
  without a trace of the task (design document, section 5.1): `FallbackFails`.
* `split_into_facts` joins merged parts by ", " whatever separated them and drops a short
  label, so a fragment need not be a substring of the message, against its docstring
  (`segment.py` 209-214) and README 316-318: `JoinToLast`.
* A part whose last word is its verb is a clause by itself, because `_looks_like_clause` pads the
  text, and none any more when the next part has been joined to it with ", ": of "It must be
  self-hostable, keep to the budget we have, strictly." only the first part is stored, against
  "keeps every stated constraint" (`segment.py` 140-141). `NothingStatedIsLost` therefore asks
  for a space behind the verb.
* A label of at most three words goes with any figure or verb it holds (`segment.py` 165). Only
  the label; `NothingStatedIsLost` speaks of the parts.
* A fact that is cited as superseding itself gets an edge to itself; `OnlyActiveSurface` leaves
  such graphs out, so that its trace is the ordinary case.
* The exclusion is derived from the user's messages only (`middleware.py` 350): when the host
  keeps the conversation and the answers are captured, an answer is injected into the next turn
  while it is still in the window, although the comment at 338 says "facts derived from messages
  still visible raw must not re-inject". What the code does exclude, it excludes by one filter,
  and no property restates it.
* A failed `conclude_task` that is not repeated leaves its fragments in the parent beside the
  fallback: the task counts as not concluded (`NoFallbackOnceConcluded`).
* A run's embedder has an HTTP client of its own (`conditions.py` 328), which nothing closes,
  against "One run's sockets cannot outlive it"; the model has no such client, and
  `NothingOutlivesRun` is about the shared client and the registered connections.
* With `CONTEXT_MAX_PER_SOURCE` set, a row that the cap of its agent passes over has used up a
  slot of its capture (`store.py` 205): the third case of `SlotsFilled`.
* An edge between two hits belongs to its source, where the other end, being a hit, is not
  printed again: such an edge is never told. `NeighboursTold` promises that both ends are there.
* When a tool has raised and the deadline strikes where the executor waits for another one, the
  wait is over, the turn is recorded, and that other tool goes on calling the model and writing
  to the store in the next turn: "a fired deadline costs one turn" (`harness.py` 31) does not
  hold. `AbandonTools` is this step and `abandoned` the exception of `TurnsDoNotOverlap`.
  Whether the handler runs during the wait depends on the interpreter (`harness.py` 161-164 says
  that it does not; CPython's lock waits have let handlers run since 3.2), so the model has both.
* "A fired deadline costs one turn" (`harness.py` 30) does not hold when the tools of the turn
  go on beyond the watchdog's margin: `DumpFires` then ends the run. `TurnsEnd` has this as one
  of its two outcomes.
* `_save` iterates over shared dictionaries outside its `suppress` (`playground/app.py` 84),
  against the comment at 92: the exceptions of `TurnsAnswered`.

Why these bounds. The facts of the store instances are chosen so that every path happens: a
user's statement and its near-verbatim echo (the verbatim threshold of the cascade), a claim on
the topic that repeats the value (the value test), one elsewhere that mentions it (the topical
floor), a question (a directive), and two corrections, from the root, from either fork and as a
conclusion. Three calls with references are what the hazards need: a correction, a correction of
it or beside it, and one that fails or races them. Two tasks on one thread make one wait for the
other, and their namespaces are disjoint, so a third would add nothing to safety; one task
concludes up to twice, which gives a failed call and its retry, and the other leaves it to the
wrapper; two findings and two fragments distinguish "linked to all" from "linked to some". In
`search_memory` one slot per agent and up to three slots out of a window of twice as many make
each reason to pass a row over occur with and without a row behind it; `a1` and `a2` are one
agent's, in its own namespace and as a conclusion, and `a1` and `b1` one capture's. The edges
give the reader's own fact more neighbours than it may show, one of them a hit. In `capture`
three parts are the shortest sentence in which a part joins a fragment that already has joined
one, and two sentences the shortest message with a numbered fragment that is dropped. In
`middleware` two rounds of tools push a message out of a window of two, the second turn has a
message of its own and an older one to recall; two injected facts distinguish "all" from "some".
In `harness` two tool threads and the main one make two rebuilds overlap with a request, and let
one tool raise while another is at work; two turns are needed for a client, a timer or a tool to
outlive its turn; a `RecursionLimit` of one makes the limit fire after the first round of tools.
One connection is enough to be lost or not closed, whichever thread makes it, and a server that
wedges gives all the failed requests and probes that matter here (`MaxFailures` is 0; a request
that fails without that is in `rebuild_disturbs`). In the playground one chat suffices, for
chats share only the lock and the file; two turns contend for the lock and for the file, the
rename is a save beside theirs, and one restart may come between any two steps, in particular
after one arm of a turn.

`CHECK_DEADLOCK FALSE`: the callers of a bounded instance run out of facts, calls, sentences
and turns; a finished task stays finished, and a search that has nothing left to read ends.

Fairness. `FairSpec` of the store has weak fairness on each caller's statements: a thread in a
call executes the next statement, and PostgreSQL answers or raises. Nothing makes an agent
begin a call. In `SubAgent`, threads run on, the parent's ToolNode starts a queued task when a
thread is free, and an agent ends: LangGraph's recursion limit stops one that only calls
tools. In `Harness` the main thread, the threads inside a model call, the clock and the
watchdog run on; a model call ends because its client has a timeout. Nothing makes a tool
return, a connection be made, the restarted server come up or the handler of SIGALRM run: a
turn ends all the same, and this is what the second deadline is for (its mutant, without the
watchdog, violates `TurnsEnd`). In `Playground`, threads run on, and a model call answers or
times out (`_run_arm` turns an exception into an answer). `threading.Lock` promises no order,
and none is assumed: the number of turns is finite and a worker takes the lock at most twice,
so weak fairness of each worker suffices. Nothing makes a browser send a request or a server
restart.

## Theorems

They hold for every set of facts, callers, namespaces, tasks, messages, tools, threads, chats and
requests, every ranking and every cap, and for every similarity, tokenisation and classification
of bodies.

| Module | Theorem | Statement |
|---|---|---|
| `FactStoreProofs` | `TypeCorrect` | `Spec => []TypeOK` |
| | `ForksStayApart` | `Spec => []SupersedesComparable` |
| | `RecordsAgree` | `Spec => []StatusMatchesEdges` |
| | `CorrectionsHold` | `Spec => []CascadeComplete` |
| | `CorrectionsForward` | `Spec => []CorrectionsPointBack` |
| | `DirectivesStayOut` | `Spec => []DirectivesHeldOut` |
| | `OnlyDepthHides` | `Spec => []LiveUnlessBuried`: while no stored fact is asserted again, every match resolves to a live head, unless it lies under eleven different corrections |
| | `HeadsAreCurrent` | `Spec => [](begun <= SUPERSEDE_MAX_DEPTH => HeadIsCurrent)` |
| | `StaleStaysDown` | `Spec => [](begun <= SUPERSEDE_MAX_DEPTH => StaleNeverSurfaces)` |
| | `NoCircularCorrection` | `Spec => []NoCircle`: no claim corrects itself, however indirectly |
| `SubAgentProofs` | `TypeCorrect` | `Spec => []TypeOK` |
| | `RollupIsEnforced` | `Spec => KeepsContract`: delegation implements `EnforcedRollup` |
| | `ConclusionsAreLinked` | `Spec => []ConclusionRolledUp` |
| | `FallbacksAreLinked` | `Spec => []FallbackRolledUp` |
| | `OneVoice` | `Spec => []NoFallbackOnceConcluded` |
| | `AnswersAreBacked` | `Spec => []AnswerBacked` |
| `SearchMemoryProofs` | `TypeCorrect` | `Spec => []TypeOK` |
| | `EveryVoiceCapped` | `Spec => []VoicesCapped` |
| | `NothingRestated` | `Spec => []NoRestatement` |
| | `NoSlotWasted` | `Spec => []SlotsFilled` |
| | `NothingShownTwice` | `Spec => []ShownOnce` |
| | `EveryRelationTold` | `Spec => []NeighboursTold` |
| `SegmentationProofs` | `NothingSplitTwice` | `Spec => []EveryPartOnce` |
| | `EverythingStatedIsKept` | `Spec => []NothingStatedIsLost` |
| | `FramingIsNotMemory` | `Spec => []NoFraming` |
| `MiddlewareProofs` | `TypeCorrect` | `Spec => []TypeOK` |
| | `HeardFirst` | `Spec => []HeardBeforeAnswered` |
| | `AnswersDerive` | `Spec => []ProvenanceExact` |
| | `NothingFedBack` | `Spec => []MemoryNotFedBack` |
| `HarnessProofs` | `TypeCorrect` | `Spec => []TypeOK` |
| | `OneClient` | `Spec => []OneOpenClient` |
| | `CurrentClientOpen` | `Spec => []CurrentIsOpen` |
| | `RunReleases` | `Spec => []NothingOutlivesRun` |
| | `DeadlinesDisarmed` | `Spec => []NoDeadlineBetweenTurns` |
| | `TurnsRecorded` | `Spec => []OneRecordPerTurn` |
| | `TurnsApart` | `Spec => []TurnsDoNotOverlap` |
| `PlaygroundProofs` | `TypeCorrect` | `Spec => []TypeOK` |
| | `TurnsNumbered` | `OneAtATime /\ Spec => []IndexedByN` |
| | `ArmsRunOnce` | `OneAtATime /\ Spec => []ExecutedOnce` |

Assumptions: `FactAssumption` (an id determines its input and conversely), `CallerAssumption`
(every caller is bound to a namespace) and `SwitchAssumption` for the store;
`SubAgentAssumption` (a fragment of a summary is not one of the four fallback bodies);
`SelectionAssumption` and `SearchMemoryAssumption` (what is finite is finite, and hits are
readable and no directives, which is what `search` filters for); `SegmentationAssumption` (a
sentence has one separator less than parts, and a comma is a separator); `MiddlewareAssumption`
(the facts of a recalled text are not those of the user, of another tool or of an answer);
`ClientsAssumption`, `ConnectionsAssumption` and `HarnessAssumption` (the types of the bounds;
every thread may execute statements); `PlaygroundAssumption` (the kind and the chat of each
request), and, for the two theorems that name it, `OneAtATime`: the page posts a chat's next
message after the response to the last. Without it two posts may count the same turns.

### The store

None of the store's properties is inductive. The argument is layered, each layer an inductive
invariant under the ones below it:

1. `Typed`: types, and the two facts of a call in progress are facts.
2. `OnBranch`: the two facts of a call that will supersede are on one branch (a reference is
   resolved on the caller's chain and the new fact is on it as well, `ChainComparable`); the
   rows on a cascade's list are in the target's namespace. Gives `SupersedesComparable`.
3. `CallsRecord`: a call that has come to its UPDATE has inserted its edge; its target, and the
   row it is about to explain, are superseded. Gives `StatusMatchesEdges`.
4. `Timed`: no row is newer than the clock, what is on a list is older than the correction, and
   the correction is stored. So nothing *becomes* a restatement of an earlier correction
   (`StaleStable`), which is what lets one SELECT at one moment suffice.
5. `Listed`: what is stale and not yet retired is on the list of the running cascade. With
   layers 3 and 4 gives `CascadeComplete`.
6. `Aged`: while nothing is asserted again, a fact about to be written is not stored and has
   one writer, so it gets a stamp above its target's. Gives `CorrectionsPointBack`, and along a
   chain of corrections (`ChainRises`) `NoCircularCorrection`.

What search makes of the graph is a function defined by recursion, `DeepestFrom`. `WalkExists`
gives its equations, and induction on the depth what it reaches (`WalkReaches`): at least one
row, and besides the match only rows that correct something. A directive corrects nothing
(`NoDirectiveCorrects`; a summary or an agent's claim may supersede, an instruction of the user
never does), hence `DirectivesStayOut`. The head is the newest of the deepest rows; where the
walk is not cut off nothing supersedes it, so by layer 3 it is live (`UnsupersededIsCurrent`).
Where the walk is cut off there is a chain of one edge more than it may follow
(`CutOffByDepth`). While nothing is asserted again, ages rise along it (`ChainsRise`), so its
facts are all different. Together: `OnlyDepthHides`, where the length of the match's own chain
is what counts, whatever else has been corrected. With `Reassert` a circle of edges is a chain
of any length, and nothing of the kind holds: `reasserted_value` is the counterexample.
`HeadsAreCurrent` counts instead: a cut-off walk has passed eleven distinct facts that correct
something (`CutOffWalk`, distinct for the same reason), and each was written by a call of its
own (`CorrectorsCounted`), so until eleven calls with a reference have begun every head is live.
`begun` counts the calls of the whole history; the bound is what `SUPERSEDE_MAX_DEPTH` costs,
not an assumption of the model, and a run of TLC stays below it. `StaleStaysDown` adds
`CascadeComplete`.

### Delegation

One inductive invariant, `Inv` of `SubAgentProofs`, a conjunction per task.
`CallInv` says that a call in progress has stored the fragments it is done with, and that every
edge due to a fact that was there when it began is stored or pending; `FallbackInv` says that a
fallback exists only for a task without a conclusion, from the moment the wrapper writes it, and
that its edges are stored or pending. A step of one task frames all others (`OthersFramed`,
`FrameKeeps`), so each case concerns one task. The refinement uses the invariant at one point:
an answer is given only when the summary is there (`Contract!Answer`).

### Search

`RoomLeft` says that the loop goes on only while there is a slot left, which gives the bound in
`TypeOK`. `Counted`: the counter of an agent is the number of its delegated rows among those
kept, and at most the cap (`EveryVoiceCapped`; the step needs the cardinality of the set of
positions after an `Append`, `SlotsAppend`). `EachRowOnce`: what is left to look at is distinct
from what is kept, because a ranking has each fact once; with it `NoRestatement` is inductive.
`LineInv`: everything printed is in `seen`, every hit is in it from the start, and a hit has no
line but its own; with it `ShownOnce` is inductive. `PassedInv`, for `SlotsFilled`: a row passed
over has its reason (`PassedFor`) when it is passed and keeps it, because parents are only read
once and the rows kept are only added to; a capture with a count has a row that was looked at,
kept or passed over (`CaptureCounted`). `ToldInv`, for `NeighboursTold`: `graph` is what was
read of the hits' readable neighbours (`GraphRead`); what is in `seen` is a hit or printed
(`SeenForReason`); what is printed at a hit is at least as telling as what is not (`BestShown`);
and a hit that has been left has no neighbour left, or as many lines as it may have
(`LeftWhenTold`).

### A message

`SplitIntoFacts` is two loops, one over the parts of a sentence, a recursive function, and one
over the sentences, `FlattenSeq`. For each there is a lemma that it equals the value after the
last turn of a function on the numbers (`MergedInTurns`, `FlattenExtends`), and an invariant of
the loop: `Block`, the fragments so far cover the first parts of the sentence, in order and one
by one, whether the next part stands alone (`BlockAlone`) or is joined to the last fragment
(`BlockJoined`); and `Tiled`, the same for the first sentences of the message. At the end
`Tiled` gives `NothingSplitTwice`; with `KeptSpecs`, what the filter lets through, it gives
`EverythingStatedIsKept`, where a part is in a fragment, and the fragment inherits from it the
verb, the figure or the opening for which it is kept: a verb between two words of its part
whatever is joined to it, one that begins its part if the separator before it ends with a space,
as the comma that may take its place does. A verb that ends its part is not inherited.

### A turn

Four invariants above `TypeOK`, one for each thing a turn promises. `Heeded`: what the messages
say is stored or still to be written while `before_model` runs, and stored afterwards; an
exception ends the run, and the next one starts over with all messages. `ContextInv`: during a
model call `_last_injected` is what was injected, whatever the search found. `DerivationInv`:
while an answer is recorded, each edge it is owed is stored, due for the current claim, or due
for a claim still to be written, and no other edge is due; it needs that `_last_injected` is
what the call was shown, which is `ContextInv`. `NoFeedback`: no recalled fact is stored, about
to be, or in what the user said.

### A run

`HarnessInv` is the conjunction of `TypeOK` and four parts, in which each theorem is one or two
conjuncts. `RebuildInv`: who is between the lock and the close of a rebuild holds the lock and
knows the client that was current when it took it, so besides what interruptions dropped only
the current client and the one being replaced are open. `DoingInv`: a thread in a model call
is on its turn, and the tools that were not abandoned work only while the main thread waits for
them or leaves the turn. `LoopInv`: the timers and the length of the transcript in each phase
of `run_once`. `KeptInv`: an open connection is in the registry, or with the thread about to
put it there, or was kept out of it by an exception. `NextClients` and `NextRun` reduce a step of
the composition to what it does to the client and to the run, so that each part is proved over
its own actions.

### The playground

`TurnsNumbered` needs `IndexInv`: every turn is at the position its `n` names, in `_chats`, in
every dump on its way to the file, and in what the file would be loaded as; and a post that has
counted the turns and not yet appended its own is the only one in its chat, so the count still
holds (`CountHolds`, where `OneAtATime` is used). `ArmsRunOnce` adds three layers. `OwnedInv`:
in all those tables a turn is in the chat its request named, is the only turn of that request,
and the request has appended it. `WorkerInv`: a request whose worker has not started has no
other worker, and from the append until its worker ends, the turn that worker looks up is the
request's own; after a restart too (`FoundAgain`, which is where the numbers of the turns are
needed). `RunInv`: an arm that was run has answered or is running, and no worker is about to
run an arm that has answered; so the test, which is not repeated under the lock, suffices.
`TurnsMove` says what a step may do to the turns at all: append one, or add an answer to one.

### Recursion

The library's induction theorems take an operator as a parameter, which the provers cannot
instantiate. `Recursion` states what is needed with sets and functions instead: `LeastNumber`
and `Induction` for sets of numbers, from the well-foundedness of their order;
`RecursiveFunction`, that primitive recursion defines a function, built from its finite
approximations (`UpTo`); `RecursionUpTo`, that a function with the same equations up to a number
agrees with it that far.

### Only model-checked

Liveness (`CallsReturn`, `TasksEnd`, `TurnsEnd`, `TurnsAnswered`), which needs fairness and
`ENABLED`, and the four refuted claims. `HeadIsCurrent` and `StaleNeverSurfaces` are proved up
to the depth bound of the walk, beyond which the code does not promise them.

## Not modelled

* Embeddings: an HTTP call; its result is the constant `Similarity`, its failure a failing call.
* Hashing and normalisation in `ids.py`, and collisions of hashes or short ids beyond what
  `Resolvable` says (an ambiguous prefix is refused).
* The coercion of malformed arguments in `tools.py` and `demo/conditions.py`
  (`_permissive_args_schema`, `_crash_safe`, `_subagent_output`), and the wording of messages.
* The regular expressions of `segment.py` themselves: which kind a given text is. A separator at
  the end of a sentence, an empty part and a part that ends with a comma of its own are left out.
* Of the demo: the embedder's HTTP client, which no code closes, the baseline arm, which has no
  memory, the snapshot of the database after a run and the result file; the scoring, retrieval
  evaluation, profiler and LongMemEval drivers, which measure recorded transcripts and keep no
  state another part reads.
* Of the playground: building the arms' handles (`_arms`), titles and displayed statuses, the
  read-only handlers and the web search tool.
* Scripts, recorded results and scenario texts.

## Plan

1. `FactStore`, `Retrieval`, `FactStoreProofs`: done. Left: what `OnlyDepthHides` leaves open, a
   claim that was corrected more than ten times, for which the cut-off walk should return a
   correction that is newer than the match; that the walk agrees with an unbounded one below the
   bound; and that `ancestor_chain` and `descendant_scope` are converses.
2. `SubAgent`, `EnforcedRollup`, `SubAgentProofs`: done.
3. `Selection`, `SearchMemory`, `SearchMemoryProofs`: done.
4. `Segmentation`, `SegmentationProofs`: done. Left: that a part joined to a fragment is the only
   one without a clause of its own, so a fragment holds one claim.
5. `Middleware`, `MiddlewareProofs`: done. Left: two invocations that share one middleware, and
   with it `_last_injected`.
6. `Clients`, `Connections`, `Harness`, `HarnessProofs`: done. Left: what abandoned tools can
   still do to the client and the connections of a run that is over.
7. `Playground`, `PlaygroundProofs`: done.
8. `recall_from_subagents` with its grouping by sub-agent.
