----------------------------- MODULE Middleware -----------------------------
(***************************************************************************)
(* BeadsMemoryMiddleware around one agent (middleware.py): what each hook  *)
(* writes to the store, what the model is shown, and how what it was shown *)
(* is recorded as the provenance of what it answers.                       *)
(*                                                                         *)
(*   before_model --> wrap_model_call --> model --+--> after_model         *)
(*        ^                                       |                        *)
(*        +------- tools, wrap_tool_call <--------+                        *)
(*                                                                         *)
(* A message is what is captured from it: the set of facts it is split     *)
(* into (Segmentation).  Each fact is a statement of its own.  A hook, the *)
(* model or a tool that raises ends the run; only what the capture of a    *)
(* tool's result raises is swallowed.                                      *)
(***************************************************************************)
EXTENDS Naturals, Sequences, FiniteSets, SequencesExt

CONSTANTS
  UserText,      \* messages of the user, by their ids, in the order they are sent
  ClaimsOf,      \* ClaimsOf[m]: the facts of message m
  Directive,     \* those of them that are questions and instructions
  Tool,          \* tools a message of the model can call
  MemoryTool,    \* those the middleware binds: _memory_tool_names
  TextOf,        \* TextOf[t]: the facts t's result would be split into
  Conclusion,    \* facts an answer can be split into, keyed by their content
  Others,        \* facts its sub-agents may have recorded in their namespaces
  Window,        \* window
  K,             \* k
  MaxRounds,     \* bound: messages with tool calls per turn
  StoreFails     \* may a statement raise?

Text == { UserText[i] : i \in 1..Len(UserText) }
Said == UNION { ClaimsOf[m] : m \in Text }
Returned == UNION { TextOf[t] : t \in Tool }
Fact == Said \cup Returned \cup Conclusion \cup Others

\* The facts of memory tools' results are recalled ones, reported as text: they
\* are facts of their own, as their keys would be.
Recalled == UNION { TextOf[t] : t \in MemoryTool }

ASSUME MiddlewareAssumption ==
  /\ UserText \in Seq(Text)
  /\ IsFiniteSet(Tool) /\ MemoryTool \subseteq Tool /\ Directive \subseteq Fact
  /\ Recalled \cap (Said \cup Conclusion \cup UNION { TextOf[t] : t \in Tool \ MemoryTool }) = {}
  /\ Window \in Nat \ {0} /\ K \in Nat /\ MaxRounds \in Nat /\ StoreFails \in BOOLEAN

Message == [type : {"human", "call", "tool", "answer"}, facts : SUBSET Fact]

VARIABLES
  kept,         \* does the conversation go on, or start anew with each text?
  inject,       \* inject, or search_tool: recall is the model's own affair
  captureFinal, \* capture_final: a root agent's answers are stored
  sent,         \* texts the user has sent
  msgs,         \* state["messages"]
  at,           \* the hook, or who is acting
  todo,         \* facts the hook has yet to write
  links,        \* edges after_model has yet to insert for its current fact
  called,       \* tools the last message calls
  running,      \* those still at work
  capturing,    \* capturing[t]: facts of t's result not written yet
  rounds,       \* messages with tool calls in this turn
  stored,       \* facts of the agent's own namespace
  derived,      \* derived_from edges
  memory,       \* the facts in the system message of this model call
  lastInjected, \* _last_injected
  shown,        \* history: <<f, g>>: g was shown to the model when it answered f
  owed          \* history: those of them that this turn's answer gave rise to

setup == <<kept, inject, captureFinal>>
toolVars == <<called, running, capturing>>
contextVars == <<memory, lastInjected, shown, owed>>
vars == <<setup, sent, msgs, at, todo, links, toolVars, rounds, stored, derived, contextVars>>

TypeOK ==
  /\ kept \in BOOLEAN /\ inject \in BOOLEAN /\ captureFinal \in BOOLEAN
  /\ sent \in 0..Len(UserText)
  /\ msgs \in Seq(Message)
  /\ at \in {"user", "before", "wrap", "model", "tools", "after"}
  /\ todo \subseteq Fact /\ links \subseteq Fact \X Fact
  /\ called \subseteq Tool /\ running \subseteq called /\ capturing \in [Tool -> SUBSET Fact]
  /\ rounds \in 0..MaxRounds
  /\ stored \subseteq Fact /\ derived \subseteq Fact \X Fact
  /\ memory \subseteq Fact /\ lastInjected \subseteq Fact /\ Cardinality(lastInjected) <= K
  /\ shown \subseteq Fact \X Fact /\ owed \subseteq shown

Init ==
  /\ kept \in BOOLEAN /\ inject \in BOOLEAN /\ captureFinal \in BOOLEAN
  /\ sent = 0 /\ msgs = <<>> /\ at = "user" /\ todo = {} /\ links = {}
  /\ called = {} /\ running = {} /\ capturing = [t \in Tool |-> {}] /\ rounds = 0
  /\ stored = {} /\ derived = {}
  /\ memory = {} /\ lastInjected = {} /\ shown = {} /\ owed = {}

FactsIn(ms, type) == UNION { ms[i].facts : i \in { j \in 1..Len(ms) : ms[j].type = type } }

-----------------------------------------------------------------------------
(* before_model.                                                           *)

\* Mutant: the newest message is captured, the others were before.
NewestOnly(ms) ==
  LET humans == SelectSeq(ms, LAMBDA m : m.type = "human") IN Last(humans).facts

\* Every human message, again before each model call: the ids are derived from
\* the message, so that a replay writes nothing new.
ToCapture(ms) == FactsIn(ms, "human")

Enter(ms) == at' = "before" /\ msgs' = ms /\ todo' = ToCapture(ms)

\* The user sends the next text.
Send ==
  /\ at = "user" /\ sent < Len(UserText)
  /\ sent' = sent + 1
  /\ Enter(Append(IF kept THEN msgs ELSE <<>>,
                  [type |-> "human", facts |-> ClaimsOf[UserText[sent + 1]]]))
  /\ rounds' = 0 /\ owed' = {}
  /\ UNCHANGED <<setup, links, toolVars, stored, derived, memory, lastInjected, shown>>

\* _capture_user_message: one write_fact per claim.
CaptureClaim(f) ==
  /\ at = "before" /\ f \in todo
  /\ stored' = stored \cup {f}
  /\ todo' = todo \ {f}
  /\ UNCHANGED <<setup, sent, msgs, at, links, toolVars, rounds, derived, contextVars>>

Heard ==
  /\ at = "before" /\ todo = {}
  /\ at' = "wrap"
  /\ UNCHANGED <<setup, sent, msgs, todo, links, toolVars, rounds, stored, derived, contextVars>>

\* A statement, an embedding or the model raises, or a tool does: handler is
\* called outside the `try`.  ToolNode's executor first lets the other tools of
\* the message finish, so that only those that raised are left.  The run is over.
Raise ==
  /\ \/ StoreFails /\ at \in {"before", "wrap", "model", "after"}
     \/ at = "tools" /\ running # {} /\ \A t \in Tool : capturing[t] = {}
  /\ at' = "user" /\ todo' = {} /\ links' = {} /\ called' = {} /\ running' = {}
  /\ memory' = {} /\ owed' = {}
  /\ UNCHANGED <<setup, sent, msgs, capturing, rounds, stored, derived, lastInjected, shown>>

-----------------------------------------------------------------------------
(* wrap_model_call.                                                        *)

\* msgs[-self.window :]
Windowed == SubSeq(msgs, IF Len(msgs) > Window THEN Len(msgs) - Window + 1 ELSE 1, Len(msgs))

\* The facts of the messages of the user that are still on the screen.
Exclude == FactsIn(Windowed, "human")

\* The facts a search may answer with, an upper bound: any that is stored where
\* this agent reads and not excluded, if there is a query, which there is as
\* soon as recall is injected.  Which version matched and which head it is
\* resolved to, readability and the directive filter are Retrieval's subject,
\* rank and limit Selection's.
Candidates == IF inject THEN ((stored \cup Others) \ Directive) \ Exclude ELSE {}

\* Mutant: an empty result leaves the last one in place.
HeldIfAny(facts) == IF facts = {} THEN lastInjected ELSE facts

\* self._last_injected
Held(facts) == facts

Inject(facts) ==
  /\ at = "wrap"
  /\ facts \subseteq Candidates /\ Cardinality(facts) <= K
  /\ at' = "model"
  /\ lastInjected' = Held(facts)
  /\ memory' = facts
  /\ UNCHANGED <<setup, sent, msgs, todo, links, toolVars, rounds, stored, derived, shown, owed>>

-----------------------------------------------------------------------------
(* The model, and after_model.                                             *)

\* Its message calls tools; after_model has nothing to do.
CallTools(tools) ==
  /\ at = "model" /\ rounds < MaxRounds
  /\ at' = "tools" /\ rounds' = rounds + 1
  /\ called' = tools /\ running' = tools
  /\ msgs' = Append(msgs, [type |-> "call", facts |-> {}])
  /\ memory' = {}
  /\ UNCHANGED <<setup, sent, todo, links, capturing, stored, derived, lastInjected, shown, owed>>

\* Its message is the answer of the turn.
Answer(facts) ==
  /\ at = "model"
  /\ at' = "after"
  /\ msgs' = Append(msgs, [type |-> "answer", facts |-> facts])
  /\ todo' = IF captureFinal THEN facts ELSE {}
  /\ shown' = shown \cup (facts \X memory)
  /\ owed' = IF captureFinal THEN { e \in facts \X memory : e[1] # e[2] } ELSE {}
  /\ memory' = {}
  /\ UNCHANGED <<setup, sent, links, toolVars, rounds, stored, derived, lastInjected>>

\* write_fact of one claim of the answer; _record_provenance follows.
RecordClaim(f) ==
  /\ at = "after" /\ links = {} /\ f \in todo
  /\ stored' = stored \cup {f}
  /\ todo' = todo \ {f}
  /\ links' = {f} \X (lastInjected \ {f})
  /\ UNCHANGED <<setup, sent, msgs, at, toolVars, rounds, derived, contextVars>>

\* add_edge(fact_id, source_id, "derived_from")
RecordLink(e) ==
  /\ at = "after" /\ e \in links
  /\ derived' = derived \cup {e}
  /\ links' = links \ {e}
  /\ UNCHANGED <<setup, sent, msgs, at, todo, toolVars, rounds, stored, contextVars>>

EndTurn ==
  /\ at = "after" /\ todo = {} /\ links = {}
  /\ at' = "user"
  /\ UNCHANGED <<setup, sent, msgs, todo, links, toolVars, rounds, stored, derived, contextVars>>

-----------------------------------------------------------------------------
(* wrap_tool_call, on ToolNode's threads.                                  *)

\* Mutant: a list of names, which the tools bound later are not on.
NamedHere(t) == t = "remember_fact"

\* Capturing a memory tool's output would be a feedback loop.
IsMemoryTool(t) == t \in MemoryTool

\* The tool has returned, and what it returned is to be captured.
ToolReturns(t) ==
  /\ at = "tools" /\ t \in running
  /\ running' = running \ {t}
  /\ capturing' = [capturing EXCEPT ![t] = IF IsMemoryTool(t) THEN {} ELSE TextOf[t]]
  /\ UNCHANGED <<setup, sent, msgs, at, todo, links, called, rounds, stored, derived, contextVars>>

CaptureResult(t, f) ==
  /\ at = "tools" /\ f \in capturing[t]
  /\ stored' = stored \cup {f}
  /\ capturing' = [capturing EXCEPT ![t] = @ \ {f}]
  /\ UNCHANGED <<setup, sent, msgs, at, todo, links, called, running, rounds, derived, contextVars>>

\* `except Exception: pass`: what was not written yet is lost, the result stands.
CaptureResultFails(t) ==
  /\ StoreFails /\ at = "tools" /\ capturing[t] # {}
  /\ capturing' = [capturing EXCEPT ![t] = {}]
  /\ UNCHANGED <<setup, sent, msgs, at, todo, links, called, running, rounds, stored, derived, contextVars>>

\* ToolNode has all the results: one message for each call, and the model again.
ToolsDone ==
  /\ at = "tools" /\ running = {} /\ \A t \in Tool : capturing[t] = {}
  /\ LET order == SetToSeq(called)
     IN  Enter(msgs \o [i \in 1..Len(order) |-> [type |-> "tool", facts |-> TextOf[order[i]]]])
  /\ called' = {}
  /\ UNCHANGED <<setup, sent, links, running, capturing, rounds, stored, derived, contextVars>>

-----------------------------------------------------------------------------
Next ==
  \/ Send
  \/ \E f \in Fact : CaptureClaim(f)
  \/ Heard
  \/ Raise
  \/ \E facts \in SUBSET Candidates : Inject(facts)
  \/ \E tools \in SUBSET Tool \ {{}} : CallTools(tools)
  \/ \E facts \in SUBSET Conclusion : Answer(facts)
  \/ \E f \in Conclusion : RecordClaim(f)
  \/ \E e \in links : RecordLink(e)
  \/ EndTurn
  \/ \E t \in Tool : ToolReturns(t) \/ CaptureResultFails(t)
  \/ \E t \in Tool : \E f \in TextOf[t] : CaptureResult(t, f)
  \/ ToolsDone

Spec == Init /\ [][Next]_vars

-----------------------------------------------------------------------------
\* What the user has said is in the store before the model speaks, even what
\* an earlier capture was cut off at, as long as it is in the conversation.
HeardBeforeAnswered == at = "model" => FactsIn(msgs, "human") \subseteq stored

\* An answer is derived from the facts that the call of the model which gave
\* it was shown, and from no others; once its capture is through, from all of
\* them.
ProvenanceExact ==
  /\ derived \subseteq shown
  /\ at = "user" => owed \subseteq derived

\* Nothing recalled is written back as a new fact.
MemoryNotFedBack == stored \cap Recalled = {}
=============================================================================
