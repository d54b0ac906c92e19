------------------------------ MODULE SubAgent ------------------------------
(***************************************************************************)
(* Delegation: make_subagent_tool's _run (subagent.py) and the             *)
(* conclude_task tool (tools.py) that it binds into the sub-agent.         *)
(*                                                                         *)
(* _run forks a namespace, runs the agent, and writes a fallback summary   *)
(* if the agent did not conclude.  Inside the agent the tool calls of one  *)
(* message run on ToolNode's threads, so conclude_task, which executes one *)
(* autocommitted statement per fragment and per edge, interleaves with     *)
(* what the agent's other tools record.  ToolNode joins its threads before *)
(* the agent returns or raises.                                            *)
(*                                                                         *)
(* A process that stops is a behaviour that ends; nothing resumes a task.  *)
(***************************************************************************)
EXTENDS Naturals, FiniteSets

CONSTANTS
  Task,            \* invocations of sub-agent tools by one parent
  Finding,         \* facts a sub-agent can record in its own namespace
  KindOf,          \* KindOf[f]: "user_input", or "conclusion"
  Claim,           \* fragments a conclude_task summary can be split into
  MaxConcurrency,  \* tool calls of the parent's message that run at once
  CallsFail,       \* may a statement or an embedding raise?
  MaxConcludes     \* bound: MaxConcludes[t] is the number of conclude_task calls t makes

\* The bodies of a fallback summary, one per branch of _run.
FallbackBody == {"did not complete", "auto-summary", "reconstructed", "MISSING"}
Ending == {"none", "error", "output", "silent"}
Phase == {"unborn", "running", "ended", "linking", "returned", "raised"}
CallStep == {"idle", "write", "select", "link"}
Answer == {"none", "output", "completed"} \cup FallbackBody

ASSUME SubAgentAssumption ==
  /\ KindOf \in [Finding -> {"user_input", "conclusion"}]
  /\ Claim \cap FallbackBody = {}
  /\ MaxConcurrency \in Nat /\ MaxConcludes \in [Task -> Nat] /\ CallsFail \in BOOLEAN

VARIABLES
  phase,      \* phase[t]: where _run is
  ending,     \* ending[t]: what agent(task) did
  recorded,   \* recorded[t]: the facts of t's namespace
  summaries,  \* summaries[t]: the parent's facts keyed by t's namespace
  rollup,     \* rollup[t]: rollup_of edges <<summary, finding>>
  concluded,  \* concluded[t]: is concluded["fact_id"] set?
  answer,     \* answer[t]: what the tool returned to the parent
  cstep,      \* cstep[t]: the statement t's conclude_task executes next
  claims,     \* claims[t]: the fragments of that call
  unwritten,  \* unwritten[t]: those of them not stored yet
  pending,    \* pending[t]: the edges that call, or _run, has yet to insert
  concludes,  \* concludes[t]: conclude_task calls begun
  before,     \* history: what was recorded when that call began
  owed        \* history: the edges a call that returned had to insert

callVars == <<cstep, claims, unwritten, concludes, before>>
vars == <<phase, ending, recorded, summaries, rollup, concluded, answer,
          pending, owed, callVars>>

Edge == (Claim \cup FallbackBody) \X Finding

TypeOK ==
  /\ phase \in [Task -> Phase]
  /\ ending \in [Task -> Ending]
  /\ recorded \in [Task -> SUBSET Finding]
  /\ summaries \in [Task -> SUBSET (Claim \cup FallbackBody)]
  /\ rollup \in [Task -> SUBSET Edge]
  /\ concluded \in [Task -> BOOLEAN]
  /\ answer \in [Task -> Answer]
  /\ cstep \in [Task -> CallStep]
  /\ claims \in [Task -> SUBSET Claim]
  /\ unwritten \in [Task -> SUBSET Claim]
  /\ pending \in [Task -> SUBSET Edge]
  /\ concludes \in [Task -> Nat]
  /\ before \in [Task -> SUBSET Finding]
  /\ owed \in [Task -> SUBSET Edge]

Init ==
  /\ phase = [t \in Task |-> "unborn"]
  /\ ending = [t \in Task |-> "none"]
  /\ recorded = [t \in Task |-> {}]
  /\ summaries = [t \in Task |-> {}]
  /\ rollup = [t \in Task |-> {}]
  /\ concluded = [t \in Task |-> FALSE]
  /\ answer = [t \in Task |-> "none"]
  /\ cstep = [t \in Task |-> "idle"]
  /\ claims = [t \in Task |-> {}]
  /\ unwritten = [t \in Task |-> {}]
  /\ pending = [t \in Task |-> {}]
  /\ concludes = [t \in Task |-> 0]
  /\ before = [t \in Task |-> {}]
  /\ owed = [t \in Task |-> {}]

Busy == { t \in Task : phase[t] \in {"running", "ended", "linking"} }

-----------------------------------------------------------------------------
(* The sub-agent.                                                          *)

\* fork_namespace: a fresh namespace, empty; the parent's ToolNode has a free
\* thread.
Fork(t) ==
  /\ phase[t] = "unborn"
  /\ Cardinality(Busy) < MaxConcurrency
  /\ phase' = [phase EXCEPT ![t] = "running"]
  /\ UNCHANGED <<ending, recorded, summaries, rollup, concluded, answer, pending, owed, callVars>>

\* The fork, or building the agent, raises: both are outside the try of _run.
ForkFails(t) ==
  /\ CallsFail
  /\ phase[t] = "unborn" /\ Cardinality(Busy) < MaxConcurrency
  /\ phase' = [phase EXCEPT ![t] = "raised"]
  /\ UNCHANGED <<ending, recorded, summaries, rollup, concluded, answer, pending, owed, callVars>>

\* Mutant: a tool's thread outlives the agent.
RecordAnyTime(t, f) ==
  /\ phase[t] # "unborn"
  /\ recorded' = [recorded EXCEPT ![t] = @ \cup {f}]
  /\ UNCHANGED <<phase, ending, summaries, rollup, concluded, answer, pending, owed, callVars>>

\* The middleware captures the task, remember_fact and the capture of tool
\* results record conclusions: all in the sub-agent's own namespace.
Record(t, f) ==
  /\ phase[t] = "running"
  /\ recorded' = [recorded EXCEPT ![t] = @ \cup {f}]
  /\ UNCHANGED <<phase, ending, summaries, rollup, concluded, answer, pending, owed, callVars>>

\* conclude_task(summary): the reference, if any, has resolved; the summary is
\* split into its fragments.
BeginConclude(t, fragments) ==
  /\ phase[t] = "running" /\ cstep[t] = "idle"
  /\ concludes[t] < MaxConcludes[t]
  /\ concludes' = [concludes EXCEPT ![t] = @ + 1]
  /\ cstep' = [cstep EXCEPT ![t] = "write"]
  /\ claims' = [claims EXCEPT ![t] = fragments]
  /\ unwritten' = [unwritten EXCEPT ![t] = fragments]
  /\ before' = [before EXCEPT ![t] = recorded[t]]
  /\ UNCHANGED <<phase, ending, recorded, summaries, rollup, concluded, answer, pending, owed>>

\* write_fact of one fragment into the parent's namespace.
WriteClaim(t) ==
  /\ cstep[t] = "write"
  /\ \E s \in unwritten[t] :
       /\ summaries' = [summaries EXCEPT ![t] = @ \cup {s}]
       /\ unwritten' = [unwritten EXCEPT ![t] = @ \ {s}]
       /\ cstep' = [cstep EXCEPT ![t] = IF unwritten[t] = {s} THEN "select" ELSE "write"]
  /\ UNCHANGED <<phase, ending, recorded, rollup, concluded, answer, pending, owed,
                 claims, concludes, before>>

\* Mutant: the rows are selected for the first fragment only.
SelectForOne(t) ==
  /\ cstep[t] = "select"
  /\ pending' = [pending EXCEPT ![t] = {CHOOSE s \in claims[t] : TRUE} \X recorded[t]]
  /\ cstep' = [cstep EXCEPT ![t] = "link"]
  /\ UNCHANGED <<phase, ending, recorded, summaries, rollup, concluded, answer, owed,
                 claims, unwritten, concludes, before>>

\* facts_in_namespace(child): the rows the loop over rollup_of edges will use.
SelectFindings(t) ==
  /\ cstep[t] = "select"
  /\ pending' = [pending EXCEPT ![t] = claims[t] \X recorded[t]]
  /\ cstep' = [cstep EXCEPT ![t] = "link"]
  /\ UNCHANGED <<phase, ending, recorded, summaries, rollup, concluded, answer, owed,
                 claims, unwritten, concludes, before>>

LinkClaim(t) ==
  /\ cstep[t] = "link"
  /\ \E e \in pending[t] :
       /\ rollup' = [rollup EXCEPT ![t] = @ \cup {e}]
       /\ pending' = [pending EXCEPT ![t] = @ \ {e}]
  /\ UNCHANGED <<phase, ending, recorded, summaries, concluded, answer, owed, callVars>>

\* The call's variables are gone with it.
CallOver(t) ==
  /\ cstep' = [cstep EXCEPT ![t] = "idle"]
  /\ claims' = [claims EXCEPT ![t] = {}]
  /\ before' = [before EXCEPT ![t] = {}]

\* After the supersedes edge (FactStore's ConcludeTask), which may be refused,
\* the call marks the task as concluded and returns.
EndConclude(t) ==
  /\ cstep[t] = "link" /\ pending[t] = {}
  /\ concluded' = [concluded EXCEPT ![t] = TRUE]
  /\ owed' = [owed EXCEPT ![t] = @ \cup (claims[t] \X before[t])]
  /\ CallOver(t)
  /\ UNCHANGED <<phase, ending, recorded, summaries, rollup, answer, pending, unwritten, concludes>>

\* A statement or an embedding raises: what was stored stays.  Whether that
\* ends the agent or is reported to the model depends on the host's tool node.
ConcludeFails(t) ==
  /\ CallsFail
  /\ cstep[t] # "idle"
  /\ CallOver(t)
  /\ pending' = [pending EXCEPT ![t] = {}]
  /\ unwritten' = [unwritten EXCEPT ![t] = {}]
  /\ UNCHANGED <<phase, ending, recorded, summaries, rollup, concluded, answer, owed, concludes>>

\* Mutant: the agent's end does not wait for its tools' threads.
EndAgentUnjoined(t) ==
  /\ phase[t] = "running"
  /\ \E e \in Ending \ {"none"} : ending' = [ending EXCEPT ![t] = e]
  /\ phase' = [phase EXCEPT ![t] = "ended"]
  /\ UNCHANGED <<recorded, summaries, rollup, concluded, answer, pending, owed, callVars>>

\* agent(task) raises, returns text, or returns an empty string.
EndAgent(t) ==
  /\ phase[t] = "running" /\ cstep[t] = "idle"
  /\ \E e \in Ending \ {"none"} : ending' = [ending EXCEPT ![t] = e]
  /\ phase' = [phase EXCEPT ![t] = "ended"]
  /\ UNCHANGED <<recorded, summaries, rollup, concluded, answer, pending, owed, callVars>>

-----------------------------------------------------------------------------
(* The wrapper, once the agent is over.                                    *)

\* Nothing more is written: the tool answers with the agent's text, or says
\* that it completed.
AnswerConcluded(t) ==
  /\ phase[t] = "ended" /\ concluded[t]
  /\ phase' = [phase EXCEPT ![t] = "returned"]
  /\ answer' = [answer EXCEPT ![t] = IF ending[t] = "output" THEN "output" ELSE "completed"]
  /\ UNCHANGED <<ending, recorded, summaries, rollup, concluded, pending, owed, callVars>>

\* Mutant: an empty answer is reconstructed from every fact, the task included.
SynthesizeFromAll(t) ==
  CASE ending[t] = "error" -> "did not complete"
    [] ending[t] = "output" -> "auto-summary"
    [] OTHER -> IF recorded[t] # {} THEN "reconstructed" ELSE "MISSING"

\* Mutant: a sub-agent that returned nothing is summarised as nothing.
SynthesizeNothing(t) ==
  CASE ending[t] = "error" -> "did not complete"
    [] ending[t] = "output" -> "auto-summary"
    [] OTHER -> ""

\* The summary the sub-agent failed to write.
Synthesized(t) ==
  CASE ending[t] = "error" -> "did not complete"
    [] ending[t] = "output" -> "auto-summary"
    [] OTHER -> IF \E f \in recorded[t] : KindOf[f] = "conclusion"
                  THEN "reconstructed" ELSE "MISSING"

\* Mutant: a sub-agent that has nothing to report leaves no summary.
WriteFallbackIfAny(t) ==
  /\ phase[t] = "ended" /\ ~concluded[t]
  /\ summaries' = [summaries EXCEPT ![t] = @ \cup ({Synthesized(t)} \ {"MISSING"})]
  /\ phase' = [phase EXCEPT ![t] = "linking"]
  /\ UNCHANGED <<ending, recorded, rollup, concluded, answer, pending, owed, callVars>>

\* write_fact of the fallback, and the SELECT of what it rolls up: the child's
\* namespace no longer changes, so the two are one step.
WriteFallback(t) ==
  /\ phase[t] = "ended" /\ ~concluded[t]
  /\ summaries' = [summaries EXCEPT ![t] = @ \cup {Synthesized(t)}]
  /\ pending' = [pending EXCEPT ![t] = {Synthesized(t)} \X recorded[t]]
  /\ phase' = [phase EXCEPT ![t] = "linking"]
  /\ UNCHANGED <<ending, recorded, rollup, concluded, answer, owed, callVars>>

\* Mutant: the loop over the edges does not advance.
LinkFallbackAgain(t) ==
  /\ phase[t] = "linking"
  /\ \E e \in pending[t] : rollup' = [rollup EXCEPT ![t] = @ \cup {e}]
  /\ UNCHANGED <<phase, ending, recorded, summaries, concluded, answer, pending, owed, callVars>>

LinkFallback(t) ==
  /\ phase[t] = "linking"
  /\ \E e \in pending[t] :
       /\ rollup' = [rollup EXCEPT ![t] = @ \cup {e}]
       /\ pending' = [pending EXCEPT ![t] = @ \ {e}]
  /\ UNCHANGED <<phase, ending, recorded, summaries, concluded, answer, owed, callVars>>

AnswerFallback(t) ==
  /\ phase[t] = "linking" /\ pending[t] = {}
  /\ phase' = [phase EXCEPT ![t] = "returned"]
  /\ answer' = [answer EXCEPT ![t] = IF ending[t] = "output" THEN "output" ELSE Synthesized(t)]
  /\ UNCHANGED <<ending, recorded, summaries, rollup, concluded, pending, owed, callVars>>

\* The fallback is outside the try: an embedding or a statement that raises
\* there is raised to the parent.
FallbackFails(t) ==
  /\ CallsFail
  /\ phase[t] = "linking" \/ (phase[t] = "ended" /\ ~concluded[t])
  /\ phase' = [phase EXCEPT ![t] = "raised"]
  /\ UNCHANGED <<ending, recorded, summaries, rollup, concluded, answer, pending, owed, callVars>>

-----------------------------------------------------------------------------
AgentStep(t) ==
  \/ \E f \in Finding : Record(t, f)
  \/ \E fragments \in (SUBSET Claim) \ {{}} : BeginConclude(t, fragments)

ToolStep(t) == WriteClaim(t) \/ SelectFindings(t) \/ LinkClaim(t) \/ EndConclude(t)

WrapperStep(t) ==
  AnswerConcluded(t) \/ WriteFallback(t) \/ LinkFallback(t) \/ AnswerFallback(t)

Fails(t) == ForkFails(t) \/ ConcludeFails(t) \/ FallbackFails(t)

Next ==
  \E t \in Task :
    Fork(t) \/ AgentStep(t) \/ ToolStep(t) \/ EndAgent(t) \/ WrapperStep(t) \/ Fails(t)

Spec == Init /\ [][Next]_vars

\* Threads keep executing, and an agent ends: LangGraph's recursion limit
\* stops one that only calls tools.  No failure is needed for any of it.
FairSpec ==
  Spec /\ \A t \in Task :
            WF_vars(Fork(t)) /\ WF_vars(ToolStep(t)) /\ WF_vars(EndAgent(t)) /\ WF_vars(WrapperStep(t))

-----------------------------------------------------------------------------
(* What delegation promises.                                               *)

Over(t) == phase[t] \in {"returned", "raised"}

\* The code keeps the promise of EnforcedRollup.
OutcomeOf(t) ==
  IF phase[t] \in {"running", "ended", "linking"} THEN "running" ELSE phase[t]
Contract == INSTANCE EnforcedRollup WITH
  outcome <- [t \in Task |-> OutcomeOf(t)],
  reported <- { t \in Task : summaries[t] # {} }
KeepsContract == Contract!Spec

\* A conclude_task call that returned has linked every fragment of its summary
\* to everything the sub-agent had recorded when the call began, whatever
\* other tools wrote meanwhile and whatever earlier calls left half done.
ConclusionRolledUp == \A t \in Task : owed[t] \subseteq rollup[t]

\* A task that answered without concluding has one fallback that is linked to
\* everything in its namespace: nothing writes there after the wrapper looked.
FallbackRolledUp ==
  \A t \in Task :
    phase[t] = "returned" /\ ~concluded[t] =>
      \E s \in summaries[t] \cap FallbackBody : {s} \X recorded[t] \subseteq rollup[t]

\* The parent never gets two voices: of a task that concluded there is no
\* fallback, even when one of its conclude_task calls had failed before.
NoFallbackOnceConcluded ==
  \A t \in Task : concluded[t] => summaries[t] \cap FallbackBody = {}

\* An answer that claims a result is backed by one: the sub-agent concluded,
\* or it recorded a conclusion of its own - never only the task it was given.
AnswerBacked ==
  \A t \in Task :
    answer[t] \in {"completed", "reconstructed"} =>
      concluded[t] \/ \E f \in recorded[t] : KindOf[f] = "conclusion"

\* Every task that was asked for comes back to its parent.
TasksEnd == \A t \in Task : phase[t] = "unborn" ~> Over(t)
=============================================================================
