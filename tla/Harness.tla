------------------------------- MODULE Harness -------------------------------
(***************************************************************************)
(* One run of the benchmark: run_once (demo/harness.py) drives the turns   *)
(* of a scenario from the main thread, each under two deadlines, and       *)
(* releases what the run holds.  A turn invokes an agent                   *)
(* (demo/conditions.py): the main thread calls the model and the store,    *)
(* and hands the tool calls of a message to ToolNode's threads, sub-agents *)
(* among them, which call the model and the store themselves.              *)
(*                                                                         *)
(* The first deadline is SIGALRM, whose handler raises TurnTimeout in the  *)
(* main thread, if that gets to run handlers; the second a watchdog that   *)
(* dumps the stacks and stops the process.                                 *)
(***************************************************************************)
EXTENDS Clients, Connections, Sequences

CONSTANTS
  Main,            \* the main thread
  Turns,           \* turns of the scenario
  RecursionLimit   \* RECURSION_LIMIT, in model calls of the root agent

ASSUME HarnessAssumption ==
  /\ Worker = Thread /\ Main \in Thread
  /\ Turns \in Nat \ {0} /\ RecursionLimit \in Nat \ {0}

Tool == Thread \ {Main}
Phase == {"between", "turn", "unwinding", "returned", "disarm", "raised", "cleanup",
          "done", "exited"}
Doing == {"none", "free", "connected", "calling", "joining"}

VARIABLES
  phase,       \* where run_once is
  turn,        \* the turn it is at
  transcript,  \* transcript[n]: was the n-th turn's entry an error?
  alarm,       \* the SIGALRM timer: "off", "armed", "due" once it has expired,
               \* "fired" once its handler has run
  dump,        \* is the watchdog armed?
  doing,       \* doing[t]: what thread t does for the turn
  rounds,      \* model calls the root agent has made in this turn
  failed,      \* has a tool of the message raised that the main thread waits for?
  stray,       \* history: connections an exception kept out of the registry
  abandoned    \* history: tools a deadline left at work

runVars == <<phase, turn, transcript, alarm, dump, doing, rounds, failed, stray, abandoned>>
vars == <<clientVars, connVars, runVars>>

TypeOK ==
  /\ ClientsTypeOK /\ ConnectionsTypeOK
  /\ phase \in Phase
  /\ turn \in 0..Turns
  /\ transcript \in Seq(BOOLEAN)
  /\ alarm \in {"off", "armed", "due", "fired"}
  /\ dump \in BOOLEAN
  /\ doing \in [Thread -> Doing]
  /\ rounds \in 0..RecursionLimit
  /\ failed \in BOOLEAN
  /\ stray \subseteq Conn /\ abandoned \subseteq Tool

Init ==
  /\ ClientsInit /\ ConnectionsInit
  /\ phase = "between" /\ turn = 0 /\ transcript = <<>>
  /\ alarm = "off" /\ dump = FALSE
  /\ doing = [t \in Thread |-> "none"]
  /\ rounds = 0 /\ failed = FALSE /\ stray = {} /\ abandoned = {}

Do(t, what) == doing' = [doing EXCEPT ![t] = what]
InTurn == phase \in {"turn", "unwinding", "returned", "disarm", "raised"}

-----------------------------------------------------------------------------
(* The loop of run_once.                                                   *)

\* Mutant: SIGALRM alone.
NoDump == FALSE

\* arm_deadlock_dump
DumpArmed == TRUE

\* The deadlines are armed and invoke builds the agent, on the cached model.
StartTurn ==
  /\ phase = "between" /\ turn < Turns
  /\ phase' = "turn" /\ turn' = turn + 1
  /\ dump' = DumpArmed /\ alarm' = "armed"
  /\ Do(Main, "free")
  /\ rounds' = 0
  /\ MakeLlm
  /\ UNCHANGED <<connVars, transcript, failed, stray, abandoned>>

\* The deadline is left in time: signal.alarm(0).
Cancel ==
  /\ phase = "returned"
  /\ phase' = "disarm" /\ alarm' = "off"
  /\ UNCHANGED <<clientVars, connVars, turn, transcript, dump, doing, rounds, failed, stray, abandoned>>

\* The watchdog is cancelled and the turn's entry written.
Record ==
  /\ phase = "disarm"
  /\ phase' = "between" /\ dump' = FALSE
  /\ transcript' = Append(transcript, FALSE)
  /\ UNCHANGED <<clientVars, connVars, turn, alarm, doing, rounds, failed, stray, abandoned>>

\* Mutant: the watchdog of a failed turn stays armed.
DumpLeft == dump

\* disarm_deadlock_dump in the except clause
DumpAfterError == FALSE

\* Mutant: the except clause does not `continue`.
ErrorAndAnswer == <<TRUE, FALSE>>

ErrorEntry == <<TRUE>>

\* The exception leaves the deadline and is caught: an errored entry.
RecordError ==
  /\ phase = "raised"
  /\ phase' = "between" /\ alarm' = "off" /\ dump' = DumpAfterError
  /\ transcript' = transcript \o ErrorEntry
  /\ UNCHANGED <<clientVars, connVars, turn, doing, rounds, failed, stray, abandoned>>

\* finally: cleanup(), then close_llms().
Cleanup ==
  /\ phase = "between" /\ turn = Turns
  /\ phase' = "cleanup"
  /\ CloseAll(Main)
  /\ UNCHANGED <<clientVars, turn, transcript, alarm, dump, doing, rounds, failed, stray, abandoned>>

Release ==
  /\ phase = "cleanup"
  /\ phase' = "done"
  /\ CloseLlms
  /\ UNCHANGED <<connVars, turn, transcript, alarm, dump, doing, rounds, failed, stray, abandoned>>

-----------------------------------------------------------------------------
(* The agent, in the main thread and in ToolNode's.                        *)

\* A tool goes on while the main thread is leaving the turn, and after that if
\* it has been abandoned.
Running(t) == IF t = Main THEN phase = "turn" ELSE phase \notin {"done", "exited"}

\* A statement of the middleware or of a tool: _get, of which only the first
\* call of a thread changes anything.
Statement(t) ==
  /\ Running(t) /\ doing[t] = "free"
  /\ Connect(t)
  /\ Do(t, "connected")
  /\ UNCHANGED <<clientVars, phase, turn, transcript, alarm, dump, rounds, failed, stray, abandoned>>

KeepConnection(t) ==
  /\ Running(t) /\ doing[t] = "connected"
  /\ Register(t)
  /\ Do(t, "free")
  /\ UNCHANGED <<clientVars, phase, turn, transcript, alarm, dump, rounds, failed, stray, abandoned>>

\* search_path or register_vector raises: the run's turn in the main thread; in
\* a tool it may be swallowed, or be what the tool raises (ToolRaises).
ConnectFails(t) ==
  /\ Running(t) /\ doing[t] = "connected"
  /\ Lose(t) /\ stray' = stray \cup {local[t]}
  /\ phase' = IF t = Main THEN "raised" ELSE phase
  /\ Do(t, IF t = Main THEN "none" ELSE "free")
  /\ UNCHANGED <<clientVars, turn, transcript, alarm, dump, rounds, failed, abandoned>>

\* A statement or an embedding of the root agent raises.
MainRaises ==
  /\ phase = "turn" /\ doing[Main] = "free"
  /\ phase' = "raised" /\ Do(Main, "none")
  /\ UNCHANGED <<clientVars, connVars, turn, transcript, alarm, dump, rounds, failed, stray, abandoned>>

\* The root agent calls the model, up to the recursion limit.
CallModel ==
  /\ phase = "turn" /\ doing[Main] = "free" /\ rounds < RecursionLimit
  /\ Call(Main)
  /\ Do(Main, "calling") /\ rounds' = rounds + 1
  /\ UNCHANGED <<connVars, phase, turn, transcript, alarm, dump, failed, stray, abandoned>>

\* GraphRecursionError.
LimitReached ==
  /\ phase = "turn" /\ doing[Main] = "free" /\ rounds = RecursionLimit
  /\ phase' = "raised" /\ Do(Main, "none")
  /\ UNCHANGED <<clientVars, connVars, turn, transcript, alarm, dump, rounds, failed, stray, abandoned>>

\* A message with tool calls: one thread for each of them, none that is still at
\* work for an earlier turn.
FanOut(tools) ==
  /\ phase = "turn" /\ doing[Main] = "calling" /\ step[Main] = "idle" /\ outcome[Main] = "answer"
  /\ tools \cap abandoned = {}
  /\ doing' = [t \in Thread |-> IF t \in tools THEN "free"
                                ELSE IF t = Main THEN "joining" ELSE doing[t]]
  /\ UNCHANGED <<clientVars, connVars, phase, turn, transcript, alarm, dump, rounds, failed, stray, abandoned>>

\* A message without: the answer of the turn.
Answer ==
  /\ phase = "turn" /\ doing[Main] = "calling" /\ step[Main] = "idle" /\ outcome[Main] = "answer"
  /\ phase' = "returned" /\ Do(Main, "none")
  /\ UNCHANGED <<clientVars, connVars, turn, transcript, alarm, dump, rounds, failed, stray, abandoned>>

\* The model call has raised.
CallRaises ==
  /\ phase = "turn" /\ doing[Main] = "calling" /\ step[Main] = "idle" /\ outcome[Main] = "error"
  /\ phase' = "raised" /\ Do(Main, "none")
  /\ UNCHANGED <<clientVars, connVars, turn, transcript, alarm, dump, rounds, failed, stray, abandoned>>

\* A sub-agent calls the model from its thread.
SubAgentCalls(t) ==
  /\ t \in Tool /\ Running(t) /\ doing[t] = "free"
  /\ Call(t) /\ Do(t, "calling")
  /\ UNCHANGED <<connVars, phase, turn, transcript, alarm, dump, rounds, failed, stray, abandoned>>

\* The tool's result, or the text that reports its failure.
ToolReturns(t) ==
  /\ t \in Tool /\ Running(t) /\ step[t] = "idle" /\ doing[t] \in {"free", "calling"}
  /\ Do(t, "none")
  /\ UNCHANGED <<clientVars, connVars, phase, turn, transcript, alarm, dump, rounds, failed, stray, abandoned>>

\* A tool raises, and ends with that: its body, or a statement of the wrapper
\* around a sub-agent, or of the hooks of a model call that is not a sub-agent's.
ToolRaises(t) ==
  /\ t \in Tool /\ Running(t) /\ step[t] = "idle" /\ doing[t] \in {"free", "calling"}
  /\ Do(t, "none")
  /\ failed' = (failed \/ (doing[Main] = "joining" /\ t \notin abandoned))
  /\ UNCHANGED <<clientVars, connVars, phase, turn, transcript, alarm, dump, rounds, stray, abandoned>>

ToolsDone == \A t \in Tool \ abandoned : doing[t] = "none"

\* ToolNode has all results; its threads end.
Join ==
  /\ phase = "turn" /\ doing[Main] = "joining" /\ ToolsDone /\ ~failed
  /\ ThreadsEnd(Tool \ abandoned)
  /\ Do(Main, "free")
  /\ UNCHANGED <<clientVars, phase, turn, transcript, alarm, dump, rounds, failed, stray, abandoned>>

\* ToolNode has an exception, which leaves the turn: through the executor, which
\* waits for the other tools, with the alarm still armed.
JoinRaises ==
  /\ phase = "turn" /\ doing[Main] = "joining" /\ failed
  /\ phase' = "unwinding" /\ Do(Main, "none") /\ failed' = FALSE
  /\ UNCHANGED <<clientVars, connVars, turn, transcript, alarm, dump, rounds, stray, abandoned>>

-----------------------------------------------------------------------------
(* The deadlines.                                                          *)

Expire ==
  /\ alarm = "armed" /\ InTurn
  /\ alarm' = "due"
  /\ UNCHANGED <<clientVars, connVars, phase, turn, transcript, dump, doing, rounds, failed, stray, abandoned>>

\* Mutant: the executor does not wait for its threads.
Abandons == TRUE

\* The executor waits for its threads before the exception leaves it.
Unwound == doing[Main] # "joining" \/ ToolsDone

\* The handler raises TurnTimeout in the main thread, wherever that is.
RaiseTimeout ==
  /\ alarm = "due" /\ phase \in {"turn", "returned"}
  /\ phase' = IF Unwound THEN "raised" ELSE "unwinding"
  /\ alarm' = "fired"
  /\ IF doing[Main] = "connected"
       THEN stray' = stray \cup {local[Main]} /\ (Lose(Main) \/ UNCHANGED connVars)
       ELSE UNCHANGED <<connVars, stray>>
  /\ Do(Main, "none") /\ failed' = FALSE
  /\ IF step[Main] # "idle" THEN Interrupted(Main) ELSE UNCHANGED clientVars
  /\ UNCHANGED <<turn, transcript, dump, rounds, abandoned>>

\* It raises it where the executor waits because a tool has raised: the wait is
\* over, and the tools that are at work are nobody's.
AbandonTools ==
  /\ alarm = "due" /\ phase = "unwinding"
  /\ phase' = "raised" /\ alarm' = "fired"
  /\ abandoned' = abandoned \cup { t \in Tool : doing[t] # "none" }
  /\ ThreadsEnd(Tool \ abandoned')
  /\ UNCHANGED <<clientVars, turn, transcript, dump, doing, rounds, failed, stray>>

UnwindJoined ==
  /\ phase = "unwinding" /\ ToolsDone
  /\ phase' = "raised"
  /\ ThreadsEnd(Tool \ abandoned)
  /\ UNCHANGED <<clientVars, turn, transcript, alarm, dump, doing, rounds, failed, stray, abandoned>>

\* The watchdog: it is set to fire after the alarm, and stops the process.
DumpFires ==
  /\ dump /\ phase \notin {"done", "exited"} /\ alarm \in {"due", "fired"}
  /\ phase' = "exited"
  /\ UNCHANGED <<clientVars, connVars, turn, transcript, alarm, dump, doing, rounds, failed, stray, abandoned>>

-----------------------------------------------------------------------------
Model(t) == phase \notin {"done", "exited"} /\ Generate(t) /\ UNCHANGED <<connVars, runVars>>
ServerStep == phase \notin {"done", "exited"} /\ Server /\ UNCHANGED <<connVars, runVars>>

MainStep ==
  \/ StartTurn
  \/ Cancel
  \/ Record
  \/ RecordError
  \/ Cleanup
  \/ Release
  \/ KeepConnection(Main)
  \/ CallModel
  \/ LimitReached
  \/ Answer
  \/ CallRaises
  \/ Join
  \/ JoinRaises
  \/ UnwindJoined

ToolStep(t) == KeepConnection(t) \/ SubAgentCalls(t) \/ ToolReturns(t) \/ ToolRaises(t)

Next ==
  \/ MainStep
  \/ \E tools \in SUBSET Tool \ {{}} : FanOut(tools)
  \/ \E t \in Thread : Statement(t) \/ ConnectFails(t)
  \/ MainRaises
  \/ \E t \in Tool : ToolStep(t)
  \/ \E t \in Thread : Model(t)
  \/ ServerStep
  \/ Expire
  \/ RaiseTimeout
  \/ AbandonTools
  \/ DumpFires

Spec == Init /\ [][Next]_vars

\* The threads of the process run, the clock and the watchdog too.  A tool may
\* take forever, the server may never come back, and the handler of SIGALRM may
\* never get to run.
FairSpec ==
  /\ Spec
  /\ WF_vars(MainStep)
  /\ \A t \in Thread : WF_vars(Model(t))
  /\ WF_vars(Expire)
  /\ WF_vars(DumpFires)

-----------------------------------------------------------------------------
\* "One run's sockets cannot outlive it": when run_once is through, the shared
\* client of the model is closed and so is each connection of any of its
\* threads, but for a connection that an exception caught between making it and
\* keeping track of it, or a client between replacing it and closing it; if no
\* deadline has left a tool at work.  The embedder's own client is not the
\* run's to close: nothing does.
NothingOutlivesRun ==
  phase = "done" /\ abandoned = {} => open \subseteq dropped /\ live \subseteq stray

\* "a fired deadline costs one turn": a timer that is still armed when its turn
\* has been recorded would end another turn, or the run.
NoDeadlineBetweenTurns ==
  phase \in {"between", "cleanup", "done"} => alarm = "off" /\ ~dump

\* The transcript has one entry per turn, in their order, whether the turn
\* ended, failed, or was cut off at the moment it ended.
OneRecordPerTurn ==
  /\ Len(transcript) = IF InTurn \/ phase = "exited" THEN turn - 1 ELSE turn
  /\ phase = "done" => Len(transcript) = Turns

\* No tool of a turn still calls the model or writes to the store when the turn
\* is recorded, whether it ended, failed in a tool or was cut off; but for those
\* that were at work when a deadline struck the wait for them after another had
\* raised.
TurnsDoNotOverlap ==
  phase \in {"between", "cleanup", "done"} =>
    \A t \in Thread \ abandoned : doing[t] = "none" /\ step[t] = "idle"

\* A turn ends: it is recorded, or the watchdog stops the process.
TurnsEnd == InTurn ~> ~InTurn
=============================================================================
