---------------------------- MODULE HarnessProofs ----------------------------
(***************************************************************************)
(* Proofs about Clients, Connections and Harness, for every set of         *)
(* threads, every number of turns and every run of the server.             *)
(***************************************************************************)
EXTENDS Harness, SequenceTheorems, TLAPS

\* What a step of the run does to the shared client: the last of them closes it.
ClientActs ==
  /\ phase = "done" => phase' = "done"
  /\ \/ UNCHANGED clientVars
     \/ Server
     \/ phase # "done" /\ \E t \in Thread : Call(t) \/ Generate(t) \/ Interrupted(t)
     \/ phase = "between" /\ MakeLlm
     \/ phase' = "done" /\ CloseLlms

LEMMA NextClients ==
  ASSUME [Next]_vars
  PROVE  ClientActs
<1>1. MainStep => ClientActs
  <2>1. StartTurn \/ Release => ClientActs
    BY DEF StartTurn, Release, ClientActs
  <2>2. CallModel => ClientActs
    BY HarnessAssumption DEF CallModel, ClientActs
  <2>3. Cancel \/ Record \/ RecordError \/ Cleanup \/ KeepConnection(Main) \/ LimitReached \/ Answer
        \/ CallRaises \/ Join \/ JoinRaises \/ UnwindJoined => ClientActs
    BY DEF Cancel, Record, RecordError, Cleanup, KeepConnection, Running, LimitReached, Answer, CallRaises,
           Join, JoinRaises, UnwindJoined, ClientActs
  <2> QED BY <2>1, <2>2, <2>3 DEF MainStep
<1>2. ASSUME NEW t \in Tool, ToolStep(t) PROVE ClientActs
  BY <1>2 DEF Tool, ToolStep, KeepConnection, SubAgentCalls, ToolReturns, ToolRaises, Running, ClientActs
<1>3. ASSUME NEW tools \in SUBSET Tool, FanOut(tools) PROVE ClientActs
  BY <1>3 DEF FanOut, ClientActs
<1>4. ASSUME NEW t \in Thread, Statement(t) \/ ConnectFails(t) \/ Model(t) PROVE ClientActs
  BY <1>4 DEF Statement, ConnectFails, Running, Model, runVars, ClientActs
<1>5. ServerStep \/ Expire \/ RaiseTimeout \/ AbandonTools \/ MainRaises \/ DumpFires => ClientActs
  BY HarnessAssumption
     DEF ServerStep, Expire, RaiseTimeout, AbandonTools, MainRaises, DumpFires, runVars, ClientActs
<1>6. UNCHANGED vars => ClientActs
  BY DEF vars, runVars, ClientActs
<1> QED BY <1>1, <1>2, <1>3, <1>4, <1>5, <1>6 DEF Next

-----------------------------------------------------------------------------
(* Types of the client.                                                    *)

LEMMA GenerateType ==
  ASSUME ClientsTypeOK, NEW t \in Thread, Generate(t)
  PROVE  ClientsTypeOK'
<1> USE ClientsAssumption DEF ClientsTypeOK, Client, Step, NoClient, serverVars, poolVars
<1>1. CASE Reply(t)
  BY <1>1 DEF Reply, End
<1>2. CASE FirstFails(t)
  BY <1>2 DEF FirstFails, RequestFails
<1>3. CASE SecondFails(t)
  BY <1>3 DEF SecondFails, RequestFails, End
<1>4. CASE Unhealthy(t)
  BY <1>4 DEF Unhealthy, ProbeFails
<1>5. CASE Restart(t)
  <2>1. lost' \in [Thread -> BOOLEAN]
    BY <1>5 DEF Restart
  <2> QED BY <1>5, <2>1 DEF Restart
<1>6. CASE Healthy(t)
  BY <1>6 DEF Healthy
<1>7. CASE Poll(t)
  <2>1. CASE End(t, "error")
    BY <1>7, <2>1 DEF Poll, ProbeFails, End
  <2>2. CASE polls' = [polls EXCEPT ![t] = @ + 1] /\ ~LastProbe(t) /\ UNCHANGED <<step, via, old, lost, outcome>>
    <3>1. polls[t] + 1 \in 0..(ProbeAttempts - 1)
      BY <2>2 DEF LastProbe
    <3> QED BY <1>7, <2>2, <3>1 DEF Poll, ProbeFails
  <2> QED BY <1>7, <2>1, <2>2 DEF Poll
<1>8. CASE Lock(t)
  BY <1>8 DEF Lock
<1>9. CASE SetClients(t)
  BY <1>9 DEF SetClients
<1>10. CASE CloseOld(t)
  <2>1. lost' \in [Thread -> BOOLEAN]
    BY <1>10 DEF CloseOld
  <2> QED BY <1>10, <2>1 DEF CloseOld
<1>11. CASE Retry(t)
  BY <1>11 DEF Retry, Send
<1> QED BY <1>1, <1>2, <1>3, <1>4, <1>5, <1>6, <1>7, <1>8, <1>9, <1>10, <1>11 DEF Generate

LEMMA MakeLlmCases ==
  ASSUME MakeLlm
  PROVE  /\ client = NoClient =>
              made' = made + 1 /\ client' = made + 1 /\ open' = open \cup {made + 1}
         /\ client # NoClient => UNCHANGED <<made, client, open>>
         /\ UNCHANGED <<server, wedges, failures, owner, dropped, step, via, old, lost, polls, outcome>>
BY DEF MakeLlm, serverVars, callVars

LEMMA ClientsTypeStep ==
  ASSUME ClientsTypeOK, ClientActs,
         phase # "done" => \A t \in Thread : step[t] = "close" => old[t] # NoClient
  PROVE  ClientsTypeOK'
<1> USE ClientsAssumption DEF ClientsTypeOK, Client, Step, NoClient, serverVars, poolVars, callVars
<1>1. CASE UNCHANGED clientVars
  BY <1>1 DEF clientVars
<1>2. CASE Server
  <2>1. CASE Wedge
    BY <2>1 DEF Wedge
  <2>2. CASE Started
    BY <2>2 DEF Started
  <2> QED BY <1>2, <2>1, <2>2 DEF Server
<1>3. ASSUME NEW t \in Thread, Call(t) PROVE ClientsTypeOK'
  BY <1>3 DEF Call, Send
<1>4. ASSUME NEW t \in Thread, phase # "done", Interrupted(t) PROVE ClientsTypeOK'
  <2>1. dropped' \subseteq Client' /\ owner' \in Thread \cup {NoThread}
    <3>1. CASE step[t] = "close"
      <4>1. old[t] \in 1..made
        BY <1>4, <3>1
      <4> QED BY <1>4, <3>1, <4>1 DEF Interrupted
    <3>2. CASE step[t] # "close"
      BY <1>4, <3>2 DEF Interrupted
    <3> QED BY <3>1, <3>2
  <2>2. /\ step' \in [Thread -> Step] /\ via' \in [Thread -> Client' \cup {NoClient}]
        /\ old' \in [Thread -> Client' \cup {NoClient}] /\ lost' \in [Thread -> BOOLEAN]
        /\ polls' \in [Thread -> 0..(ProbeAttempts - 1)]
        /\ outcome' \in [Thread -> {"none", "answer", "error"}]
    BY <1>4 DEF Interrupted, End
  <2> QED BY <1>4, <2>1, <2>2 DEF Interrupted
<1>5. CASE MakeLlm
  <2>1. CASE client = NoClient
    <3> DEFINE n == made + 1
    <3>0. made' = n /\ client' = n /\ open' = open \cup {n} /\ UNCHANGED dropped /\ n \in Nat
      BY <1>5, <2>1, MakeLlmCases
    <3>1. /\ made' \in Nat /\ Client \subseteq Client' /\ client' \in Client' /\ open' \subseteq Client' /\ UNCHANGED dropped
      <4>1. 1..made \subseteq 1..n /\ n \in 1..n
        OBVIOUS
      <4> HIDE DEF n
      <4> QED BY <3>0, <4>1
    <3>2. via \in [Thread -> Client' \cup {NoClient}] /\ old \in [Thread -> Client' \cup {NoClient}]
      BY <3>1
    <3> QED BY <1>5, <3>1, <3>2, MakeLlmCases
  <2>2. CASE client # NoClient
    BY <1>5, <2>2, MakeLlmCases
  <2> QED BY <2>1, <2>2
<1>6. CASE CloseLlms
  BY <1>6 DEF CloseLlms
<1> QED BY <1>1, <1>2, <1>3, <1>4, <1>5, <1>6, GenerateType DEF ClientActs

-----------------------------------------------------------------------------
(* The rebuild.                                                            *)

\* Whoever is between the lock and the close of a rebuild holds the lock, and
\* knows the client that was current when it took it.  Besides the clients that
\* an interruption left behind, what is open is the current client and, before
\* the close, the one that is being replaced.
Locked(t) == step[t] \in {"set", "close"}
RebuildInv ==
  /\ client # NoClient => client \in open
  /\ owner = NoThread => open \ dropped \subseteq {client}
  /\ phase # "done" => \A t \in Thread :
       /\ step[t] # "idle" => client # NoClient
       /\ Locked(t) <=> owner = t
       /\ step[t] = "set" => old[t] = client /\ open \ dropped \subseteq {client}
       /\ step[t] = "close" =>
            /\ old[t] # NoClient /\ old[t] # client
            /\ open \ dropped \subseteq {client, old[t]}

LEMMA RebuildStep ==
  ASSUME ClientsTypeOK, RebuildInv, ClientActs
  PROVE  RebuildInv'
<1> USE ClientsAssumption
    DEF RebuildInv, Locked, ClientsTypeOK, Client, NoClient, serverVars, poolVars, callVars
<1>0. phase = "done" => phase' = "done"
  BY DEF ClientActs
<1>1. CASE UNCHANGED clientVars
  BY <1>0, <1>1 DEF clientVars
<1>2. CASE Server
  <2>1. UNCHANGED <<made, client, open, owner, dropped, step, old>>
    BY <1>2 DEF Server, Wedge, Started
  <2> QED BY <1>0, <2>1
<1>3. ASSUME NEW t \in Thread, phase # "done",
             UNCHANGED poolVars, \A u \in Thread \ {t} : step'[u] = step[u] /\ old'[u] = old[u],
             ~Locked(t), ~Locked(t)', step'[t] # "idle" => client # NoClient
      PROVE  RebuildInv'
  BY <1>3
<1>4. ASSUME NEW t \in Thread, phase # "done",
             \/ Call(t) \/ Reply(t) \/ FirstFails(t) \/ SecondFails(t) \/ Healthy(t)
             \/ Unhealthy(t) \/ Restart(t) \/ Poll(t) \/ Retry(t)
      PROVE  RebuildInv'
  <2>1. UNCHANGED poolVars
    BY <1>4 DEF Call, Reply, FirstFails, SecondFails, Healthy, Unhealthy, Restart, Poll, Retry
  <2>2. \A u \in Thread \ {t} : step'[u] = step[u] /\ old'[u] = old[u]
    BY <1>4 DEF Call, Reply, FirstFails, SecondFails, Healthy, Unhealthy, Restart, Poll, Retry, Send, End
  <2>3. ~Locked(t) /\ ~Locked(t)'
    BY <1>4 DEF Call, Reply, FirstFails, SecondFails, Healthy, Unhealthy, Restart, Poll, Retry, Send, End,
                InFlight
  <2>4. client # NoClient
    BY <1>4 DEF Call, Reply, FirstFails, SecondFails, Healthy, Unhealthy, Restart, Poll, Retry, InFlight
  <2> QED BY <1>3, <1>4, <2>1, <2>2, <2>3, <2>4
<1>5. ASSUME NEW t \in Thread, phase # "done", Lock(t) PROVE RebuildInv'
  <2>1. /\ owner = NoThread /\ owner' = t /\ step[t] = "lock" /\ step' = [step EXCEPT ![t] = "set"]
        /\ old' = [old EXCEPT ![t] = client] /\ UNCHANGED <<client, open, dropped>>
    BY <1>5 DEF Lock
  <2>2. \A u \in Thread : ~Locked(u) /\ (u # t => ~Locked(u)')
    BY <1>5, <2>1
  <2>3. client # NoClient /\ open \ dropped \subseteq {client}
    BY <1>5, <2>1
  <2>4. step'[t] = "set" /\ old'[t] = client' /\ open' \ dropped' \subseteq {client'}
    BY <2>1, <2>3
  <2> QED BY <1>5, <2>1, <2>2, <2>3, <2>4
<1>6. ASSUME NEW t \in Thread, phase # "done", SetClients(t) PROVE RebuildInv'
  <2>1. owner = t /\ old[t] = client /\ open \ dropped \subseteq {client} /\ client # NoClient
    BY <1>6 DEF SetClients
  <2>2. /\ client' = made + 1 /\ open' = open \cup {made + 1} /\ step' = [step EXCEPT ![t] = "close"]
        /\ UNCHANGED <<owner, old, dropped>>
    BY <1>6 DEF SetClients
  <2>3. \A u \in Thread : u # t => ~Locked(u) /\ ~Locked(u)'
    BY <1>6, <2>1, <2>2
  <2>4. client \in 1..made /\ client' # NoClient /\ client' \in open' /\ client' # client
    BY <1>6, <2>1, <2>2
  <2>5. old'[t] # NoClient /\ old'[t] # client' /\ open' \ dropped' \subseteq {client', old'[t]}
    BY <1>6, <2>1, <2>2, <2>4
  <2> QED BY <1>6, <2>1, <2>2, <2>3, <2>4, <2>5
<1>7. ASSUME NEW t \in Thread, phase # "done", CloseOld(t) PROVE RebuildInv'
  <2>1. owner = t /\ open \ dropped \subseteq {client, old[t]} /\ old[t] # client /\ client # NoClient
    BY <1>7 DEF CloseOld
  <2>2. /\ open' = open \ {old[t]} /\ owner' = NoThread /\ step' = [step EXCEPT ![t] = "again"]
        /\ UNCHANGED <<client, old, dropped>>
    BY <1>7 DEF CloseOld, Replaced
  <2>3. \A u \in Thread : ~Locked(u)'
    BY <1>7, <2>1, <2>2
  <2> QED BY <1>7, <2>1, <2>2, <2>3
<1>8. ASSUME NEW t \in Thread, phase # "done", Interrupted(t) PROVE RebuildInv'
  <2>1. /\ step' = [step EXCEPT ![t] = "idle"] /\ old' = [old EXCEPT ![t] = NoClient]
        /\ UNCHANGED <<client, open>> /\ owner' = IF owner = t THEN NoThread ELSE owner
        /\ dropped' = IF step[t] = "close" THEN dropped \cup {old[t]} ELSE dropped
    BY <1>8 DEF Interrupted, End
  <2>2. CASE owner = t
    <3>1. \A u \in Thread : ~Locked(u)'
      BY <1>8, <2>1, <2>2
    <3>2. open' \ dropped' \subseteq {client'}
      BY <1>8, <2>1, <2>2
    <3> QED BY <1>8, <2>1, <2>2, <3>1, <3>2
  <2>3. CASE owner # t
    <3>1. dropped' = dropped /\ owner' = owner
      BY <1>8, <2>1, <2>3
    <3> QED BY <1>8, <2>1, <2>3, <3>1
  <2> QED BY <1>8, <2>2, <2>3
<1>9. CASE phase = "between" /\ MakeLlm
  <2>1. CASE client = NoClient
    <3>1. \A t \in Thread : step[t] = "idle" /\ ~Locked(t)
      BY <1>9, <2>1
    <3>2. owner = NoThread /\ open \ dropped \subseteq {}
      BY <1>9, <2>1, <3>1
    <3>3. client' = made + 1 /\ open' = open \cup {made + 1} /\ UNCHANGED <<owner, step, old, dropped>>
      BY <1>9, <2>1, MakeLlmCases
    <3> QED BY <3>1, <3>2, <3>3
  <2>2. CASE client # NoClient
    BY <1>9, <2>2, MakeLlmCases
  <2> QED BY <2>1, <2>2
<1>10. CASE phase' = "done" /\ CloseLlms
  BY <1>10 DEF CloseLlms
<1>11. ASSUME NEW t \in Thread, phase # "done", Generate(t) PROVE RebuildInv'
  BY <1>4, <1>5, <1>6, <1>7, <1>11 DEF Generate
<1>12. ASSUME NEW t \in Thread, phase # "done", Call(t) PROVE RebuildInv'
  BY <1>4, <1>12
<1> HIDE DEF RebuildInv
<1> QED BY <1>1, <1>2, <1>8, <1>9, <1>10, <1>11, <1>12 DEF ClientActs

-----------------------------------------------------------------------------
(* The run.                                                                *)

\* The actions of a turn that is on, by what they do to its threads.
LEMMA NextRun ==
  ASSUME [Next]_vars
  PROVE  \/ StartTurn \/ Cancel \/ Record \/ RecordError \/ Cleanup \/ Release
         \/ (\E t \in Thread : KeepConnection(t) \/ Statement(t) \/ ConnectFails(t))
         \/ CallModel \/ LimitReached \/ MainRaises \/ Answer \/ CallRaises
         \/ Join \/ JoinRaises \/ UnwindJoined
         \/ (\E tools \in SUBSET Tool : FanOut(tools))
         \/ (\E t \in Tool : SubAgentCalls(t) \/ ToolReturns(t) \/ ToolRaises(t))
         \/ (\E t \in Thread : Model(t))
         \/ ServerStep \/ Expire \/ RaiseTimeout \/ AbandonTools \/ DumpFires
         \/ UNCHANGED vars
BY HarnessAssumption DEF Next, MainStep, ToolStep, Tool

\* A thread that is in a model call is on its turn; the tools that are not
\* abandoned work only while the main thread waits for them, or leaves the turn;
\* the main thread works in a turn only.
DoingInv ==
  /\ \A t \in Thread : step[t] # "idle" => doing[t] = "calling"
  /\ \A t \in Tool : doing[t] # "joining"
  /\ phase \notin {"turn", "exited"} => doing[Main] = "none"
  /\ phase \notin {"turn", "unwinding", "exited"} => ToolsDone
  /\ phase = "turn" /\ doing[Main] # "joining" => ToolsDone

LEMMA DoingStep ==
  ASSUME TypeOK, DoingInv, [Next]_vars
  PROVE  DoingInv'
<1> USE HarnessAssumption DEF DoingInv, TypeOK, ClientsTypeOK, Tool, ToolsDone, Do, clientVars, callVars
<1>1. CASE StartTurn
  BY <1>1, MakeLlmCases DEF StartTurn
<1>2. CASE Cancel \/ Record \/ RecordError \/ Cleanup
  BY <1>2 DEF Cancel, Record, RecordError, Cleanup
<1>3. CASE Release
  BY <1>3 DEF Release, CloseLlms
<1>4. ASSUME NEW t \in Thread, UNCHANGED <<phase, step, abandoned>>, Running(t), doing[t] \notin {"none", "joining"},
             \E what \in Doing \ {"joining"} : Do(t, what), step[t] = "idle"
      PROVE  DoingInv'
  <2>1. t = Main => phase = "turn"
    BY <1>4 DEF Running
  <2>2. t # Main /\ t \notin abandoned => phase \in {"turn", "unwinding"} /\ (phase = "turn" => doing[Main] = "joining")
    BY <1>4 DEF Running
  <2>3. /\ doing'[t] # "joining" /\ \A u \in Thread \ {t} : doing'[u] = doing[u]
        /\ t \in Tool \/ t = Main
    BY <1>4
  <2> QED BY <1>4, <2>1, <2>2, <2>3
<1>5. ASSUME NEW t \in Thread, KeepConnection(t) \/ Statement(t) PROVE DoingInv'
  BY <1>4, <1>5 DEF KeepConnection, Statement, Doing
<1>6. ASSUME NEW t \in Thread, ConnectFails(t) PROVE DoingInv'
  <2>1. CASE t = Main
    BY <1>6, <2>1 DEF ConnectFails, Running
  <2>2. CASE t # Main
    BY <1>4, <1>6, <2>2 DEF ConnectFails, Doing
  <2> QED BY <2>1, <2>2
<1>7. CASE CallModel
  BY <1>7 DEF CallModel, Call, Send
<1>8. CASE LimitReached \/ MainRaises \/ Answer \/ CallRaises
  BY <1>8 DEF LimitReached, MainRaises, Answer, CallRaises
<1>9. CASE Join
  BY <1>9 DEF Join
<1>10. CASE JoinRaises
  BY <1>10 DEF JoinRaises
<1>11. CASE UnwindJoined
  BY <1>11 DEF UnwindJoined
<1>12. ASSUME NEW tools \in SUBSET Tool, FanOut(tools) PROVE DoingInv'
  BY <1>12 DEF FanOut
<1>13. ASSUME NEW t \in Tool, SubAgentCalls(t) PROVE DoingInv'
  <2>1. t \notin abandoned => phase \in {"turn", "unwinding"} /\ (phase = "turn" => doing[Main] = "joining")
    BY <1>13 DEF SubAgentCalls, Running
  <2>2. /\ \A u \in Thread \ {t} : doing'[u] = doing[u] /\ step'[u] = step[u]
        /\ doing'[t] = "calling" /\ UNCHANGED <<phase, abandoned>>
    BY <1>13 DEF SubAgentCalls, Call, Send
  <2> QED BY <2>1, <2>2
<1>14. ASSUME NEW t \in Tool, ToolReturns(t) \/ ToolRaises(t) PROVE DoingInv'
  BY <1>4, <1>14 DEF ToolReturns, ToolRaises, Doing
<1>15. ASSUME NEW t \in Thread, Model(t) PROVE DoingInv'
  <2>1. UNCHANGED <<phase, doing, abandoned>>
    BY <1>15 DEF Model, runVars
  <2>2. step[t] # "idle" /\ \A u \in Thread \ {t} : step'[u] = step[u]
    BY <1>15
       DEF Model, Generate, Reply, FirstFails, SecondFails, Healthy, Unhealthy, Restart, Poll, Lock,
           SetClients, CloseOld, Retry, Send, End, InFlight
  <2> QED BY <2>1, <2>2
<1>16. CASE ServerStep
  BY <1>16 DEF ServerStep, Server, Wedge, Started, runVars
<1>17. CASE Expire
  BY <1>17 DEF Expire
<1>18. CASE RaiseTimeout
  <2>1. /\ \A t \in Thread \ {Main} : step'[t] = step[t] /\ doing'[t] = doing[t]
        /\ step'[Main] = "idle" /\ doing'[Main] = "none" /\ UNCHANGED abandoned
    BY <1>18 DEF RaiseTimeout, Interrupted, End
  <2>2. phase' = IF Unwound THEN "raised" ELSE "unwinding"
    BY <1>18 DEF RaiseTimeout
  <2>3. Unwound => ToolsDone
    BY <1>18 DEF RaiseTimeout, Unwound
  <2> QED BY <2>1, <2>2, <2>3
<1>19. CASE AbandonTools
  <2>1. /\ phase = "unwinding" /\ phase' = "raised" /\ UNCHANGED <<doing, step>>
        /\ abandoned' = abandoned \cup { t \in Tool : doing[t] # "none" }
    BY <1>19 DEF AbandonTools
  <2>2. ToolsDone'
    BY <2>1
  <2> QED BY <2>1, <2>2
<1>20. CASE DumpFires
  BY <1>20 DEF DumpFires
<1>21. CASE UNCHANGED vars
  BY <1>21 DEF vars, runVars
<1> HIDE DEF DoingInv
<1> QED
  BY <1>1, <1>2, <1>3, <1>5, <1>6, <1>7, <1>8, <1>9, <1>10, <1>11, <1>12, <1>13, <1>14,
     <1>15, <1>16, <1>17, <1>18, <1>19, <1>20, <1>21, NextRun

\* The alarm is off as soon as the deadline is left; and every entry of the
\* transcript belongs to a turn that is over.
LoopInv ==
  /\ phase \in {"between", "cleanup", "done"} => ~dump
  /\ phase \in {"between", "cleanup", "done", "disarm"} => alarm = "off"
  /\ Len(transcript) = IF InTurn \/ phase = "exited" THEN turn - 1 ELSE turn
  /\ phase \in {"cleanup", "done"} => turn = Turns

LEMMA LoopStep ==
  ASSUME TypeOK, LoopInv, [Next]_vars
  PROVE  LoopInv'
<1> USE HarnessAssumption DEF LoopInv, TypeOK, InTurn, Phase
<1>1. CASE StartTurn
  BY <1>1 DEF StartTurn
<1>2. CASE Cancel
  BY <1>2 DEF Cancel
<1>3. CASE Record
  BY <1>3 DEF Record
<1>4. CASE RecordError
  <2>1. Len(transcript') = Len(transcript) + 1
    BY <1>4, ConcatProperties DEF RecordError, ErrorEntry
  <2> QED BY <1>4, <2>1 DEF RecordError, DumpAfterError
<1>5. CASE Cleanup \/ Release
  BY <1>5 DEF Cleanup, Release
<1>6. CASE LimitReached \/ MainRaises \/ Answer \/ CallRaises
  BY <1>6 DEF LimitReached, MainRaises, Answer, CallRaises
<1>7. CASE JoinRaises \/ UnwindJoined
  BY <1>7 DEF JoinRaises, UnwindJoined
<1>8. CASE Expire
  BY <1>8 DEF Expire
<1>9. CASE RaiseTimeout \/ AbandonTools
  BY <1>9 DEF RaiseTimeout, AbandonTools
<1>10. CASE DumpFires
  BY <1>10 DEF DumpFires
<1>11. CASE UNCHANGED <<phase, turn, transcript, alarm, dump>>
  BY <1>11
<1>12. \/ (\E t \in Thread : KeepConnection(t) \/ Statement(t) \/ Model(t))
       \/ CallModel \/ Join \/ (\E tools \in SUBSET Tool : FanOut(tools))
       \/ (\E t \in Tool : SubAgentCalls(t) \/ ToolReturns(t) \/ ToolRaises(t)) \/ ServerStep \/ UNCHANGED vars
       => UNCHANGED <<phase, turn, transcript, alarm, dump>>
  BY DEF KeepConnection, Statement, Model, CallModel, Join, FanOut, SubAgentCalls, ToolReturns,
         ToolRaises, ServerStep, vars, runVars
<1>13. ASSUME NEW t \in Thread, ConnectFails(t) PROVE LoopInv'
  BY <1>13 DEF ConnectFails, Running
<1> HIDE DEF LoopInv
<1> QED
  BY <1>1, <1>2, <1>3, <1>4, <1>5, <1>6, <1>7, <1>8, <1>9, <1>10, <1>11, <1>12, <1>13, NextRun

\* A connection that is open is in the registry, or with the thread that is
\* about to put it there, or was kept out of it by an exception.
Connected == { local[t] : t \in { u \in Thread : doing[u] = "connected" } }
KeptInv ==
  /\ NoConn \notin Connected
  /\ live \subseteq registry \cup stray \cup Connected
  /\ phase \in {"cleanup", "done"} /\ abandoned = {} => live \subseteq stray
  /\ phase = "done" /\ abandoned = {} => open \subseteq dropped

LEMMA RunTypeStep ==
  ASSUME TypeOK, KeptInv, RebuildInv, [Next]_vars
  PROVE  TypeOK'
<1>1. ClientsTypeOK'
  BY NextClients, ClientsTypeStep DEF TypeOK, RebuildInv
<1>2. ConnectionsTypeOK' /\ (stray \in SUBSET Conn)' /\ (doing \in [Thread -> Doing])'
  <2> USE HarnessAssumption
      DEF TypeOK, ConnectionsTypeOK, Conn, NoConn, Doing, Tool, connVars, Do
  <2> DEFINE Goal == ConnectionsTypeOK' /\ (stray \in SUBSET Conn)' /\ (doing \in [Thread -> Doing])'
  <2>0. \A t \in Thread : doing[t] = "connected" => local[t] \in 1..opened
    BY DEF KeptInv, Connected
  <2>1. ASSUME NEW t \in Thread, KeepConnection(t) PROVE Goal
    <3>1. local[t] \in 1..opened
      BY <2>0, <2>1 DEF KeepConnection
    <3> QED BY <2>1, <3>1 DEF KeepConnection, Register
  <2>2. ASSUME NEW t \in Thread, Statement(t) PROVE Goal
    <3> DEFINE n == opened + 1
    <3>1. /\ opened' = n /\ live' = live \cup {n} /\ local' = [local EXCEPT ![t] = n]
          /\ UNCHANGED <<registry, stray>> /\ doing' = [doing EXCEPT ![t] = "connected"]
      BY <2>2 DEF Statement, Connect
    <3>2. n \in Nat /\ n \in 1..n /\ 1..opened \subseteq 1..n
      OBVIOUS
    <3> HIDE DEF n
    <3> QED BY <3>1, <3>2
  <2>3. ASSUME NEW t \in Thread, ConnectFails(t) PROVE Goal
    <3>1. local[t] \in 1..opened
      BY <2>0, <2>3 DEF ConnectFails
    <3>2. /\ local' = [local EXCEPT ![t] = 0] /\ stray' = stray \cup {local[t]}
          /\ UNCHANGED <<opened, live, registry>>
          /\ \E what \in {"none", "free"} : doing' = [doing EXCEPT ![t] = what]
      BY <2>3 DEF ConnectFails, Lose
    <3> QED BY <3>1, <3>2
  <2>4. CASE RaiseTimeout
    <3>1. /\ UNCHANGED <<opened, live, registry>>
          /\ local' = [local EXCEPT ![Main] = 0] \/ UNCHANGED local
          /\ stray' = stray \/ (doing[Main] = "connected" /\ stray' = stray \cup {local[Main]})
          /\ doing' = [doing EXCEPT ![Main] = "none"]
      BY <2>4 DEF RaiseTimeout, Lose
    <3> QED BY <2>0, <3>1
  <2>5. CASE Cleanup
    BY <2>5 DEF Cleanup, CloseAll, ClosedBy
  <2>6. CASE Join \/ UnwindJoined \/ AbandonTools
    BY <2>6 DEF Join, UnwindJoined, AbandonTools, ThreadsEnd
  <2>7. ASSUME NEW tools \in SUBSET Tool, FanOut(tools) PROVE Goal
    BY <2>7 DEF FanOut
  <2>8. \/ StartTurn \/ Cancel \/ Record \/ RecordError \/ Release \/ CallModel \/ LimitReached
        \/ MainRaises \/ Answer \/ CallRaises \/ JoinRaises
        \/ (\E t \in Tool : SubAgentCalls(t) \/ ToolReturns(t) \/ ToolRaises(t))
        \/ (\E t \in Thread : Model(t)) \/ ServerStep \/ Expire \/ DumpFires \/ UNCHANGED vars
        => UNCHANGED <<connVars, stray>> /\ (doing \in [Thread -> Doing])'
    BY DEF StartTurn, Cancel, Record, RecordError, Release, CallModel, LimitReached, MainRaises, Answer,
           CallRaises, JoinRaises, SubAgentCalls, ToolReturns, ToolRaises, Model, ServerStep, Expire,
           DumpFires, vars, runVars
  <2>9. CASE UNCHANGED <<connVars, stray>> /\ (doing \in [Thread -> Doing])'
    BY <2>9
  <2> HIDE DEF Goal
  <2>10. Goal
    BY <2>1, <2>2, <2>3, <2>4, <2>5, <2>6, <2>7, <2>8, <2>9, NextRun DEF Goal
  <2> QED BY <2>10 DEF Goal
<1>3. /\ phase' \in Phase /\ turn' \in 0..Turns /\ transcript' \in Seq(BOOLEAN)
      /\ alarm' \in {"off", "armed", "due", "fired"} /\ dump' \in BOOLEAN
      /\ rounds' \in 0..RecursionLimit /\ failed' \in BOOLEAN /\ abandoned' \subseteq Tool
  <2> USE HarnessAssumption DEF TypeOK, Phase
  <2>1. CASE StartTurn
    BY <2>1 DEF StartTurn, DumpArmed
  <2>2. CASE Cancel
    BY <2>2 DEF Cancel
  <2>3. CASE Record
    <3>1. Append(transcript, FALSE) \in Seq(BOOLEAN)
      <4> HIDE DEF Phase
      <4> QED BY AppendProperties
    <3> QED BY <2>3, <3>1 DEF Record
  <2>4. CASE RecordError
    <3>1. <<TRUE>> \in Seq(BOOLEAN)
      BY AppendProperties, EmptySeq
    <3>2. transcript \o <<TRUE>> \in Seq(BOOLEAN)
      BY <3>1, ConcatProperties
    <3> QED BY <2>4, <3>2 DEF RecordError, ErrorEntry, DumpAfterError
  <2>5. CASE \/ Cleanup \/ Release \/ LimitReached \/ MainRaises \/ Answer \/ CallRaises
             \/ JoinRaises \/ UnwindJoined
    BY <2>5 DEF Cleanup, Release, LimitReached, MainRaises, Answer, CallRaises, JoinRaises, UnwindJoined
  <2>6. CASE CallModel
    BY <2>6 DEF CallModel
  <2>7. CASE Expire \/ RaiseTimeout \/ AbandonTools \/ DumpFires
    BY <2>7 DEF Expire, RaiseTimeout, AbandonTools, DumpFires
  <2>8. \/ (\E t \in Thread : KeepConnection(t) \/ Statement(t) \/ Model(t))
        \/ Join \/ (\E tools \in SUBSET Tool : FanOut(tools))
        \/ (\E t \in Tool : SubAgentCalls(t) \/ ToolReturns(t)) \/ ServerStep \/ UNCHANGED vars
        => UNCHANGED <<phase, turn, transcript, alarm, dump, rounds, failed, abandoned>>
    BY DEF KeepConnection, Statement, Model, Join, FanOut, SubAgentCalls, ToolReturns,
           ServerStep, vars, runVars
  <2>9. ASSUME NEW t \in Tool, ToolRaises(t)
        PROVE  UNCHANGED <<phase, turn, transcript, alarm, dump, rounds, abandoned>> /\ failed' \in BOOLEAN
    BY <2>9 DEF ToolRaises
  <2>10. ASSUME NEW t \in Thread, ConnectFails(t)
         PROVE  /\ phase' \in Phase
                /\ UNCHANGED <<turn, transcript, alarm, dump, rounds, failed, abandoned>>
    BY <2>10 DEF ConnectFails
  <2> QED BY <2>1, <2>2, <2>3, <2>4, <2>5, <2>6, <2>7, <2>8, <2>9, <2>10, NextRun
<1> QED BY <1>1, <1>2, <1>3 DEF TypeOK

LEMMA KeptStep ==
  ASSUME TypeOK, DoingInv, RebuildInv, KeptInv, [Next]_vars
  PROVE  KeptInv'
<1> USE HarnessAssumption, ClientsAssumption DEF TypeOK, ConnectionsTypeOK, Conn, NoConn, connVars, Tool
<1>0. \A t \in Thread : doing[t] # "none" /\ phase \in {"cleanup", "done"} => abandoned # {}
  BY DEF DoingInv, ToolsDone
<1>1. ASSUME NEW t \in Thread, KeepConnection(t) PROVE KeptInv'
  <2>1. /\ registry' = registry \cup {local[t]} /\ doing' = [doing EXCEPT ![t] = "free"]
        /\ doing[t] = "connected" /\ UNCHANGED <<live, local, stray, phase, open, dropped, abandoned>>
    BY <1>1 DEF KeepConnection, Register, Do, clientVars, poolVars
  <2>2. Connected \subseteq Connected' \cup {local[t]} /\ Connected' \subseteq Connected
    BY <2>1 DEF Connected
  <2> QED BY <2>1, <2>2 DEF KeptInv
<1>2. ASSUME NEW t \in Thread, Statement(t) PROVE KeptInv'
  <2>1. /\ live' = live \cup {opened + 1} /\ local' = [local EXCEPT ![t] = opened + 1]
        /\ doing[t] = "free" /\ doing' = [doing EXCEPT ![t] = "connected"]
        /\ UNCHANGED <<registry, stray, phase, open, dropped, abandoned>>
    BY <1>2 DEF Statement, Connect, Do, clientVars, poolVars
  <2>2. Connected' = Connected \cup {opened + 1}
    BY <2>1 DEF Connected, Doing
  <2>3. opened + 1 # 0
    OBVIOUS
  <2> QED BY <1>0, <2>1, <2>2, <2>3 DEF KeptInv
<1>3. ASSUME NEW t \in Thread, ConnectFails(t) PROVE KeptInv'
  <2>1. /\ local' = [local EXCEPT ![t] = 0] /\ stray' = stray \cup {local[t]}
        /\ doing[t] = "connected" /\ \E what \in {"none", "free"} : doing' = [doing EXCEPT ![t] = what]
        /\ UNCHANGED <<registry, live, open, dropped, abandoned>>
        /\ phase' \in {phase, "raised"}
    BY <1>3 DEF ConnectFails, Lose, Do, clientVars, poolVars
  <2>2. Connected' \subseteq Connected /\ Connected \subseteq Connected' \cup {local[t]}
    BY <2>1 DEF Connected
  <2> QED BY <2>1, <2>2 DEF KeptInv
<1>4. CASE RaiseTimeout
  <2>1. /\ doing' = [doing EXCEPT ![Main] = "none"] /\ UNCHANGED <<live, registry>>
        /\ \A t \in Thread \ {Main} : local'[t] = local[t]
        /\ stray' = IF doing[Main] = "connected" THEN stray \cup {local[Main]} ELSE stray
        /\ phase' \in {"raised", "unwinding"}
    BY <1>4 DEF RaiseTimeout, Lose, Do
  <2>2. /\ Connected' \subseteq Connected
        /\ Connected \subseteq Connected' \cup (IF doing[Main] = "connected" THEN {local[Main]} ELSE {})
    BY <2>1 DEF Connected
  <2> QED BY <2>1, <2>2 DEF KeptInv
<1>5. CASE Cleanup
  <2>1. /\ live' = live \ registry /\ registry' = {} /\ phase' = "cleanup"
        /\ UNCHANGED <<stray, local, doing, abandoned>>
    BY <1>5 DEF Cleanup, CloseAll, ClosedBy
  <2>2. Connected' = Connected
    BY <2>1 DEF Connected
  <2>3. abandoned = {} => Connected = {}
    BY <1>5 DEF Cleanup, DoingInv, ToolsDone, Connected
  <2> QED BY <2>1, <2>2, <2>3 DEF KeptInv
<1>6. CASE Release
  <2>1. /\ open' = open \ {client} /\ phase = "cleanup" /\ phase' = "done"
        /\ UNCHANGED <<dropped, live, registry, local, stray, doing, abandoned>>
    BY <1>6 DEF Release, CloseLlms
  <2>2. abandoned = {} => owner = NoThread
    BY <2>1 DEF RebuildInv, Locked, DoingInv, ToolsDone, ClientsTypeOK
  <2>3. abandoned = {} => open \ dropped \subseteq {client}
    BY <2>2 DEF RebuildInv
  <2> QED BY <2>1, <2>3 DEF KeptInv, Connected
<1>7. CASE Join \/ UnwindJoined \/ AbandonTools
  <2>1. PICK ended \in SUBSET Tool :
          /\ local' = [w \in Worker |-> IF w \in ended THEN NoConn ELSE local[w]]
          /\ \A t \in ended : doing[t] = "none"
    <3>1. CASE Join \/ UnwindJoined
      <4>1. /\ local' = [w \in Worker |-> IF w \in Tool \ abandoned THEN NoConn ELSE local[w]]
            /\ \A t \in Tool \ abandoned : doing[t] = "none"
        BY <3>1 DEF Join, UnwindJoined, ThreadsEnd, ToolsDone
      <4> QED BY <4>1
    <3>2. CASE AbandonTools
      <4>1. /\ local' = [w \in Worker |-> IF w \in Tool \ abandoned' THEN NoConn ELSE local[w]]
            /\ \A t \in Tool \ abandoned' : doing[t] = "none"
        BY <3>2 DEF AbandonTools, ThreadsEnd
      <4> QED BY <4>1
    <3> QED BY <1>7, <3>1, <3>2
  <2>2. /\ UNCHANGED <<live, registry, stray>> /\ phase' \in {"turn", "raised"}
        /\ \A t \in Thread : doing'[t] = "connected" <=> doing[t] = "connected"
    BY <1>7 DEF Join, UnwindJoined, AbandonTools, ThreadsEnd, Do
  <2>3. Connected' = Connected
    BY <2>1, <2>2 DEF Connected
  <2> QED BY <2>2, <2>3 DEF KeptInv
<1>8. ASSUME UNCHANGED <<live, registry, stray, local>>,
             \A t \in Thread : doing'[t] = "connected" <=> doing[t] = "connected",
             \/ phase' \notin {"cleanup", "done"}
             \/ UNCHANGED <<phase, open, dropped, abandoned>>
             \/ phase = "cleanup" /\ UNCHANGED <<phase, abandoned>>
      PROVE  KeptInv'
  <2>1. Connected' = Connected
    BY <1>8 DEF Connected
  <2> QED BY <1>8, <2>1 DEF KeptInv
<1>9. ASSUME NEW tools \in SUBSET Tool, FanOut(tools) PROVE KeptInv'
  <2>1. /\ UNCHANGED <<live, registry, stray, local, phase>> /\ phase = "turn"
        /\ \A t \in Thread : doing'[t] = "connected" <=> (t \notin tools /\ doing[t] = "connected")
    BY <1>9 DEF FanOut
  <2>2. \A t \in tools : doing[t] = "none"
    BY <1>9 DEF FanOut, DoingInv, ToolsDone
  <2> QED BY <1>8, <2>1, <2>2
<1>10. \/ StartTurn \/ Cancel \/ Record \/ RecordError \/ CallModel \/ LimitReached \/ MainRaises
       \/ Answer \/ CallRaises \/ JoinRaises
       => KeptInv'
  <2>1. \/ StartTurn \/ Cancel \/ Record \/ RecordError \/ CallModel \/ LimitReached \/ MainRaises
        \/ Answer \/ CallRaises \/ JoinRaises
        => /\ UNCHANGED <<live, registry, stray, local>> /\ phase' \notin {"cleanup", "done"}
           /\ \A t \in Thread : doing'[t] = "connected" <=> doing[t] = "connected"
    BY DEF StartTurn, Cancel, Record, RecordError, CallModel, LimitReached, MainRaises, Answer, CallRaises,
           JoinRaises, DoingInv, Do
  <2> QED BY <1>8, <2>1
<1>11. ASSUME NEW t \in Tool, SubAgentCalls(t) \/ ToolReturns(t) \/ ToolRaises(t) PROVE KeptInv'
  <2>1. /\ UNCHANGED <<live, registry, stray, local, phase, abandoned>>
        /\ \A u \in Thread : doing'[u] = "connected" <=> doing[u] = "connected"
        /\ phase # "done"
    BY <1>11 DEF SubAgentCalls, ToolReturns, ToolRaises, Running, Do
  <2> QED BY <1>8, <2>1
<1>12. ASSUME NEW t \in Thread, Model(t) PROVE KeptInv'
  <2>1. UNCHANGED <<live, registry, stray, local, phase, doing, abandoned>> /\ phase # "done"
    BY <1>12 DEF Model, runVars
  <2> QED BY <1>8, <2>1
<1>13. ServerStep \/ Expire \/ DumpFires \/ UNCHANGED vars => KeptInv'
  <2>1. ServerStep \/ Expire \/ DumpFires \/ UNCHANGED vars =>
          /\ UNCHANGED <<live, registry, stray, local, doing>>
          /\ phase' \notin {"cleanup", "done"} \/ UNCHANGED <<phase, open, dropped, abandoned>>
    BY DEF ServerStep, Server, Wedge, Started, Expire, InTurn, DumpFires, vars, runVars, clientVars, poolVars
  <2> QED BY <1>8, <2>1
<1> QED
  BY <1>1, <1>2, <1>3, <1>4, <1>5, <1>6, <1>7, <1>9, <1>10, <1>11, <1>12, <1>13, NextRun

-----------------------------------------------------------------------------
HarnessInv == TypeOK /\ RebuildInv /\ DoingInv /\ LoopInv /\ KeptInv

LEMMA HarnessInvariant == Spec => []HarnessInv
<1>1. Init => HarnessInv
  <2> SUFFICES ASSUME Init PROVE HarnessInv
    OBVIOUS
  <2> USE HarnessAssumption, ClientsAssumption, ConnectionsAssumption
      DEF Init, ClientsInit, ConnectionsInit
  <2>1. TypeOK
    <3>1. ClientsTypeOK
      BY DEF ClientsTypeOK, Client, NoClient, Step
    <3>2. ConnectionsTypeOK
      BY DEF ConnectionsTypeOK, Conn, NoConn
    <3>3. transcript \in Seq(BOOLEAN)
      BY EmptySeq
    <3>4. phase \in Phase /\ alarm \in {"off", "armed", "due", "fired"}
      BY DEF Phase
    <3>5. turn \in 0..Turns /\ rounds \in 0..RecursionLimit
      <4>1. turn = 0 /\ rounds = 0
        OBVIOUS
      <4> QED BY <4>1, HarnessAssumption
    <3>6. dump \in BOOLEAN
      OBVIOUS
    <3>7. doing \in [Thread -> Doing] /\ failed \in BOOLEAN /\ stray \subseteq Conn /\ abandoned \subseteq Tool
      BY DEF Doing, Conn
    <3> HIDE DEF Init, ClientsInit, ConnectionsInit
    <3> QED BY <3>1, <3>2, <3>3, <3>4, <3>5, <3>6, <3>7 DEF TypeOK
  <2>2. RebuildInv
    BY DEF RebuildInv, Locked
  <2>3. DoingInv /\ LoopInv
    BY DEF DoingInv, LoopInv, InTurn, Tool, ToolsDone
  <2>4. KeptInv
    BY DEF KeptInv, Connected
  <2> QED BY <2>1, <2>2, <2>3, <2>4 DEF HarnessInv
<1>2. HarnessInv /\ [Next]_vars => HarnessInv'
  <2> SUFFICES ASSUME HarnessInv, [Next]_vars PROVE HarnessInv'
    OBVIOUS
  <2> USE DEF HarnessInv
  <2>1. TypeOK'
    BY RunTypeStep
  <2>2. RebuildInv'
    BY NextClients, RebuildStep DEF TypeOK
  <2>3. DoingInv' /\ LoopInv' /\ KeptInv'
    BY DoingStep, LoopStep, KeptStep
  <2> QED BY <2>1, <2>2, <2>3
<1> QED BY <1>1, <1>2, PTL DEF Spec

\* Every variable of the run, of its clients and of its connections keeps its
\* type.
THEOREM TypeCorrect == Spec => []TypeOK
<1>1. HarnessInv => TypeOK
  BY DEF HarnessInv
<1> QED BY <1>1, HarnessInvariant, PTL

\* However many threads rebuild the client, and wherever a deadline interrupts
\* one of them, one client is open besides those that an interruption left.
THEOREM OneClient == Spec => []OneOpenClient
<1>1. HarnessInv => OneOpenClient
  BY DEF HarnessInv, RebuildInv, OneOpenClient
<1> QED BY <1>1, HarnessInvariant, PTL

\* The client that calls go through is never a closed one.
THEOREM CurrentClientOpen == Spec => []CurrentIsOpen
<1>1. HarnessInv => CurrentIsOpen
  BY DEF HarnessInv, RebuildInv, CurrentIsOpen
<1> QED BY <1>1, HarnessInvariant, PTL

\* Neither the shared client nor a connection of the registry outlives a run
\* that has left no tool at work.
THEOREM RunReleases == Spec => []NothingOutlivesRun
<1>1. HarnessInv => NothingOutlivesRun
  BY DEF HarnessInv, KeptInv, NothingOutlivesRun
<1> QED BY <1>1, HarnessInvariant, PTL

\* No deadline is armed between two turns.
THEOREM DeadlinesDisarmed == Spec => []NoDeadlineBetweenTurns
<1>1. HarnessInv => NoDeadlineBetweenTurns
  BY DEF HarnessInv, LoopInv, NoDeadlineBetweenTurns
<1> QED BY <1>1, HarnessInvariant, PTL

\* Every turn leaves exactly one entry in the transcript.
THEOREM TurnsRecorded == Spec => []OneRecordPerTurn
<1>1. HarnessInv => OneRecordPerTurn
  BY DEF HarnessInv, LoopInv, OneRecordPerTurn, InTurn
<1> QED BY <1>1, HarnessInvariant, PTL

\* When a turn is recorded, none of its threads is at work any more, even if a
\* tool raised: but for those that a deadline abandoned.
THEOREM TurnsApart == Spec => []TurnsDoNotOverlap
<1>1. HarnessInv => TurnsDoNotOverlap
  BY HarnessAssumption DEF HarnessInv, DoingInv, ToolsDone, Tool, TurnsDoNotOverlap
<1> QED BY <1>1, HarnessInvariant, PTL
=============================================================================
