--------------------------- MODULE SubAgentProofs ---------------------------
(***************************************************************************)
(* Proofs about SubAgent, for every set of tasks, findings and fragments.  *)
(***************************************************************************)
EXTENDS SubAgent, TLAPS

\* The actions of one task, as the cases every proof splits Next into.
Acts(t) ==
  \/ Fork(t) \/ ForkFails(t) \/ (\E f \in Finding : Record(t, f))
  \/ (\E fragments \in (SUBSET Claim) \ {{}} : BeginConclude(t, fragments))
  \/ WriteClaim(t) \/ SelectFindings(t) \/ LinkClaim(t) \/ EndConclude(t) \/ ConcludeFails(t)
  \/ EndAgent(t)
  \/ AnswerConcluded(t) \/ WriteFallback(t) \/ LinkFallback(t) \/ AnswerFallback(t)
  \/ FallbackFails(t)

LEMMA NextActs == Next <=> \E t \in Task : Acts(t)
BY DEF Next, AgentStep, ToolStep, WrapperStep, Fails, Acts

-----------------------------------------------------------------------------
(* Types.                                                                  *)

LEMMA SynthesizedBody == \A t \in Task : Synthesized(t) \in FallbackBody
BY DEF Synthesized, FallbackBody

LEMMA TypeStep ==
  ASSUME TypeOK, NEW t \in Task, Acts(t)
  PROVE  TypeOK'
<1> USE DEF TypeOK, Phase, Ending, CallStep
<1>1. CASE Fork(t) \/ ForkFails(t)
  BY <1>1 DEF Fork, ForkFails, callVars
<1>2. ASSUME NEW f \in Finding, Record(t, f) PROVE TypeOK'
  BY <1>2 DEF Record, callVars
<1>3. ASSUME NEW fragments \in (SUBSET Claim) \ {{}}, BeginConclude(t, fragments) PROVE TypeOK'
  BY <1>3 DEF BeginConclude
<1>4. CASE WriteClaim(t)
  BY <1>4 DEF WriteClaim
<1>5. CASE SelectFindings(t)
  BY <1>5 DEF SelectFindings, Edge
<1>6. CASE LinkClaim(t)
  BY <1>6 DEF LinkClaim, callVars
<1>7. CASE EndConclude(t)
  BY <1>7 DEF EndConclude, CallOver, Edge
<1>8. CASE ConcludeFails(t)
  BY <1>8 DEF ConcludeFails, CallOver
<1>9. CASE EndAgent(t)
  BY <1>9 DEF EndAgent, callVars
<1>10. CASE AnswerConcluded(t)
  BY <1>10 DEF AnswerConcluded, callVars, Answer
<1>11. CASE WriteFallback(t)
  BY <1>11, SynthesizedBody DEF WriteFallback, callVars, Edge
<1>12. CASE LinkFallback(t)
  BY <1>12 DEF LinkFallback, callVars
<1>13. CASE AnswerFallback(t)
  BY <1>13, SynthesizedBody DEF AnswerFallback, callVars, Answer
<1>14. CASE FallbackFails(t)
  BY <1>14 DEF FallbackFails, callVars
<1> HIDE DEF TypeOK
<1> QED
  BY <1>1, <1>2, <1>3, <1>4, <1>5, <1>6, <1>7, <1>8, <1>9, <1>10, <1>11, <1>12, <1>13, <1>14
     DEF Acts

\* Every variable keeps its type; the wrapper's CASE is complete, so what it
\* stores and answers is one of the four bodies.
THEOREM TypeCorrect == Spec => []TypeOK
<1>1. Init => TypeOK
  BY DEF Init, TypeOK, Phase, Ending, CallStep, Answer
<1>2. TypeOK /\ [Next]_vars => TypeOK'
  <2>1. CASE UNCHANGED vars
    BY <2>1 DEF TypeOK, vars, callVars
  <2> QED BY <2>1, NextActs, TypeStep
<1> QED BY <1>1, <1>2, PTL DEF Spec

-----------------------------------------------------------------------------
(* The inductive invariant.                                                *)

\* A conclude_task call runs only while its agent does.  Its fragments are in
\* the parent's namespace when their edges are due, and an edge due to a fact
\* that was there when the call began is stored or pending.
CallInv(t) ==
  /\ cstep[t] # "idle" => phase[t] = "running" /\ claims[t] # {} /\ before[t] \subseteq recorded[t]
  /\ cstep[t] = "write" => claims[t] \ unwritten[t] \subseteq summaries[t]
  /\ cstep[t] \in {"select", "link"} => claims[t] \subseteq summaries[t]
  /\ cstep[t] = "link" => claims[t] \X before[t] \subseteq rollup[t] \cup pending[t]
  /\ owed[t] \subseteq rollup[t]
  /\ concluded[t] => summaries[t] # {}

\* A fallback exists only for a task that did not conclude, from the moment
\* the wrapper writes it; its edges are stored or pending.
FallbackInv(t) ==
  /\ phase[t] \in {"unborn", "running", "ended"} \/ concluded[t] =>
       summaries[t] \cap FallbackBody = {}
  /\ phase[t] = "linking" => ~concluded[t]
  /\ phase[t] \in {"linking", "returned"} /\ ~concluded[t] => Synthesized(t) \in summaries[t]
  /\ phase[t] = "linking" => {Synthesized(t)} \X recorded[t] \subseteq rollup[t] \cup pending[t]
  /\ phase[t] = "returned" /\ ~concluded[t] => {Synthesized(t)} \X recorded[t] \subseteq rollup[t]

Inv == TypeOK /\ \A t \in Task : CallInv(t) /\ FallbackInv(t)

\* What no step of another task touches.
Frame(u) ==
  /\ phase'[u] = phase[u] /\ ending'[u] = ending[u] /\ recorded'[u] = recorded[u]
  /\ summaries'[u] = summaries[u] /\ rollup'[u] = rollup[u] /\ concluded'[u] = concluded[u]
  /\ pending'[u] = pending[u] /\ owed'[u] = owed[u] /\ cstep'[u] = cstep[u]
  /\ claims'[u] = claims[u] /\ unwritten'[u] = unwritten[u] /\ before'[u] = before[u]

LEMMA OthersFramed ==
  ASSUME TypeOK, NEW t \in Task, Acts(t), NEW u \in Task, u # t
  PROVE  Frame(u)
<1> USE DEF TypeOK, Frame
<1>1. CASE Fork(t) \/ ForkFails(t) \/ EndAgent(t)
  BY <1>1 DEF Fork, ForkFails, EndAgent, callVars
<1>2. CASE \E f \in Finding : Record(t, f)
  BY <1>2 DEF Record, callVars
<1>3. CASE \E fragments \in (SUBSET Claim) \ {{}} : BeginConclude(t, fragments)
  BY <1>3 DEF BeginConclude
<1>4. CASE WriteClaim(t) \/ SelectFindings(t) \/ LinkClaim(t)
  BY <1>4 DEF WriteClaim, SelectFindings, LinkClaim, callVars
<1>5. CASE EndConclude(t) \/ ConcludeFails(t)
  BY <1>5 DEF EndConclude, ConcludeFails, CallOver
<1>6. CASE AnswerConcluded(t) \/ WriteFallback(t) \/ LinkFallback(t) \/ AnswerFallback(t) \/ FallbackFails(t)
  BY <1>6 DEF AnswerConcluded, WriteFallback, LinkFallback, AnswerFallback, FallbackFails, callVars
<1> HIDE DEF TypeOK, Frame
<1> QED BY <1>1, <1>2, <1>3, <1>4, <1>5, <1>6 DEF Acts

LEMMA FrameKeeps ==
  ASSUME NEW u \in Task, Frame(u), CallInv(u) /\ FallbackInv(u)
  PROVE  CallInv(u)' /\ FallbackInv(u)'
<1>1. CallInv(u)'
  BY DEF Frame, CallInv
<1>2. Synthesized(u)' = Synthesized(u)
  BY DEF Frame, Synthesized
<1>3. FallbackInv(u)'
  BY <1>2 DEF Frame, FallbackInv
<1> QED BY <1>1, <1>3

\* A fallback and a fragment are different texts; this keeps them apart.
LEMMA ClaimsAreNoFallback == \A c \in Claim : c \notin FallbackBody
BY SubAgentAssumption

LEMMA CallStepKeeps ==
  ASSUME TypeOK, NEW t \in Task, Acts(t), CallInv(t), FallbackInv(t)
  PROVE  CallInv(t)'
<1> USE DEF TypeOK, CallInv
<1>1. CASE Fork(t) \/ ForkFails(t)
  BY <1>1 DEF Fork, ForkFails, callVars
<1>2. ASSUME NEW f \in Finding, Record(t, f) PROVE CallInv(t)'
  BY <1>2 DEF Record, callVars
<1>3. ASSUME NEW fragments \in (SUBSET Claim) \ {{}}, BeginConclude(t, fragments) PROVE CallInv(t)'
  <2>1. /\ cstep'[t] = "write" /\ claims'[t] = fragments /\ unwritten'[t] = fragments
        /\ before'[t] = recorded'[t] /\ phase'[t] = "running"
    BY <1>3 DEF BeginConclude
  <2>2. owed'[t] \subseteq rollup'[t] /\ (concluded'[t] => summaries'[t] # {})
    BY <1>3 DEF BeginConclude
  <2>3. fragments # {}
    OBVIOUS
  <2> HIDE DEF TypeOK
  <2> QED BY <2>1, <2>2, <2>3
<1>4. CASE WriteClaim(t)
  BY <1>4 DEF WriteClaim
<1>5. CASE SelectFindings(t)
  BY <1>5 DEF SelectFindings
<1>6. CASE LinkClaim(t)
  BY <1>6 DEF LinkClaim, callVars
<1>7. CASE EndConclude(t)
  BY <1>7 DEF EndConclude, CallOver
<1>8. CASE ConcludeFails(t)
  BY <1>8 DEF ConcludeFails, CallOver
<1>9. CASE EndAgent(t)
  BY <1>9 DEF EndAgent, callVars
<1>10. CASE AnswerConcluded(t) \/ AnswerFallback(t) \/ FallbackFails(t)
  BY <1>10 DEF AnswerConcluded, AnswerFallback, FallbackFails, callVars
<1>11. CASE WriteFallback(t)
  BY <1>11 DEF WriteFallback, callVars
<1>12. CASE LinkFallback(t)
  BY <1>12 DEF LinkFallback, callVars
<1> HIDE DEF TypeOK, CallInv
<1> QED
  BY <1>1, <1>2, <1>3, <1>4, <1>5, <1>6, <1>7, <1>8, <1>9, <1>10, <1>11, <1>12 DEF Acts

LEMMA FallbackStepKeeps ==
  ASSUME TypeOK, NEW t \in Task, Acts(t), CallInv(t), FallbackInv(t)
  PROVE  FallbackInv(t)'
<1> DEFINE S == Synthesized(t)
<1>a. (ending'[t] = ending[t] /\ recorded'[t] = recorded[t]) => S' = S
  BY DEF Synthesized
<1>b. S \in FallbackBody
  BY SynthesizedBody
<1> HIDE DEF S
<1> USE DEF TypeOK, FallbackInv, S
<1>1. CASE Fork(t) \/ ForkFails(t)
  BY <1>1 DEF Fork, ForkFails, callVars
<1>2. ASSUME NEW f \in Finding, Record(t, f) PROVE FallbackInv(t)'
  BY <1>2 DEF Record, callVars
<1>3. ASSUME NEW fragments \in (SUBSET Claim) \ {{}}, BeginConclude(t, fragments)
      PROVE  FallbackInv(t)'
  BY <1>3 DEF BeginConclude, CallInv
<1>4. CASE WriteClaim(t)
  BY <1>4, ClaimsAreNoFallback DEF WriteClaim, CallInv
<1>5. CASE SelectFindings(t)
  BY <1>5 DEF SelectFindings, CallInv
<1>6. CASE LinkClaim(t)
  BY <1>6 DEF LinkClaim, CallInv, callVars
<1>7. CASE EndConclude(t)
  BY <1>7 DEF EndConclude, CallOver, CallInv
<1>8. CASE ConcludeFails(t)
  BY <1>8 DEF ConcludeFails, CallOver, CallInv
<1>9. CASE EndAgent(t)
  BY <1>9 DEF EndAgent, callVars
<1>10. CASE AnswerConcluded(t)
  BY <1>10 DEF AnswerConcluded, callVars
<1>11. CASE WriteFallback(t)
  BY <1>11, <1>a, <1>b DEF WriteFallback, callVars
<1>12. CASE LinkFallback(t)
  BY <1>12, <1>a DEF LinkFallback, callVars
<1>13. CASE AnswerFallback(t)
  BY <1>13, <1>a DEF AnswerFallback, callVars
<1>14. CASE FallbackFails(t)
  BY <1>14 DEF FallbackFails, callVars
<1> HIDE DEF TypeOK, FallbackInv
<1> QED
  BY <1>1, <1>2, <1>3, <1>4, <1>5, <1>6, <1>7, <1>8, <1>9, <1>10, <1>11, <1>12, <1>13, <1>14
     DEF Acts

LEMMA InvStep == Inv /\ [Next]_vars => Inv'
<1> SUFFICES ASSUME Inv, [Next]_vars PROVE Inv'
  OBVIOUS
<1>1. CASE UNCHANGED vars
  <2>1. TypeOK'
    BY <1>1 DEF Inv, TypeOK, vars, callVars
  <2>2. ASSUME NEW u \in Task PROVE Frame(u)
    BY <1>1 DEF vars, callVars, Frame
  <2> QED BY <2>1, <2>2, FrameKeeps DEF Inv
<1>2. CASE Next
  <2>1. PICK t \in Task : Acts(t)
    BY <1>2, NextActs
  <2>2. TypeOK'
    BY <2>1, TypeStep DEF Inv
  <2>3. CallInv(t)' /\ FallbackInv(t)'
    BY <2>1, CallStepKeeps, FallbackStepKeeps DEF Inv
  <2>4. ASSUME NEW u \in Task, u # t PROVE CallInv(u)' /\ FallbackInv(u)'
    BY <2>1, <2>4, OthersFramed, FrameKeeps DEF Inv
  <2> QED BY <2>2, <2>3, <2>4 DEF Inv
<1> QED BY <1>1, <1>2

LEMMA Invariance == Spec => []Inv
<1>1. Init => Inv
  BY DEF Init, Inv, TypeOK, Phase, Ending, CallStep, Answer, CallInv, FallbackInv
<1> QED BY <1>1, InvStep, PTL DEF Spec

-----------------------------------------------------------------------------
(* What the parent is told.                                                *)

\* conclude_task links every fragment to all that was recorded when the call
\* began, however other tools interleave and earlier calls failed.
THEOREM ConclusionsAreLinked == Spec => []ConclusionRolledUp
<1>1. Inv => ConclusionRolledUp
  BY DEF Inv, CallInv, ConclusionRolledUp
<1> QED BY <1>1, Invariance, PTL

\* _run answers for a sub-agent that did not conclude only when one fallback
\* is stored and linked to everything in its namespace.
THEOREM FallbacksAreLinked == Spec => []FallbackRolledUp
<1>1. Inv => FallbackRolledUp
  BY SynthesizedBody DEF Inv, FallbackInv, FallbackRolledUp
<1> QED BY <1>1, Invariance, PTL

\* No task has both a conclusion that counts and a fallback.
THEOREM OneVoice == Spec => []NoFallbackOnceConcluded
<1>1. Inv => NoFallbackOnceConcluded
  BY DEF Inv, FallbackInv, NoFallbackOnceConcluded
<1> QED BY <1>1, Invariance, PTL

\* An answer that claims a result is backed by a conclusion of the sub-agent.
\* What backs it is never undone, so this one is inductive.
THEOREM AnswersAreBacked == Spec => []AnswerBacked
<1>1. Init => AnswerBacked
  BY DEF Init, AnswerBacked
<1>2. ASSUME TypeOK, AnswerBacked, [Next]_vars PROVE AnswerBacked'
  <2>1. CASE UNCHANGED vars
    BY <1>2, <2>1 DEF AnswerBacked, vars, callVars
  <2>2. ASSUME NEW t \in Task, Acts(t) PROVE AnswerBacked'
    <3>1. ASSUME NEW u \in Task
          PROVE  recorded[u] \subseteq recorded'[u] /\ (concluded[u] => concluded'[u])
      BY <1>2, <2>2, <3>1
         DEF Acts, TypeOK, Fork, ForkFails, Record, BeginConclude, WriteClaim, SelectFindings,
             LinkClaim, EndConclude, ConcludeFails, EndAgent, AnswerConcluded, WriteFallback,
             LinkFallback, AnswerFallback, FallbackFails, callVars
    <3>2. CASE answer' = answer
      BY <1>2, <3>1, <3>2 DEF AnswerBacked
    <3>3. CASE AnswerConcluded(t)
      BY <1>2, <3>1, <3>3 DEF AnswerConcluded, AnswerBacked, TypeOK
    <3>4. CASE AnswerFallback(t)
      <4>1. Synthesized(t) # "completed"
        BY DEF Synthesized
      <4>2. Synthesized(t) = "reconstructed" => \E f \in recorded[t] : KindOf[f] = "conclusion"
        BY DEF Synthesized
      <4> QED BY <1>2, <3>1, <3>4, <4>1, <4>2 DEF AnswerFallback, AnswerBacked, TypeOK
    <3>5. answer' = answer \/ AnswerConcluded(t) \/ AnswerFallback(t)
      BY <2>2 DEF Acts, Fork, ForkFails, Record, BeginConclude, WriteClaim, SelectFindings,
                  LinkClaim, EndConclude, ConcludeFails, EndAgent, WriteFallback,
                  LinkFallback, FallbackFails
    <3> QED BY <3>2, <3>3, <3>4, <3>5
  <2> QED BY <1>2, <2>1, <2>2, NextActs
<1> QED BY <1>1, <1>2, TypeCorrect, PTL DEF Spec

-----------------------------------------------------------------------------
(* The refinement of EnforcedRollup.                                       *)

\* The abstract state of a task, and a step of one task seen through it.
Outcomes == [t \in Task |-> OutcomeOf(t)]
Reported == { t \in Task : summaries[t] # {} }

LEMMA ReportedStep ==
  ASSUME TypeOK, NEW t \in Task, Acts(t)
  PROVE  /\ Outcomes' = [Outcomes EXCEPT ![t] = OutcomeOf(t)']
         /\ Reported' \in {Reported, Reported \cup {t}}
<1>1. \A u \in Task : u # t => OutcomeOf(u)' = OutcomeOf(u) /\ summaries'[u] = summaries[u]
  BY OthersFramed DEF Frame, OutcomeOf
<1>2. summaries[t] \subseteq summaries'[t]
  BY DEF Acts, TypeOK, Fork, ForkFails, Record, BeginConclude, WriteClaim, SelectFindings,
         LinkClaim, EndConclude, ConcludeFails, EndAgent, AnswerConcluded, WriteFallback,
         LinkFallback, AnswerFallback, FallbackFails, callVars
<1>3. Outcomes' = [Outcomes EXCEPT ![t] = OutcomeOf(t)']
  BY <1>1 DEF Outcomes
<1>4. Reported' \in {Reported, Reported \cup {t}}
  BY <1>1, <1>2 DEF Reported
<1> QED BY <1>3, <1>4

\* Every step of delegation is a step of its contract, or none.
LEMMA ContractStep ==
  ASSUME Inv, NEW t \in Task, Acts(t)
  PROVE  Contract!Next \/ (Outcomes' = Outcomes /\ Reported' = Reported)
<1> USE DEF Inv
<1> DEFINE Same == OutcomeOf(t)' = OutcomeOf(t)
<1>0. /\ Outcomes' = [Outcomes EXCEPT ![t] = OutcomeOf(t)']
      /\ Reported' \in {Reported, Reported \cup {t}}
  BY ReportedStep
<1>a. Outcomes[t] = OutcomeOf(t) /\ (Same => Outcomes' = Outcomes)
  BY <1>0 DEF Outcomes
<1>b. summaries' = summaries => Reported' = Reported
  BY DEF Reported
<1>1. CASE Fork(t)
  <2>1. OutcomeOf(t) = "unborn" /\ OutcomeOf(t)' = "running" /\ summaries' = summaries
    BY <1>1 DEF Fork, OutcomeOf, TypeOK
  <2>2. Contract!Spawn(t)
    BY <1>0, <1>a, <1>b, <2>1 DEF Contract!Spawn, Outcomes, Reported
  <2> QED BY <2>2 DEF Contract!Next
<1>2. CASE ForkFails(t) \/ FallbackFails(t)
  <2>1. OutcomeOf(t) \in {"unborn", "running"} /\ OutcomeOf(t)' = "raised" /\ summaries' = summaries
    BY <1>2 DEF ForkFails, FallbackFails, OutcomeOf, TypeOK
  <2>2. Contract!Raise(t)
    BY <1>0, <1>a, <1>b, <2>1 DEF Contract!Raise, Outcomes, Reported
  <2> QED BY <2>2 DEF Contract!Next
<1>3. CASE AnswerConcluded(t) \/ AnswerFallback(t)
  <2>1. OutcomeOf(t) = "running" /\ OutcomeOf(t)' = "returned" /\ summaries' = summaries
    BY <1>3 DEF AnswerConcluded, AnswerFallback, OutcomeOf, TypeOK
  <2>2. t \in Reported
    BY <1>3 DEF AnswerConcluded, AnswerFallback, CallInv, FallbackInv, Reported
  <2>3. Contract!Answer(t)
    BY <1>0, <1>a, <1>b, <2>1, <2>2 DEF Contract!Answer, Outcomes, Reported
  <2> QED BY <2>3 DEF Contract!Next
<1>4. CASE WriteClaim(t) \/ WriteFallback(t)
  <2>1. OutcomeOf(t) = "running" /\ Same
    BY <1>4 DEF WriteClaim, WriteFallback, OutcomeOf, TypeOK, CallInv
  <2>2. CASE Reported' = Reported \cup {t}
    <3>1. Contract!Report(t)
      BY <1>a, <2>1, <2>2 DEF Contract!Report, Outcomes, Reported
    <3> QED BY <3>1 DEF Contract!Next
  <2> QED BY <1>0, <1>a, <2>1, <2>2
<1>5. CASE /\ summaries' = summaries
           /\ \/ phase' = phase
              \/ EndAgent(t)
  <2>1. Same
    BY <1>5 DEF EndAgent, OutcomeOf, TypeOK
  <2> QED BY <1>5, <1>a, <1>b, <2>1
<1> QED
  BY <1>1, <1>2, <1>3, <1>4, <1>5
     DEF Acts, Record, BeginConclude, SelectFindings, LinkClaim, EndConclude, ConcludeFails,
         EndAgent, LinkFallback

\* _run keeps the contract of EnforcedRollup: a task answers its parent only
\* when the parent's namespace holds a summary of it, nothing reported is
\* taken back, and nothing is reported for a task that is over.
THEOREM RollupIsEnforced == Spec => KeepsContract
<1>1. Init => Contract!Init
  BY DEF Init, Contract!Init, OutcomeOf
<1>2. Inv /\ [Next]_vars => [Contract!Next]_<<Outcomes, Reported>>
  <2>1. UNCHANGED vars => Outcomes' = Outcomes /\ Reported' = Reported
    BY DEF vars, Outcomes, OutcomeOf, Reported
  <2> QED BY <2>1, NextActs, ContractStep
<1> QED
  BY <1>1, <1>2, Invariance, PTL DEF Spec, KeepsContract, Contract!Spec, Outcomes, Reported
=============================================================================
