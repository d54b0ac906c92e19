--------------------------- MODULE MiddlewareProofs ---------------------------
(***************************************************************************)
(* Proofs about Middleware, for every conversation, every set of tools,    *)
(* every window and every number of facts injected.                        *)
(***************************************************************************)
EXTENDS Middleware, FiniteSetTheorems, SequenceTheorems, TLAPS

\* The actions, as the cases every proof splits Next into.
Acts ==
  \/ Send \/ Heard \/ Raise \/ EndTurn \/ ToolsDone
  \/ (\E f \in Fact : CaptureClaim(f))
  \/ (\E facts \in SUBSET Candidates : Inject(facts))
  \/ (\E tools \in SUBSET Tool : CallTools(tools))
  \/ (\E facts \in SUBSET Conclusion : Answer(facts))
  \/ (\E f \in Conclusion : RecordClaim(f))
  \/ (\E e \in links : RecordLink(e))
  \/ (\E t \in Tool : ToolReturns(t) \/ CaptureResultFails(t))
  \/ (\E t \in Tool : \E f \in TextOf[t] : CaptureResult(t, f))

LEMMA NextActs == Next => Acts
BY DEF Next, Acts

-----------------------------------------------------------------------------
(* Types.                                                                  *)

\* What a message of the user says, what a tool returns and what an answer
\* states are facts.
LEMMA FactTypes ==
  /\ \A i \in 1..Len(UserText) : ClaimsOf[UserText[i]] \subseteq Said
  /\ Said \subseteq Fact /\ Conclusion \subseteq Fact
  /\ \A t \in Tool : TextOf[t] \subseteq Fact
  /\ \A t \in Tool \ MemoryTool : TextOf[t] \cap Recalled = {}
  /\ Said \cap Recalled = {} /\ Conclusion \cap Recalled = {}
<1>1. Said \subseteq Fact /\ Conclusion \subseteq Fact /\ Returned \subseteq Fact
  BY DEF Fact
<1>2. \A i \in 1..Len(UserText) : ClaimsOf[UserText[i]] \subseteq Said
  BY DEF Said, Text
<1>3. /\ \A t \in Tool \ MemoryTool : TextOf[t] \cap Recalled = {}
      /\ Said \cap Recalled = {} /\ Conclusion \cap Recalled = {}
  BY MiddlewareAssumption
<1>4. \A t \in Tool : TextOf[t] \subseteq Fact
  <2>1. \A t \in Tool : TextOf[t] \subseteq Returned
    BY DEF Returned
  <2> QED BY <1>1, <2>1
<1> QED BY <1>1, <1>2, <1>3, <1>4

LEMMA FactsInType ==
  ASSUME NEW ms \in Seq(Message), NEW type
  PROVE  FactsIn(ms, type) \subseteq Fact
<1>1. \A i \in 1..Len(ms) : ms[i] \in Message
  OBVIOUS
<1>2. \A m \in Message : m.facts \subseteq Fact
  BY DEF Message
<1>3. \A i \in 1..Len(ms) : ms[i].facts \subseteq Fact
  BY <1>1, <1>2
<1> QED BY <1>3 DEF FactsIn

LEMMA AppendMessage ==
  ASSUME NEW ms \in Seq(Message), NEW m \in Message
  PROVE  /\ Append(ms, m) \in Seq(Message)
         /\ FactsIn(Append(ms, m), "human") =
              FactsIn(ms, "human") \cup (IF m.type = "human" THEN m.facts ELSE {})
<1>1. /\ Append(ms, m) \in Seq(Message) /\ Len(ms) \in Nat /\ Len(Append(ms, m)) = Len(ms) + 1
      /\ Append(ms, m)[Len(ms) + 1] = m
      /\ \A i \in 1..Len(ms) : Append(ms, m)[i] = ms[i]
  BY AppendProperties
<1> DEFINE am == Append(ms, m)
<1>2. ASSUME NEW f PROVE f \in FactsIn(am, "human") <=>
        \E i \in 1..Len(am) : am[i].type = "human" /\ f \in am[i].facts
  <2> HIDE DEF am
  <2> QED BY DEF FactsIn
<1>3. ASSUME NEW f PROVE f \in FactsIn(ms, "human") <=>
        \E i \in 1..Len(ms) : ms[i].type = "human" /\ f \in ms[i].facts
  BY DEF FactsIn
<1>4. \A i : i \in 1..Len(am) <=> i \in 1..Len(ms) \/ i = Len(ms) + 1
  BY <1>1
<1>5. am[Len(ms) + 1] = m /\ \A i \in 1..Len(ms) : am[i] = ms[i]
  BY <1>1
<1>6. ASSUME NEW f PROVE f \in FactsIn(am, "human") <=>
        f \in FactsIn(ms, "human") \/ (m.type = "human" /\ f \in m.facts)
  <2> HIDE DEF am
  <2> QED BY <1>2, <1>3, <1>4, <1>5
<1> QED BY <1>1, <1>6

\* The results of a round of tool calls are messages, none of them the user's.
ResultsOf(tools) ==
  LET order == SetToSeq(tools)
  IN  [i \in 1..Len(order) |-> [type |-> "tool", facts |-> TextOf[order[i]]]]

LEMMA ResultsType ==
  ASSUME NEW tools \in SUBSET Tool
  PROVE  /\ ResultsOf(tools) \in Seq(Message)
         /\ \A i \in 1..Len(ResultsOf(tools)) : ResultsOf(tools)[i].type = "tool"
<1>1. IsFiniteSet(tools)
  BY MiddlewareAssumption, FS_Subset
<1>2. Cardinality(tools) \in Nat /\ ExistsBijection(1..Cardinality(tools), tools)
  BY <1>1, FS_CardinalityType
<1>3. \E f \in [1..Cardinality(tools) -> tools] : IsInjective(f)
  BY <1>2 DEF ExistsBijection, Bijection, Injection, IsInjective
<1>4. SetToSeq(tools) \in [1..Cardinality(tools) -> tools]
  BY <1>3 DEF SetToSeq
<1>5. SetToSeq(tools) \in Seq(tools)
  BY <1>2, <1>4
<1> DEFINE order == SetToSeq(tools)
           results == [i \in 1..Len(order) |-> [type |-> "tool", facts |-> TextOf[order[i]]]]
<1>6. Len(order) \in Nat /\ \A i \in 1..Len(order) : order[i] \in tools
  BY <1>5
<1>7. \A i \in 1..Len(order) : results[i] \in Message /\ results[i].type = "tool"
  <2> HIDE DEF order
  <2> QED BY <1>6, FactTypes DEF Message
<1>8. results \in Seq(Message) /\ Len(results) = Len(order)
  <2> HIDE DEF order
  <2>1. results \in [1..Len(order) -> Message]
    BY <1>7
  <2> QED BY <1>6, <2>1
<1> QED BY <1>7, <1>8 DEF ResultsOf

LEMMA AppendResults ==
  ASSUME NEW ms \in Seq(Message), NEW tools \in SUBSET Tool
  PROVE  /\ ms \o ResultsOf(tools) \in Seq(Message)
         /\ FactsIn(ms \o ResultsOf(tools), "human") = FactsIn(ms, "human")
<1> DEFINE rs == ResultsOf(tools)
           am == ms \o rs
<1>1. /\ rs \in Seq(Message) /\ \A i \in 1..Len(rs) : rs[i].type = "tool"
      /\ Len(ms) \in Nat /\ Len(rs) \in Nat
  BY ResultsType
<1>2. /\ am \in Seq(Message) /\ Len(am) = Len(ms) + Len(rs)
      /\ \A i \in 1..Len(ms) + Len(rs) : am[i] = IF i <= Len(ms) THEN ms[i] ELSE rs[i - Len(ms)]
  <2> HIDE DEF rs
  <2> QED BY <1>1, ConcatProperties
<1> HIDE DEF rs, am
<1>3. \A i \in 1..Len(ms) : i \in 1..Len(am) /\ am[i] = ms[i]
  BY <1>1, <1>2
<1>4. \A i \in 1..Len(am) : am[i].type = "human" => i \in 1..Len(ms)
  <2> SUFFICES ASSUME NEW i \in 1..Len(am), ~(i <= Len(ms)) PROVE am[i].type # "human"
    BY <1>1, <1>2
  <2>1. i - Len(ms) \in 1..Len(rs) /\ am[i] = rs[i - Len(ms)]
    BY <1>1, <1>2
  <2> QED BY <1>1, <2>1
<1>5. FactsIn(am, "human") = FactsIn(ms, "human")
  BY <1>3, <1>4 DEF FactsIn
<1> QED BY <1>2, <1>5 DEF rs, am

LEMMA TypeStep ==
  ASSUME TypeOK, Acts
  PROVE  TypeOK'
<1> USE DEF TypeOK, setup, toolVars, contextVars
<1>1. CASE Send
  <2> DEFINE m == [type |-> "human", facts |-> ClaimsOf[UserText[sent + 1]]]
             before == IF kept THEN msgs ELSE <<>>
  <2>1. sent + 1 \in 1..Len(UserText)
    BY <1>1, MiddlewareAssumption DEF Send
  <2>2. m \in Message
    BY <2>1, FactTypes DEF Message
  <2>3. before \in Seq(Message)
    BY EmptySeq
  <2>4. msgs' \in Seq(Message) /\ at' = "before" /\ todo' = FactsIn(msgs', "human")
    <3> HIDE DEF m, before
    <3>1. msgs' = Append(before, m) /\ at' = "before" /\ todo' = FactsIn(msgs', "human")
      BY <1>1 DEF Send, Enter, ToCapture, m, before
    <3> QED BY <2>2, <2>3, <3>1, AppendMessage
  <2>5. todo' \subseteq Fact
    BY <2>4, FactsInType
  <2> QED BY <1>1, <2>1, <2>4, <2>5, MiddlewareAssumption DEF Send
<1>2. CASE Heard \/ Raise \/ EndTurn
  BY <1>2 DEF Heard, Raise, EndTurn
<1>3. CASE ToolsDone
  <2>1. msgs' = msgs \o ResultsOf(called) /\ at' = "before" /\ todo' = FactsIn(msgs', "human")
    BY <1>3 DEF ToolsDone, Enter, ToCapture, ResultsOf
  <2>2. msgs' \in Seq(Message)
    BY <2>1, AppendResults
  <2>3. todo' \subseteq Fact
    BY <2>1, <2>2, FactsInType
  <2> QED BY <1>3, <2>1, <2>2, <2>3 DEF ToolsDone
<1>4. ASSUME NEW f \in Fact, CaptureClaim(f) PROVE TypeOK'
  BY <1>4 DEF CaptureClaim
<1>5. ASSUME NEW facts \in SUBSET Candidates, Inject(facts) PROVE TypeOK'
  <2>1. Candidates \subseteq Fact
    BY DEF Candidates, Fact
  <2> QED BY <1>5, <2>1 DEF Inject, Held
<1>6. ASSUME NEW tools \in SUBSET Tool, CallTools(tools) PROVE TypeOK'
  <2>1. [type |-> "call", facts |-> {}] \in Message
    BY DEF Message
  <2>2. msgs' \in Seq(Message)
    BY <1>6, <2>1, AppendMessage DEF CallTools
  <2> QED BY <1>6, <2>2, MiddlewareAssumption DEF CallTools
<1>7. ASSUME NEW facts \in SUBSET Conclusion, Answer(facts) PROVE TypeOK'
  <2>1. [type |-> "answer", facts |-> facts] \in Message
    BY FactTypes DEF Message
  <2>2. msgs' \in Seq(Message)
    BY <1>7, <2>1, AppendMessage DEF Answer
  <2>3. todo' \subseteq Fact /\ shown' \subseteq Fact \X Fact /\ owed' \subseteq shown'
    BY <1>7, FactTypes DEF Answer
  <2> QED BY <1>7, <2>2, <2>3 DEF Answer
<1>8. ASSUME NEW f \in Conclusion, RecordClaim(f) PROVE TypeOK'
  BY <1>8, FactTypes DEF RecordClaim
<1>9. ASSUME NEW e \in links, RecordLink(e) PROVE TypeOK'
  BY <1>9 DEF RecordLink
<1>10. ASSUME NEW t \in Tool, ToolReturns(t) PROVE TypeOK'
  <2>1. capturing' \in [Tool -> SUBSET Fact]
    BY <1>10, FactTypes DEF ToolReturns
  <2> QED BY <1>10, <2>1 DEF ToolReturns
<1>11. ASSUME NEW t \in Tool, CaptureResultFails(t) PROVE TypeOK'
  BY <1>11 DEF CaptureResultFails
<1>12. ASSUME NEW t \in Tool, NEW f \in TextOf[t], CaptureResult(t, f) PROVE TypeOK'
  BY <1>12, FactTypes DEF CaptureResult
<1> HIDE DEF TypeOK
<1> QED
  BY <1>1, <1>2, <1>3, <1>4, <1>5, <1>6, <1>7, <1>8, <1>9, <1>10, <1>11, <1>12 DEF Acts

\* Every variable keeps its type: in particular what the next answer will be
\* derived from is never more than one search returned.
THEOREM TypeCorrect == Spec => []TypeOK
<1>1. Init => TypeOK
  <2> SUFFICES ASSUME Init PROVE TypeOK
    OBVIOUS
  <2>1. msgs \in Seq(Message)
    BY EmptySeq DEF Init
  <2>2. Cardinality({}) = 0
    BY FS_EmptySet
  <2> QED BY <2>1, <2>2, MiddlewareAssumption DEF Init, TypeOK
<1>2. TypeOK /\ [Next]_vars => TypeOK'
  <2>1. CASE UNCHANGED vars
    BY <2>1 DEF TypeOK, vars, setup, toolVars, contextVars
  <2> QED BY <2>1, NextActs, TypeStep
<1> QED BY <1>1, <1>2, PTL DEF Spec

-----------------------------------------------------------------------------
(* What the user has said.                                                 *)

Heeded ==
  /\ at = "before" => FactsIn(msgs, "human") \subseteq stored \cup todo
  /\ at \in {"wrap", "model"} => FactsIn(msgs, "human") \subseteq stored

LEMMA HeededStep ==
  ASSUME Heeded, [Next]_vars
  PROVE  Heeded'
<1> USE DEF Heeded
<1>1. CASE Send \/ ToolsDone
  BY <1>1 DEF Send, ToolsDone, Enter, ToCapture
<1>2. CASE Heard \/ Raise \/ EndTurn
  BY <1>2 DEF Heard, Raise, EndTurn
<1>3. ASSUME NEW f \in Fact, CaptureClaim(f) PROVE Heeded'
  BY <1>3 DEF CaptureClaim
<1>4. ASSUME NEW facts \in SUBSET Candidates, Inject(facts) PROVE Heeded'
  BY <1>4 DEF Inject
<1>5. at' \in {"tools", "after"} => Heeded'
  OBVIOUS
<1>6. \/ (\E tools \in SUBSET Tool : CallTools(tools))
      \/ (\E facts \in SUBSET Conclusion : Answer(facts))
      \/ (\E f \in Conclusion : RecordClaim(f))
      \/ (\E e \in links : RecordLink(e))
      \/ (\E t \in Tool : ToolReturns(t) \/ CaptureResultFails(t))
      \/ (\E t \in Tool : \E f \in TextOf[t] : CaptureResult(t, f))
      => at' \in {"tools", "after"}
  BY DEF CallTools, Answer, RecordClaim, RecordLink, ToolReturns, CaptureResultFails, CaptureResult
<1>7. CASE UNCHANGED vars
  BY <1>7 DEF vars
<1> QED BY <1>1, <1>2, <1>3, <1>4, <1>5, <1>6, <1>7, NextActs DEF Acts

\* The model never speaks before everything the user has said in this
\* conversation is stored, after failed captures too.
THEOREM HeardFirst == Spec => []HeardBeforeAnswered
<1>1. Init => Heeded
  BY DEF Init, Heeded
<1>2. Heeded /\ [Next]_vars => Heeded'
  BY HeededStep
<1>3. Heeded => HeardBeforeAnswered
  BY DEF Heeded, HeardBeforeAnswered
<1> QED BY <1>1, <1>2, <1>3, PTL DEF Spec

-----------------------------------------------------------------------------
(* What a model call is shown.                                             *)

\* During the call, its context is what one search has chosen.
ContextInv ==
  at = "model" => memory = lastInjected

LEMMA ContextStep ==
  ASSUME ContextInv, [Next]_vars
  PROVE  ContextInv'
<1>1. ASSUME NEW facts \in SUBSET Candidates, Inject(facts) PROVE ContextInv'
  BY <1>1 DEF Inject, Held, ContextInv
<1>2. CASE UNCHANGED vars
  BY <1>2 DEF vars, contextVars, ContextInv
<1>3. at' # "model" => ContextInv'
  BY DEF ContextInv
<1>4. \/ Send \/ Heard \/ Raise \/ EndTurn \/ ToolsDone
      \/ (\E f \in Fact : CaptureClaim(f))
      \/ (\E tools \in SUBSET Tool : CallTools(tools))
      \/ (\E facts \in SUBSET Conclusion : Answer(facts))
      \/ (\E f \in Conclusion : RecordClaim(f))
      \/ (\E e \in links : RecordLink(e))
      \/ (\E t \in Tool : ToolReturns(t) \/ CaptureResultFails(t))
      \/ (\E t \in Tool : \E f \in TextOf[t] : CaptureResult(t, f))
      => at' # "model"
  BY DEF Send, Heard, Raise, EndTurn, ToolsDone, Enter, CaptureClaim, CallTools, Answer, RecordClaim,
         RecordLink, ToolReturns, CaptureResultFails, CaptureResult
<1> QED BY <1>1, <1>2, <1>3, <1>4, NextActs DEF Acts

LEMMA ContextInvariant == Spec => []ContextInv
<1>1. Init => ContextInv
  BY DEF Init, ContextInv
<1>2. ContextInv /\ [Next]_vars => ContextInv'
  BY ContextStep
<1> QED BY <1>1, <1>2, PTL DEF Spec

-----------------------------------------------------------------------------
(* Provenance.                                                             *)

\* While an answer is recorded, the edges it is owed are stored, or due for the
\* current claim, or will be due for a claim that is still to be written; and
\* no other edge is due.
DerivationInv ==
  /\ derived \subseteq shown
  /\ at # "after" => links = {}
  /\ at = "after" =>
       /\ links \subseteq shown /\ todo \X lastInjected \subseteq shown
       /\ owed \subseteq derived \cup links \cup (todo \X lastInjected)
       /\ \A e \in owed : e[1] # e[2]
  /\ at = "user" => owed \subseteq derived

LEMMA DerivationStep ==
  ASSUME TypeOK, ContextInv, DerivationInv, [Next]_vars
  PROVE  DerivationInv'
<1>1. ASSUME NEW facts \in SUBSET Conclusion, Answer(facts) PROVE DerivationInv'
  <2>1. /\ at' = "after" /\ todo' = (IF captureFinal THEN facts ELSE {})
        /\ shown' = shown \cup (facts \X lastInjected)
        /\ owed' = (IF captureFinal THEN { e \in facts \X lastInjected : e[1] # e[2] } ELSE {})
        /\ derived' = derived /\ links' = {} /\ lastInjected' = lastInjected
    BY <1>1 DEF Answer, ContextInv, DerivationInv
  <2>2. /\ derived' \subseteq shown' /\ todo' \X lastInjected' \subseteq shown'
        /\ owed' \subseteq todo' \X lastInjected' /\ \A e \in owed' : e[1] # e[2]
    BY <2>1 DEF DerivationInv
  <2> QED BY <2>1, <2>2 DEF DerivationInv
<1>2. ASSUME NEW f \in Conclusion, RecordClaim(f) PROVE DerivationInv'
  <2>1. /\ at = "after" /\ at' = "after" /\ links = {} /\ f \in todo /\ todo' = todo \ {f}
        /\ links' = {f} \X (lastInjected \ {f})
        /\ UNCHANGED <<derived, lastInjected, shown, owed>>
    BY <1>2 DEF RecordClaim, contextVars
  <2>2. links' \subseteq todo \X lastInjected /\ todo' \X lastInjected' \subseteq todo \X lastInjected
    BY <2>1
  <2>3. \A e \in todo \X lastInjected : e[1] # e[2] => e \in links' \cup (todo' \X lastInjected')
    BY <2>1
  <2>4. owed' \subseteq derived' \cup links' \cup (todo' \X lastInjected')
    BY <2>1, <2>3 DEF DerivationInv
  <2> QED BY <2>1, <2>2, <2>4 DEF DerivationInv
<1>3. ASSUME NEW e \in links, RecordLink(e) PROVE DerivationInv'
  BY <1>3 DEF RecordLink, contextVars, DerivationInv
<1>4. CASE EndTurn
  BY <1>4 DEF EndTurn, contextVars, DerivationInv
<1>5. CASE Send \/ Raise
  BY <1>5 DEF Send, Raise, Enter, DerivationInv
<1>6. ASSUME \/ Heard \/ ToolsDone
             \/ (\E f \in Fact : CaptureClaim(f))
             \/ (\E facts \in SUBSET Candidates : Inject(facts))
             \/ (\E tools \in SUBSET Tool : CallTools(tools))
             \/ (\E t \in Tool : ToolReturns(t) \/ CaptureResultFails(t))
             \/ (\E t \in Tool : \E f \in TextOf[t] : CaptureResult(t, f))
      PROVE  DerivationInv'
  <2>1. /\ at \notin {"after", "user"} /\ at' \notin {"after", "user"}
        /\ UNCHANGED <<derived, links, shown>>
    BY <1>6 DEF Heard, ToolsDone, Enter, CaptureClaim, Inject, CallTools, ToolReturns,
                CaptureResultFails, CaptureResult, contextVars
  <2> QED BY <2>1 DEF DerivationInv
<1>7. CASE UNCHANGED vars
  BY <1>7 DEF vars, contextVars, DerivationInv
<1> QED BY <1>1, <1>2, <1>3, <1>4, <1>5, <1>6, <1>7, NextActs DEF Acts

\* An answer is derived from what the call that gave it was shown, from nothing
\* else and, once after_model is through, from all of it.
THEOREM AnswersDerive == Spec => []ProvenanceExact
<1>1. Init => DerivationInv
  BY DEF Init, DerivationInv
<1>2. TypeOK /\ ContextInv /\ DerivationInv /\ [Next]_vars => DerivationInv'
  BY DerivationStep
<1>3. DerivationInv => ProvenanceExact
  BY DEF DerivationInv, ProvenanceExact
<1> QED BY <1>1, <1>2, <1>3, TypeCorrect, ContextInvariant, PTL DEF Spec

-----------------------------------------------------------------------------
(* Feedback.                                                               *)

\* No recalled fact is stored, or about to be: neither in what the user said
\* nor in the results that are being captured.
NoFeedback ==
  /\ stored \cap Recalled = {} /\ todo \cap Recalled = {}
  /\ FactsIn(msgs, "human") \cap Recalled = {}
  /\ \A t \in Tool : capturing[t] \cap Recalled = {}

LEMMA FeedbackStep ==
  ASSUME TypeOK, NoFeedback, [Next]_vars
  PROVE  NoFeedback'
<1> USE DEF NoFeedback
<1>1. CASE Send
  <2> DEFINE m == [type |-> "human", facts |-> ClaimsOf[UserText[sent + 1]]]
             before == IF kept THEN msgs ELSE <<>>
  <2>1. sent + 1 \in 1..Len(UserText)
    BY <1>1, MiddlewareAssumption DEF Send, TypeOK
  <2>2. m \in Message /\ m.type = "human" /\ m.facts \cap Recalled = {}
    BY <2>1, FactTypes DEF Message
  <2>3. before \in Seq(Message) /\ FactsIn(before, "human") \cap Recalled = {}
    BY EmptySeq DEF TypeOK, FactsIn
  <2>4. /\ FactsIn(msgs', "human") \cap Recalled = {} /\ todo' = FactsIn(msgs', "human")
        /\ stored' = stored /\ capturing' = capturing
    <3>1. /\ msgs' = Append(before, m) /\ todo' = FactsIn(msgs', "human")
          /\ stored' = stored /\ capturing' = capturing
      BY <1>1 DEF Send, Enter, ToCapture, toolVars
    <3> HIDE DEF m, before
    <3> QED BY <2>2, <2>3, <3>1, AppendMessage
  <2> QED BY <2>4
<1>2. CASE ToolsDone
  <2>1. /\ msgs' = msgs \o ResultsOf(called) /\ todo' = FactsIn(msgs', "human")
        /\ stored' = stored /\ capturing' = capturing
    BY <1>2 DEF ToolsDone, Enter, ToCapture, ResultsOf
  <2>2. FactsIn(msgs', "human") = FactsIn(msgs, "human")
    BY <2>1, AppendResults DEF TypeOK
  <2> QED BY <2>1, <2>2
<1>3. CASE Heard \/ Raise \/ EndTurn
  BY <1>3 DEF Heard, Raise, EndTurn, toolVars
<1>4. ASSUME NEW f \in Fact, CaptureClaim(f) PROVE NoFeedback'
  BY <1>4 DEF CaptureClaim, toolVars
<1>5. ASSUME NEW facts \in SUBSET Candidates, Inject(facts) PROVE NoFeedback'
  BY <1>5 DEF Inject, toolVars
<1>6. ASSUME NEW tools \in SUBSET Tool, CallTools(tools) PROVE NoFeedback'
  <2>1. [type |-> "call", facts |-> {}] \in Message
    BY DEF Message
  <2>2. FactsIn(msgs', "human") = FactsIn(msgs, "human")
    BY <1>6, <2>1, AppendMessage DEF CallTools, TypeOK
  <2> QED BY <1>6, <2>2 DEF CallTools
<1>7. ASSUME NEW facts \in SUBSET Conclusion, Answer(facts) PROVE NoFeedback'
  <2>1. [type |-> "answer", facts |-> facts] \in Message
    BY FactTypes DEF Message
  <2>2. FactsIn(msgs', "human") = FactsIn(msgs, "human")
    BY <1>7, <2>1, AppendMessage DEF Answer, TypeOK
  <2>3. /\ todo' \subseteq Conclusion /\ stored' = stored /\ capturing' = capturing
    BY <1>7 DEF Answer, toolVars
  <2> QED BY <2>2, <2>3, FactTypes
<1>8. ASSUME NEW f \in Conclusion, RecordClaim(f) PROVE NoFeedback'
  BY <1>8 DEF RecordClaim, toolVars
<1>9. ASSUME NEW e \in links, RecordLink(e) PROVE NoFeedback'
  BY <1>9 DEF RecordLink, toolVars
<1>10. ASSUME NEW t \in Tool, ToolReturns(t) PROVE NoFeedback'
  <2>1. capturing' = [capturing EXCEPT ![t] = IF t \in MemoryTool THEN {} ELSE TextOf[t]]
    BY <1>10 DEF ToolReturns, IsMemoryTool
  <2>2. \A u \in Tool : capturing'[u] \cap Recalled = {}
    BY <2>1, FactTypes DEF TypeOK
  <2> QED BY <1>10, <2>2 DEF ToolReturns
<1>11. ASSUME NEW t \in Tool, CaptureResultFails(t) PROVE NoFeedback'
  BY <1>11 DEF CaptureResultFails, TypeOK
<1>12. ASSUME NEW t \in Tool, NEW f \in TextOf[t], CaptureResult(t, f) PROVE NoFeedback'
  BY <1>12 DEF CaptureResult, TypeOK
<1>13. CASE UNCHANGED vars
  BY <1>13 DEF vars, toolVars
<1> HIDE DEF NoFeedback
<1> QED
  BY <1>1, <1>2, <1>3, <1>4, <1>5, <1>6, <1>7, <1>8, <1>9, <1>10, <1>11, <1>12, <1>13, NextActs DEF Acts

\* What memory told the model is never written back to memory as news.
THEOREM NothingFedBack == Spec => []MemoryNotFedBack
<1>1. Init => NoFeedback
  BY DEF Init, NoFeedback, FactsIn
<1>2. TypeOK /\ NoFeedback /\ [Next]_vars => NoFeedback'
  BY FeedbackStep
<1>3. NoFeedback => MemoryNotFedBack
  BY DEF NoFeedback, MemoryNotFedBack
<1> QED BY <1>1, <1>2, <1>3, TypeCorrect, PTL DEF Spec
=============================================================================
