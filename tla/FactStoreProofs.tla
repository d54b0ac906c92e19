-------------------------- MODULE FactStoreProofs ---------------------------
(***************************************************************************)
(* Proofs about FactStore and Retrieval, for every set of facts, callers   *)
(* and namespaces.                                                         *)
(***************************************************************************)
EXTENDS Retrieval, Recursion, FiniteSetTheorems, SequenceTheorems, TLAPS

\* A namespace ends its own chain, and its parent is on it.
LEMMA OwnChain == \A n \in Namespace : n \in Chain(n)
<1> SUFFICES ASSUME NEW n \in Namespace PROVE n \in Chain(n)
  OBVIOUS
<1>1. n = SubSeq(n, 1, Len(n)) /\ Len(n) \in 1..Len(n)
  BY DEF Namespace
<1> QED BY <1>1 DEF Chain

LEMMA ParentOnChain == \A n \in Namespace : ~IsRoot(n) => ParentOf(n) \in Chain(n)
<1> SUFFICES ASSUME NEW n \in Namespace, ~IsRoot(n) PROVE ParentOf(n) \in Chain(n)
  OBVIOUS
<1>1. n \in Seq(Segment) /\ n # <<>>
  BY DEF Namespace
<1>2. Len(n) \in Nat \ {0}
  BY <1>1, EmptySeq
<1>3. Len(n) # 1
  BY DEF IsRoot
<1>4. Len(n) - 1 \in 1..Len(n)
  BY <1>2, <1>3
<1> QED BY <1>4 DEF Chain, ParentOf

\* Two members of one chain are never siblings.
LEMMA ChainComparable ==
  ASSUME NEW n \in Namespace, NEW a \in Chain(n), NEW b \in Chain(n)
  PROVE  Comparable(a, b)
<1>1. PICK i \in 1..Len(n), j \in 1..Len(n) : a = SubSeq(n, 1, i) /\ b = SubSeq(n, 1, j)
  BY DEF Chain
<1>2. Len(a) = i /\ Len(b) = j
  BY <1>1 DEF Namespace
<1>3. CASE i <= j
  <2>1. a = SubSeq(b, 1, i)
    BY <1>1, <1>2, <1>3 DEF Namespace
  <2> QED BY <2>1, <1>2, <1>3 DEF Chain, Comparable
<1>4. CASE j < i
  <2>1. b = SubSeq(a, 1, j)
    BY <1>1, <1>2, <1>4 DEF Namespace
  <2> QED BY <2>1, <1>2, <1>4 DEF Chain, Comparable
<1> QED BY <1>3, <1>4

-----------------------------------------------------------------------------
(* Types.                                                                  *)

\* A reference in force: the cited fact is stored, and a fact that is to
\* supersede it is an agent's own and goes to a namespace on the same branch.
Cited(f, t, r) ==
  /\ created[t] > 0
  /\ r = "supersedes" =>
       Comparable(NsOf(f), NsOf(t)) /\ SourceOf(f) \in {"remember_tool", "conclude_task"}

\* The actions of one caller, as the disjuncts the proofs split Next into.
LEMMA NextCases ==
  ASSUME NEW c \in Caller, BeginCall(c) \/ Statement(c) \/ CallFails(c)
  PROVE  \/ \E f \in Fact : WriteOnly(c, f)
         \/ \E f, t \in Fact, r \in {"supersedes", "derived_from"} :
               Begin(c, f, t, r) /\ Cited(f, t, r)
         \/ WriteFact(c) \/ RefuseEdge(c) \/ InsertEdge(c) \/ RetireTarget(c)
         \/ SelectRestatements(c) \/ RetireRestatement(c) \/ ExplainRestatement(c)
         \/ EndCascade(c) \/ CallFails(c)
<1>1. HomeOf[c] \in Namespace /\ HomeOf[c] \in Row
  BY CallerAssumption DEF Row
<1>2. ASSUME NEW t \in Resolvable(c)
      PROVE  t \in Fact /\ created[t] > 0 /\ NsOf(t) \in Chain(HomeOf[c])
  BY <1>1 DEF Resolvable, Citable, Stored, ChainOf
<1>3. CASE RememberFact(c)
  <2>1. ASSUME NEW f \in Fact, SourceOf(f) = "remember_tool", NsOf(f) = HomeOf[c],
               NEW t \in Resolvable(c)
        PROVE  Cited(f, t, "supersedes")
    BY <1>1, <1>2, <2>1, OwnChain, ChainComparable DEF Cited
  <2> QED BY <1>2, <1>3, <2>1 DEF RememberFact
<1>4. CASE ConcludeTask(c)
  <2>1. ASSUME NEW f \in Fact, SourceOf(f) = "conclude_task",
               ~IsRoot(HomeOf[c]), NsOf(f) = ParentOf(HomeOf[c]), NEW t \in Resolvable(c)
        PROVE  Cited(f, t, "supersedes")
    BY <1>1, <1>2, <2>1, ParentOnChain, ChainComparable DEF Cited
  <2> QED BY <1>2, <1>4, <2>1 DEF ConcludeTask
<1>5. CASE CaptureUserMessage(c)
  BY <1>5 DEF CaptureUserMessage
<1>6. CASE CaptureAnswer(c)
  BY <1>6 DEF CaptureAnswer, Stored, Cited
<1>7. CASE Statement(c)
  BY <1>7 DEF Statement
<1> QED BY <1>3, <1>4, <1>5, <1>6, <1>7 DEF BeginCall

\* A call in progress has both of its facts, and a retired row is a fact.
ArgsKnown ==
  \A c \in Caller :
    /\ step[c] # "idle" => call[c].from \in Fact /\ call[c].to \in Fact
    /\ step[c] = "explain" => current[c] \in Fact

Typed == TypeOK /\ ArgsKnown

LEMMA TypeInit == Init => Typed
  BY DEF Init, Typed, TypeOK, ArgsKnown, Step, Call, NoCall, Relation

\* Insert gives a new row the next time stamp and leaves any other row alone.
LEMMA InsertTypes ==
  ASSUME TypeOK, NEW f \in Fact, Insert(f)
  PROVE  clock' \in Nat /\ created' \in [Fact -> Nat]
  BY DEF TypeOK, Insert

LEMMA TypeStep == Typed /\ [Next]_vars => Typed'
<1> SUFFICES ASSUME Typed, [Next]_vars PROVE Typed'
  OBVIOUS
<1> USE DEF Typed, ArgsKnown, TypeOK, Step
<1>1. CASE UNCHANGED vars
  BY <1>1 DEF vars
<1>2. ASSUME NEW c \in Caller, BeginCall(c) \/ Statement(c) \/ CallFails(c)
      PROVE  Typed'
  <2>1. ASSUME NEW f \in Fact, WriteOnly(c, f) PROVE Typed'
    BY <2>1, InsertTypes DEF WriteOnly
  <2>2. ASSUME NEW f \in Fact, NEW t \in Fact, NEW r \in {"supersedes", "derived_from"},
               Begin(c, f, t, r)
        PROVE  Typed'
    BY <2>2 DEF Begin, Call, Relation
  <2>3. CASE WriteFact(c)
    BY <2>3, InsertTypes DEF WriteFact, Goto
  <2>4. CASE RefuseEdge(c)
    BY <2>4 DEF RefuseEdge, Return, NoCall, Call, Relation
  <2>5. CASE InsertEdge(c)
    <3>1. call[c].from \in Fact /\ call[c].to \in Fact /\ call[c].rel \in Relation
      BY <2>5 DEF InsertEdge, Call
    <3>2. edges' \subseteq Fact \X Fact \X Relation
      BY <2>5, <3>1 DEF InsertEdge
    <3>3. CASE Goto(c, "retire")
      BY <2>5, <3>2, <3>3 DEF InsertEdge, Goto
    <3>4. CASE Return(c)
      BY <2>5, <3>2, <3>4 DEF InsertEdge, Return, NoCall, Call, Relation
    <3> QED BY <2>5, <3>3, <3>4 DEF InsertEdge
  <2>6. CASE RetireTarget(c)
    BY <2>6 DEF RetireTarget, Goto
  <2>7. CASE SelectRestatements(c)
    BY <2>7 DEF SelectRestatements, Restatements, Goto
  <2>8. CASE RetireRestatement(c)
    BY <2>8 DEF RetireRestatement, Goto
  <2>9. CASE ExplainRestatement(c)
    <3>1. edges' \subseteq Fact \X Fact \X Relation
      BY <2>9 DEF ExplainRestatement, Relation
    <3> QED BY <2>9, <3>1 DEF ExplainRestatement, Goto
  <2>10. CASE EndCascade(c)
    <3>1. settled' \subseteq Fact \X Fact
      BY <2>10 DEF EndCascade
    <3> QED BY <2>10, <3>1 DEF EndCascade, Return, NoCall, Call, Relation
  <2>11. CASE CallFails(c)
    <3>1. torn' \subseteq Fact
      BY <2>11 DEF CallFails, BetweenTwoStatements
    <3> QED BY <2>11, <3>1 DEF CallFails, Return, NoCall, Call, Relation
  <2> QED BY <1>2, <2>1, <2>2, <2>3, <2>4, <2>5, <2>6, <2>7, <2>8, <2>9, <2>10, <2>11, NextCases
<1> QED BY <1>1, <1>2 DEF Next

\* Every variable keeps its type, and a call in progress its two facts.
THEOREM TypeCorrect == Spec => []TypeOK
<1>1. Spec => []Typed
  BY TypeInit, TypeStep, PTL DEF Spec
<1> QED BY <1>1, PTL DEF Typed

-----------------------------------------------------------------------------
(* Branches: what a call retires is on the branch of the fact it writes.   *)

Retiring(c) == step[c] \in {"retire", "cascade", "sweep", "explain"}

CallsOnBranch ==
  \A c \in Caller :
    /\ step[c] # "idle" /\ call[c].rel = "supersedes" =>
         Comparable(NsOf(call[c].from), NsOf(call[c].to))
    /\ Retiring(c) => call[c].rel = "supersedes"
    /\ todo[c] # {} => step[c] \in {"sweep", "explain"}
    /\ \A f \in todo[c] : NsOf(f) = NsOf(call[c].to)
    /\ step[c] = "explain" => NsOf(current[c]) = NsOf(call[c].to)

OnBranch == CallsOnBranch /\ SupersedesComparable

LEMMA BranchStep == Typed /\ OnBranch /\ [Next]_vars => OnBranch'
<1> SUFFICES ASSUME Typed, OnBranch, [Next]_vars PROVE OnBranch'
  OBVIOUS
<1> USE DEF OnBranch, CallsOnBranch, SupersedesComparable, Retiring, Typed, ArgsKnown, TypeOK
<1>1. CASE UNCHANGED vars
  BY <1>1 DEF vars
<1>2. ASSUME NEW c \in Caller, BeginCall(c) \/ Statement(c) \/ CallFails(c)
      PROVE  OnBranch'
  <2>1. ASSUME NEW f \in Fact, WriteOnly(c, f) PROVE OnBranch'
    BY <2>1 DEF WriteOnly
  <2>2. ASSUME NEW f \in Fact, NEW t \in Fact, NEW r \in {"supersedes", "derived_from"},
               Begin(c, f, t, r), Cited(f, t, r)
        PROVE  OnBranch'
    BY <2>2 DEF Begin, Cited
  <2>3. CASE WriteFact(c)
    BY <2>3 DEF WriteFact, Goto
  <2>4. CASE RefuseEdge(c)
    BY <2>4 DEF RefuseEdge, Return
  <2>5. CASE InsertEdge(c)
    <3>1. SupersedesComparable'
      BY <2>5 DEF InsertEdge
    <3>2. CASE call[c].rel = "supersedes" /\ Goto(c, "retire")
      BY <2>5, <3>1, <3>2 DEF InsertEdge, Goto
    <3>3. CASE Return(c)
      BY <2>5, <3>1, <3>3 DEF InsertEdge, Return
    <3> QED BY <2>5, <3>2, <3>3 DEF InsertEdge
  <2>6. CASE RetireTarget(c)
    BY <2>6 DEF RetireTarget, Goto
  <2>7. CASE SelectRestatements(c)
    BY <2>7 DEF SelectRestatements, Restatements, MayCascade, Goto
  <2>8. CASE RetireRestatement(c)
    BY <2>8 DEF RetireRestatement, Goto
  <2>9. CASE ExplainRestatement(c)
    BY <2>9 DEF ExplainRestatement, Goto
  <2>10. CASE EndCascade(c)
    BY <2>10 DEF EndCascade, Return
  <2>11. CASE CallFails(c)
    BY <2>11 DEF CallFails, Return
  <2> QED BY <1>2, <2>1, <2>2, <2>3, <2>4, <2>5, <2>6, <2>7, <2>8, <2>9, <2>10, <2>11, NextCases
<1> QED BY <1>1, <1>2 DEF Next

\* Parallel forks never retire each other's facts: add_edge and the cascade
\* link facts of one branch of the namespace tree only.
THEOREM ForksStayApart == Spec => []SupersedesComparable
<1>1. Init => OnBranch
  BY DEF Init, OnBranch, CallsOnBranch, SupersedesComparable, Retiring
<1>2. Spec => [](Typed /\ OnBranch)
  BY <1>1, TypeInit, TypeStep, BranchStep, PTL DEF Spec
<1> QED BY <1>2, PTL DEF OnBranch

-----------------------------------------------------------------------------
(* The two records of a retirement.                                        *)

\* A call that retires has recorded its edge first, then the status of its
\* target, and of each restatement the status first.
CallsRecord ==
  \A c \in Caller :
    /\ Retiring(c) =>
         RetireSuperseded /\ <<call[c].from, call[c].to, "supersedes">> \in edges
    /\ step[c] \in {"cascade", "sweep", "explain"} => status[call[c].to] = "superseded"
    /\ step[c] = "explain" => status[current[c]] = "superseded"

\* The steps of one caller, as a frame: what its statements leave alone.
LEMMA StatusOnlyFalls ==
  ASSUME Typed, NEW c \in Caller, BeginCall(c) \/ Statement(c) \/ CallFails(c)
  PROVE  /\ \A f \in Fact : status[f] = "superseded" => status'[f] = "superseded"
         /\ edges \subseteq edges'
<1> USE DEF Typed, TypeOK
<1> QED BY NextCases DEF WriteOnly, Begin, WriteFact, RefuseEdge, InsertEdge, RetireTarget,
      SelectRestatements, RetireRestatement, ExplainRestatement, EndCascade, CallFails

LEMMA CallsRecordStep == Typed /\ OnBranch /\ CallsRecord /\ [Next]_vars => CallsRecord'
<1> SUFFICES ASSUME Typed, OnBranch, CallsRecord, [Next]_vars PROVE CallsRecord'
  OBVIOUS
<1> USE DEF CallsRecord, OnBranch, CallsOnBranch, Retiring, Typed, ArgsKnown, TypeOK
<1>1. CASE UNCHANGED vars
  BY <1>1 DEF vars
<1>2. ASSUME NEW c \in Caller, BeginCall(c) \/ Statement(c) \/ CallFails(c)
      PROVE  CallsRecord'
  <2>1. ASSUME NEW f \in Fact, WriteOnly(c, f) PROVE CallsRecord'
    BY <2>1 DEF WriteOnly
  <2>2. ASSUME NEW f \in Fact, NEW t \in Fact, NEW r \in {"supersedes", "derived_from"},
               Begin(c, f, t, r)
        PROVE  CallsRecord'
    BY <2>2 DEF Begin
  <2>3. CASE WriteFact(c)
    BY <2>3 DEF WriteFact, Goto
  <2>4. CASE RefuseEdge(c)
    BY <2>4 DEF RefuseEdge, Return
  <2>5. CASE InsertEdge(c)
    <3>1. CASE call[c].rel = "supersedes" /\ RetireSuperseded /\ Goto(c, "retire")
      BY <2>5, <3>1 DEF InsertEdge, Goto
    <3>2. CASE Return(c)
      BY <2>5, <3>2 DEF InsertEdge, Return
    <3> QED BY <2>5, <3>1, <3>2 DEF InsertEdge
  <2>6. CASE RetireTarget(c)
    BY <2>6 DEF RetireTarget, Goto
  <2>7. CASE SelectRestatements(c)
    BY <2>7 DEF SelectRestatements, Goto
  <2>8. CASE RetireRestatement(c)
    BY <2>8 DEF RetireRestatement, Goto
  <2>9. CASE ExplainRestatement(c)
    BY <2>9 DEF ExplainRestatement, Goto
  <2>10. CASE EndCascade(c)
    BY <2>10 DEF EndCascade, Return
  <2>11. CASE CallFails(c)
    BY <2>11 DEF CallFails, Return
  <2> QED BY <1>2, <2>1, <2>2, <2>3, <2>4, <2>5, <2>6, <2>7, <2>8, <2>9, <2>10, <2>11, NextCases
<1> QED BY <1>1, <1>2 DEF Next

\* What StatusMatchesEdges says of one fact.
Matches(f) == MidRetirement(f) \/ (status[f] = "superseded" <=> Superseders(f) # {})

LEMMA MatchesStep ==
  Typed /\ OnBranch /\ CallsRecord /\ StatusMatchesEdges /\ [Next]_vars => StatusMatchesEdges'
<1> SUFFICES ASSUME Typed, OnBranch, CallsRecord, [Next]_vars, RetireSuperseded,
                    NEW f \in Fact, f \notin torn', f \notin torn => Matches(f)
             PROVE  Matches(f)'
  BY DEF StatusMatchesEdges, Matches
<1> USE DEF Matches, MidRetirement, Superseders, CallsRecord, OnBranch, CallsOnBranch, Retiring,
            Typed, ArgsKnown, TypeOK
<1>1. CASE UNCHANGED vars
  BY <1>1 DEF vars
<1>2. ASSUME NEW c \in Caller, BeginCall(c) \/ Statement(c) \/ CallFails(c)
      PROVE  Matches(f)'
  <2>1. ASSUME NEW g \in Fact, WriteOnly(c, g) PROVE Matches(f)'
    BY <2>1 DEF WriteOnly
  <2>2. ASSUME NEW g \in Fact, NEW t \in Fact, NEW r \in {"supersedes", "derived_from"},
               Begin(c, g, t, r)
        PROVE  Matches(f)'
    BY <2>2 DEF Begin
  <2>3. CASE WriteFact(c)
    BY <2>3 DEF WriteFact, Goto
  <2>4. CASE RefuseEdge(c)
    BY <2>4 DEF RefuseEdge, Return
  <2>5. CASE InsertEdge(c)
    <3>1. CASE call[c].rel = "supersedes" /\ call[c].to = f
      BY <2>5, <3>1 DEF InsertEdge, Goto
    <3>2. CASE ~(call[c].rel = "supersedes" /\ call[c].to = f)
      <4>1. Superseders(f)' = Superseders(f) /\ status' = status
        BY <2>5, <3>2 DEF InsertEdge
      <4>2. MidRetirement(f) => MidRetirement(f)'
        BY <2>5 DEF InsertEdge, Goto, Return
      <4> QED BY <2>5, <4>1, <4>2 DEF InsertEdge
    <3> QED BY <3>1, <3>2
  <2>6. CASE RetireTarget(c)
    BY <2>6 DEF RetireTarget, Goto
  <2>7. CASE SelectRestatements(c)
    BY <2>7 DEF SelectRestatements, Goto
  <2>8. CASE RetireRestatement(c)
    <3>1. PICK g \in todo[c] :
            /\ status' = [status EXCEPT ![g] = "superseded"]
            /\ current' = [current EXCEPT ![c] = g]
      BY <2>8 DEF RetireRestatement
    <3>2. CASE g = f
      BY <2>8, <3>1, <3>2 DEF RetireRestatement, Goto
    <3>3. CASE g # f
      <4>1. Superseders(f)' = Superseders(f) /\ status'[f] = status[f]
        BY <2>8, <3>1, <3>3 DEF RetireRestatement
      <4>2. MidRetirement(f) => MidRetirement(f)'
        BY <2>8, <3>1 DEF RetireRestatement, Goto
      <4> QED BY <2>8, <4>1, <4>2 DEF RetireRestatement
    <3> QED BY <3>2, <3>3
  <2>9. CASE ExplainRestatement(c)
    BY <2>9 DEF ExplainRestatement, Goto
  <2>10. CASE EndCascade(c)
    BY <2>10 DEF EndCascade, Return
  <2>11. CASE CallFails(c)
    <3>1. ~(step[c] = "retire" /\ call[c].to = f) /\ ~(step[c] = "explain" /\ current[c] = f)
      BY <2>11 DEF CallFails, BetweenTwoStatements
    <3>2. Superseders(f)' = Superseders(f) /\ status' = status
      BY <2>11 DEF CallFails
    <3>3. MidRetirement(f) => MidRetirement(f)'
      BY <2>11, <3>1 DEF CallFails, Return
    <3> QED BY <2>11, <3>2, <3>3 DEF CallFails
  <2> HIDE DEF Matches, MidRetirement, Superseders
  <2> QED BY <1>2, <2>1, <2>2, <2>3, <2>4, <2>5, <2>6, <2>7, <2>8, <2>9, <2>10, <2>11, NextCases
<1> QED BY <1>1, <1>2 DEF Next

Recorded == OnBranch /\ CallsRecord /\ StatusMatchesEdges

LEMMA RecordedAlways == Spec => [](Typed /\ Recorded)
<1>1. Init => OnBranch
  BY DEF Init, OnBranch, CallsOnBranch, SupersedesComparable, Retiring
<1>2. Init => CallsRecord
  BY DEF Init, CallsRecord, Retiring
<1>3. Init => StatusMatchesEdges
  BY DEF Init, StatusMatchesEdges, Superseders
<1> QED
  BY <1>1, <1>2, <1>3, TypeInit, TypeStep, BranchStep, CallsRecordStep, MatchesStep, PTL
  DEF Spec, Recorded

\* Outside torn calls and the pairs of statements that write them, the status
\* column and the supersedes edges tell the same story: whatever is asserted
\* again, fails or runs concurrently.
THEOREM RecordsAgree == Spec => []StatusMatchesEdges
  BY RecordedAlways, PTL DEF Recorded

-----------------------------------------------------------------------------
(* Time: a correction is newer than all that its cascade retires.          *)

ClockAhead == \A f \in Fact : created[f] <= clock

CallsTimed ==
  \A c \in Caller :
    /\ step[c] \notin {"idle", "write"} => created[call[c].from] > 0
    /\ \A f \in todo[c] : 0 < created[f] /\ created[f] < created[call[c].from]
    /\ step[c] = "explain" =>
         0 < created[current[c]] /\ created[current[c]] < created[call[c].from]

SettledStored == \A pair \in settled : created[pair[1]] > 0

Timed == ClockAhead /\ CallsTimed /\ SettledStored

\* A row keeps its created_at; a new row is newer than every other.
LEMMA Aging ==
  ASSUME Typed, ClockAhead, [Next]_vars
  PROVE  /\ ClockAhead'
         /\ \A f \in Fact : created[f] > 0 => created'[f] = created[f]
         /\ \A f \in Fact : created[f] = 0 => created'[f] = 0 \/ created'[f] > clock
<1> USE DEF Typed, TypeOK, ArgsKnown, ClockAhead
<1>1. CASE UNCHANGED <<clock, created>>
  BY <1>1
<1>2. ASSUME NEW f \in Fact, Insert(f)
      PROVE  /\ ClockAhead'
             /\ \A g \in Fact : created[g] > 0 => created'[g] = created[g]
             /\ \A g \in Fact : created[g] = 0 => created'[g] = 0 \/ created'[g] > clock
  BY <1>2 DEF Insert
<1>3. UNCHANGED <<clock, created>> \/ \E f \in Fact : Insert(f)
  <2>1. CASE UNCHANGED vars
    BY <2>1 DEF vars
  <2>2. ASSUME NEW c \in Caller, BeginCall(c) \/ Statement(c) \/ CallFails(c)
        PROVE  UNCHANGED <<clock, created>> \/ \E f \in Fact : Insert(f)
    BY <2>2, NextCases DEF WriteOnly, Begin, WriteFact, RefuseEdge, InsertEdge, RetireTarget,
      SelectRestatements, RetireRestatement, ExplainRestatement, EndCascade, CallFails
  <2> QED BY <2>1, <2>2 DEF Next
<1> QED BY <1>1, <1>2, <1>3

LEMMA TimedStep == Typed /\ OnBranch /\ Timed /\ [Next]_vars => Timed'
<1> SUFFICES ASSUME Typed, OnBranch, Timed, [Next]_vars PROVE (CallsTimed /\ SettledStored)'
  BY Aging DEF Timed
<1> USE DEF Timed, CallsTimed, SettledStored, OnBranch, CallsOnBranch, Retiring, Typed,
            ArgsKnown, TypeOK
<1>1. CASE UNCHANGED vars
  BY <1>1 DEF vars
<1>2. ASSUME NEW c \in Caller, BeginCall(c) \/ Statement(c) \/ CallFails(c)
      PROVE  (CallsTimed /\ SettledStored)'
  <2>1. ASSUME NEW f \in Fact, WriteOnly(c, f) PROVE (CallsTimed /\ SettledStored)'
    BY <2>1, Aging DEF WriteOnly
  <2>2. ASSUME NEW f \in Fact, NEW t \in Fact, NEW r \in {"supersedes", "derived_from"},
               Begin(c, f, t, r), Cited(f, t, r)
        PROVE  (CallsTimed /\ SettledStored)'
    BY <2>2, Aging DEF Begin, Cited
  <2>3. CASE WriteFact(c)
    <3>1. created'[call[c].from] > 0
      BY <2>3 DEF WriteFact, Insert
    <3>2. \A f \in Fact : created[f] > 0 => created'[f] = created[f]
      BY Aging
    <3> QED BY <2>3, <3>1, <3>2 DEF WriteFact, Goto
  <2>4. CASE RefuseEdge(c)
    BY <2>4, Aging DEF RefuseEdge, Return
  <2>5. CASE InsertEdge(c)
    BY <2>5, Aging DEF InsertEdge, Goto, Return
  <2>6. CASE RetireTarget(c)
    BY <2>6, Aging DEF RetireTarget, Goto
  <2>7. CASE SelectRestatements(c)
    BY <2>7, Aging DEF SelectRestatements, Restatements, MayCascade, Goto
  <2>8. CASE RetireRestatement(c)
    BY <2>8, Aging DEF RetireRestatement, Goto
  <2>9. CASE ExplainRestatement(c)
    BY <2>9, Aging DEF ExplainRestatement, Goto
  <2>10. CASE EndCascade(c)
    BY <2>10, Aging DEF EndCascade, Return
  <2>11. CASE CallFails(c)
    BY <2>11, Aging DEF CallFails, Return
  <2> QED BY <1>2, <2>1, <2>2, <2>3, <2>4, <2>5, <2>6, <2>7, <2>8, <2>9, <2>10, <2>11, NextCases
<1> QED BY <1>1, <1>2 DEF Next

-----------------------------------------------------------------------------
(* Completeness of the cascade.                                            *)

\* Once a correction is stored, nothing becomes one of its restatements.
LEMMA StaleStable ==
  ASSUME Typed, ClockAhead, [Next]_vars, NEW f \in Fact, NEW from \in Fact, NEW to \in Fact,
         created[from] > 0, StaleFor(f, from, to)'
  PROVE  StaleFor(f, from, to)
<1>1. created'[from] = created[from] /\ created[from] <= clock
  BY Aging DEF ClockAhead
<1>2. created'[f] > 0 /\ created'[f] < created[from]
  BY <1>1 DEF StaleFor, MayCascade
<1>3. created[f] \in Nat /\ created'[f] \in Nat /\ created[from] \in Nat /\ clock \in Nat
  BY TypeStep DEF Typed, TypeOK
<1>4. created'[f] <= clock
  BY <1>1, <1>2, <1>3
<1>5. created[f] > 0
  BY <1>2, <1>3, <1>4, Aging
<1>6. created[f] = created'[f]
  BY <1>5, Aging
<1> QED BY <1>1, <1>2, <1>6 DEF StaleFor, MayCascade

LEMMA Retired ==
  ASSUME Typed, [Next]_vars, NEW f \in Fact, status[f] = "superseded"
  PROVE  status'[f] = "superseded"
<1>1. CASE UNCHANGED vars
  BY <1>1 DEF vars
<1>2. CASE Next
  BY <1>2, StatusOnlyFalls DEF Next
<1> QED BY <1>1, <1>2

\* A restatement the running cascade has not retired yet is on its list.
Listed(c) ==
  step[c] \in {"sweep", "explain"} =>
    \A f \in Fact :
      StaleFor(f, call[c].from, call[c].to) => status[f] = "superseded" \/ f \in todo[c]

\* Its list and its place in the loop change only by the caller's own steps.
LEMMA ListedFrame ==
  ASSUME Typed, Timed, [Next]_vars, NEW c \in Caller, Listed(c),
         step'[c] \in {"sweep", "explain"} => step[c] \in {"sweep", "explain"},
         call'[c] = call[c],
         \A f \in todo[c] : f \in todo'[c] \/ status'[f] = "superseded"
  PROVE  Listed(c)'
<1> SUFFICES ASSUME step'[c] \in {"sweep", "explain"}, NEW f \in Fact,
                    StaleFor(f, call[c].from, call[c].to)'
             PROVE  status'[f] = "superseded" \/ f \in todo'[c]
  BY DEF Listed
<1>1. created[call[c].from] > 0 /\ call[c].from \in Fact /\ call[c].to \in Fact
  BY DEF Timed, CallsTimed, Typed, ArgsKnown
<1>2. StaleFor(f, call[c].from, call[c].to)
  BY <1>1, StaleStable DEF Timed
<1>3. status[f] = "superseded" \/ f \in todo[c]
  BY <1>2 DEF Listed
<1> QED BY <1>3, Retired

LEMMA ListedStep ==
  ASSUME Typed, Timed, [Next]_vars, \A c \in Caller : Listed(c), NEW d \in Caller
  PROVE  Listed(d)'
<1>1. CASE UNCHANGED vars
  BY <1>1, ListedFrame DEF vars
<1>2. ASSUME NEW c \in Caller, BeginCall(c) \/ Statement(c) \/ CallFails(c)
      PROVE  Listed(d)'
  <2>1. CASE c # d
    <3>1. step'[d] = step[d] /\ call'[d] = call[d] /\ todo'[d] = todo[d]
      BY <1>2, <2>1, NextCases DEF WriteOnly, Begin, WriteFact, RefuseEdge, InsertEdge,
        RetireTarget, SelectRestatements, RetireRestatement, ExplainRestatement, EndCascade,
        CallFails, Goto, Return, Typed, TypeOK
    <3> QED BY <3>1, ListedFrame
  <2>2. CASE c = d /\ step'[d] \notin {"sweep", "explain"}
    BY <2>2 DEF Listed
  <2>3. CASE c = d /\ step'[d] \in {"sweep", "explain"}
    <3>1. \/ \E f \in Fact : WriteOnly(c, f)
          \/ SelectRestatements(c) \/ RetireRestatement(c) \/ ExplainRestatement(c)
      BY <1>2, <2>3, NextCases DEF Begin, WriteFact, RefuseEdge, InsertEdge, RetireTarget,
        EndCascade, CallFails, Goto, Return, Typed, TypeOK
    <3>2. ASSUME NEW f \in Fact, WriteOnly(c, f) PROVE Listed(d)'
      BY <2>3, <3>2 DEF WriteOnly
    <3>3. CASE SelectRestatements(c)
      <4>1. call' = call /\ created' = created /\ status' = status
        BY <3>3 DEF SelectRestatements, Goto
      <4>2. todo'[d] = Restatements(call[d].from, call[d].to)
        BY <2>3, <3>3 DEF SelectRestatements, Typed, TypeOK
      <4>3. ASSUME NEW f \in Fact, StaleFor(f, call[d].from, call[d].to), status[f] # "superseded"
            PROVE  f \in Restatements(call[d].from, call[d].to)
        BY <4>3 DEF StaleFor, Restatements, IsStaleRestatement, Typed, TypeOK
      <4> QED BY <4>1, <4>2, <4>3 DEF Listed, StaleFor, MayCascade
    <3>4. CASE RetireRestatement(c)
      <4>1. call' = call /\ step[d] = "sweep"
        BY <2>3, <3>4 DEF RetireRestatement, Goto
      <4>2. \A f \in todo[d] : f \in todo'[d] \/ status'[f] = "superseded"
        BY <2>3, <3>4 DEF RetireRestatement, Typed, TypeOK
      <4> QED BY <4>1, <4>2, ListedFrame
    <3>5. CASE ExplainRestatement(c)
      BY <2>3, <3>5, ListedFrame DEF ExplainRestatement, Goto
    <3> QED BY <3>1, <3>2, <3>3, <3>4, <3>5
  <2> QED BY <2>1, <2>2, <2>3
<1> QED BY <1>1, <1>2 DEF Next

LEMMA CompleteStep ==
  /\ Typed /\ Recorded /\ Timed /\ CascadeComplete /\ [Next]_vars
  /\ \A c \in Caller : Listed(c)
  => CascadeComplete'
<1> SUFFICES ASSUME Typed, Recorded, Timed, CascadeComplete, [Next]_vars,
                    \A c \in Caller : Listed(c),
                    NEW pair \in settled', NEW f \in Fact,
                    f = pair[2] \/ StaleFor(f, pair[1], pair[2])'
             PROVE  status'[f] = "superseded"
  BY DEF CascadeComplete
<1>1. CASE pair \in settled
  <2>1. pair[1] \in Fact /\ pair[2] \in Fact /\ created[pair[1]] > 0
    BY <1>1 DEF Typed, TypeOK, Timed, SettledStored
  <2>2. f = pair[2] \/ StaleFor(f, pair[1], pair[2])
    BY <2>1, StaleStable DEF Timed
  <2>3. status[f] = "superseded"
    BY <1>1, <2>2 DEF CascadeComplete, Typed, TypeOK
  <2> QED BY <2>3, Retired
<1>2. CASE pair \notin settled
  <2>1. PICK c \in Caller : EndCascade(c)
    <3>1. ~UNCHANGED vars
      BY <1>2 DEF vars
    <3>2. PICK c \in Caller : BeginCall(c) \/ Statement(c) \/ CallFails(c)
      BY <3>1 DEF Next
    <3> QED BY <1>2, <3>2, NextCases DEF WriteOnly, Begin, WriteFact, RefuseEdge, InsertEdge,
      RetireTarget, SelectRestatements, RetireRestatement, ExplainRestatement, CallFails
  <2>2. /\ pair = <<call[c].from, call[c].to>> /\ step[c] = "sweep" /\ todo[c] = {}
        /\ status' = status /\ created' = created
    BY <1>2, <2>1 DEF EndCascade
  <2>3. f = call[c].to \/ StaleFor(f, call[c].from, call[c].to)
    BY <2>2 DEF StaleFor, MayCascade
  <2>4. status[call[c].to] = "superseded"
    BY <2>2 DEF Recorded, CallsRecord
  <2> QED BY <2>2, <2>3, <2>4 DEF Listed
<1> QED BY <1>1, <1>2

\* Once add_edge has returned, its target and every earlier restatement of it
\* stay retired: whatever runs concurrently, is asserted again or fails.
THEOREM CorrectionsHold == Spec => []CascadeComplete
<1>1. Init => Timed
  BY DEF Init, Timed, ClockAhead, CallsTimed, SettledStored
<1>2. Spec => [](Typed /\ Recorded /\ Timed)
  BY <1>1, RecordedAlways, TimedStep, PTL DEF Spec, Recorded
<1> DEFINE AllListed == \A c \in Caller : Listed(c)
<1>3. Init => AllListed /\ CascadeComplete
  BY DEF Init, Listed, CascadeComplete
<1>4. Typed /\ Recorded /\ Timed /\ AllListed /\ CascadeComplete /\ [Next]_vars
        => (AllListed /\ CascadeComplete)'
  BY ListedStep, CompleteStep
<1> HIDE DEF AllListed
<1> QED BY <1>2, <1>3, <1>4, PTL DEF Spec

-----------------------------------------------------------------------------
(* Age, while no stored fact is asserted again.                            *)

\* A fact that is to be written is not stored, and one caller writes it.
FreshWrites ==
  \A c \in Caller :
    step[c] = "write" =>
      /\ created[call[c].from] = 0
      /\ \A d \in Caller : step[d] = "write" /\ call[d].from = call[c].from => d = c

TargetsOlder ==
  \A c \in Caller :
    step[c] # "idle" /\ call[c].rel = "supersedes" =>
      /\ created[call[c].to] > 0
      /\ step[c] # "write" => created[call[c].to] < created[call[c].from]

EdgesOlder ==
  \A f, g \in Fact :
    <<g, f, "supersedes">> \in edges => 0 < created[f] /\ created[f] < created[g]

LEMMA FreshWritesStep ==
  ASSUME ~Reassert, Typed, FreshWrites, [Next]_vars
  PROVE  FreshWrites'
<1> USE DEF FreshWrites, Typed, ArgsKnown, TypeOK
<1>1. CASE UNCHANGED vars
  BY <1>1 DEF vars
<1>2. ASSUME NEW c \in Caller, BeginCall(c) \/ Statement(c) \/ CallFails(c)
      PROVE  FreshWrites'
  <2>1. ASSUME NEW f \in Fact, WriteOnly(c, f) PROVE FreshWrites'
    BY <2>1 DEF WriteOnly, MayWrite, Insert
  <2>2. ASSUME NEW f \in Fact, NEW t \in Fact, NEW r \in {"supersedes", "derived_from"},
               Begin(c, f, t, r)
        PROVE  FreshWrites'
    BY <2>2 DEF Begin, MayWrite
  <2>3. CASE WriteFact(c)
    BY <2>3 DEF WriteFact, Goto, Insert
  <2>4. CASE RefuseEdge(c)
    BY <2>4 DEF RefuseEdge, Return
  <2>5. CASE InsertEdge(c)
    BY <2>5 DEF InsertEdge, Goto, Return
  <2>6. CASE RetireTarget(c)
    BY <2>6 DEF RetireTarget, Goto
  <2>7. CASE SelectRestatements(c)
    BY <2>7 DEF SelectRestatements, Goto
  <2>8. CASE RetireRestatement(c)
    BY <2>8 DEF RetireRestatement, Goto
  <2>9. CASE ExplainRestatement(c)
    BY <2>9 DEF ExplainRestatement, Goto
  <2>10. CASE EndCascade(c)
    BY <2>10 DEF EndCascade, Return
  <2>11. CASE CallFails(c)
    BY <2>11 DEF CallFails, Return
  <2> QED BY <1>2, <2>1, <2>2, <2>3, <2>4, <2>5, <2>6, <2>7, <2>8, <2>9, <2>10, <2>11, NextCases
<1> QED BY <1>1, <1>2 DEF Next

Aged == FreshWrites /\ TargetsOlder /\ EdgesOlder

LEMMA AgedStep ==
  ASSUME ~Reassert, Typed, OnBranch, Timed, Aged, [Next]_vars
  PROVE  Aged'
<1>1. FreshWrites'
  BY FreshWritesStep DEF Aged
<1>2. \A f \in Fact : created[f] > 0 => created'[f] = created[f]
  BY Aging DEF Timed
<1> USE DEF TargetsOlder, EdgesOlder, Typed, ArgsKnown, TypeOK
<1>3. CASE UNCHANGED vars
  BY <1>1, <1>3 DEF vars, Aged
<1>4. ASSUME NEW c \in Caller, BeginCall(c) \/ Statement(c) \/ CallFails(c)
      PROVE  Aged'
  <2>1. \A f, g \in Fact :
          <<g, f, "supersedes">> \in edges' =>
            \/ <<g, f, "supersedes">> \in edges
            \/ InsertEdge(c) /\ call[c].rel = "supersedes" /\ g = call[c].from /\ f = call[c].to
            \/ ExplainRestatement(c) /\ g = call[c].from /\ f = current[c]
    BY <1>4, NextCases DEF WriteOnly, Begin, WriteFact, RefuseEdge, InsertEdge, RetireTarget,
      SelectRestatements, RetireRestatement, ExplainRestatement, EndCascade, CallFails
  <2>2. EdgesOlder'
    <3> SUFFICES ASSUME NEW f \in Fact, NEW g \in Fact, <<g, f, "supersedes">> \in edges'
                 PROVE  0 < created'[f] /\ created'[f] < created'[g]
      OBVIOUS
    <3>1. 0 < created[f] /\ created[f] < created[g]
      <4>1. CASE <<g, f, "supersedes">> \in edges
        BY <4>1 DEF Aged
      <4>2. CASE InsertEdge(c) /\ call[c].rel = "supersedes" /\ g = call[c].from /\ f = call[c].to
        BY <4>2 DEF Aged, InsertEdge
      <4>3. CASE ExplainRestatement(c) /\ g = call[c].from /\ f = current[c]
        BY <4>3 DEF Timed, CallsTimed, ExplainRestatement
      <4> QED BY <2>1, <4>1, <4>2, <4>3
    <3> QED BY <1>2, <3>1
  <2>3. TargetsOlder'
    <3>1. ASSUME NEW f \in Fact, WriteOnly(c, f) PROVE TargetsOlder'
      BY <1>2, <3>1 DEF WriteOnly, Aged, Timed, CallsTimed
    <3>2. ASSUME NEW f \in Fact, NEW t \in Fact, NEW r \in {"supersedes", "derived_from"},
                 Begin(c, f, t, r), Cited(f, t, r)
          PROVE  TargetsOlder'
      BY <3>2 DEF Begin, Cited, Aged
    <3>3. CASE WriteFact(c)
      <4>1. created'[call[c].from] = clock + 1
        BY <3>3 DEF WriteFact, Insert, Aged, FreshWrites
      <4>2. \A f \in Fact : created[f] <= clock
        BY DEF Timed, ClockAhead
      <4> QED BY <1>2, <3>3, <4>1, <4>2 DEF WriteFact, Goto, Aged, Timed, CallsTimed
    <3>4. CASE RefuseEdge(c)
      BY <3>4 DEF RefuseEdge, Return, Aged
    <3>5. CASE InsertEdge(c)
      BY <3>5 DEF InsertEdge, Goto, Return, Aged
    <3>6. CASE RetireTarget(c)
      BY <3>6 DEF RetireTarget, Goto, Aged
    <3>7. CASE SelectRestatements(c)
      BY <3>7 DEF SelectRestatements, Goto, Aged
    <3>8. CASE RetireRestatement(c)
      BY <3>8 DEF RetireRestatement, Goto, Aged
    <3>9. CASE ExplainRestatement(c)
      BY <3>9 DEF ExplainRestatement, Goto, Aged
    <3>10. CASE EndCascade(c)
      BY <3>10 DEF EndCascade, Return, Aged
    <3>11. CASE CallFails(c)
      BY <3>11 DEF CallFails, Return, Aged
    <3> HIDE DEF TargetsOlder
    <3> QED
      BY <1>4, <3>1, <3>2, <3>3, <3>4, <3>5, <3>6, <3>7, <3>8, <3>9, <3>10, <3>11, NextCases
  <2> QED BY <1>1, <2>2, <2>3 DEF Aged
<1> QED BY <1>3, <1>4 DEF Next

\* While no stored fact is asserted again, what supersedes a fact is newer than
\* it, however calls interleave or fail: corrections never form a cycle, and
\* the walk in search ends at a live version.
THEOREM CorrectionsForward == Spec => []CorrectionsPointBack
<1>1. CASE Reassert
  <2>1. CorrectionsPointBack
    BY <1>1 DEF CorrectionsPointBack
  <2> QED BY <2>1, PTL
<1>2. CASE ~Reassert
  <2>1. Init => Timed /\ Aged
    BY DEF Init, Timed, ClockAhead, CallsTimed, SettledStored, Aged, FreshWrites, TargetsOlder,
      EdgesOlder
  <2>2. Spec => [](Typed /\ Recorded /\ Timed)
    BY <2>1, RecordedAlways, TimedStep, PTL DEF Spec, Recorded
  <2>3. Typed /\ Recorded /\ Timed /\ Aged /\ [Next]_vars => Aged'
    BY <1>2, AgedStep DEF Recorded
  <2>4. Aged => CorrectionsPointBack
    BY DEF Aged, EdgesOlder, CorrectionsPointBack
  <2> QED BY <2>1, <2>2, <2>3, <2>4, PTL DEF Spec
<1> QED BY <1>1, <1>2

-----------------------------------------------------------------------------
(* The walk to the head of a chain.                                        *)

\* One step of the walk, from the rows reached so far.
Up(gs) == UNION { Superseders(g) : g \in gs }
Deeper(gs) == IF Up(gs) = {} THEN gs ELSE Up(gs)

IsWalk(w, f) ==
  /\ w \in [0..SUPERSEDE_MAX_DEPTH -> SUBSET Fact]
  /\ w[0] = {f}
  /\ \A d \in 0..(SUPERSEDE_MAX_DEPTH - 1) : w[d + 1] = Deeper(w[d])

\* The walk that DeepestFrom defines by recursion exists.
LEMMA WalkExists ==
  ASSUME NEW f \in Fact
  PROVE  \E w : IsWalk(w, f) /\ DeepestFrom(f) = w[SUPERSEDE_MAX_DEPTH]
<1> DEFINE G == [p \in Nat \X SUBSET Fact |-> Deeper(p[2])]
           Walk(w) == w = [d \in 0..SUPERSEDE_MAX_DEPTH |->
                             IF d = 0 THEN {f}
                             ELSE LET cur == w[d - 1]
                                      up == UNION { Superseders(g) : g \in cur }
                                  IN  IF up = {} THEN cur ELSE up]
<1>1. \A gs \in SUBSET Fact : Deeper(gs) \in SUBSET Fact
  BY DEF Deeper, Up, Superseders
<1>2. G \in [Nat \X SUBSET Fact -> SUBSET Fact] /\ {f} \in SUBSET Fact
  BY <1>1
<1>3. PICK r : Recursive(SUBSET Fact, {f}, G, r)
  <2> HIDE DEF G
  <2> QED BY <1>2, RecursiveFunction
<1>4. r \in [Nat -> SUBSET Fact] /\ r[0] = {f} /\ \A n \in Nat : r[n + 1] = Deeper(r[n])
  BY <1>3 DEF Recursive
<1> DEFINE v == [d \in 0..SUPERSEDE_MAX_DEPTH |-> r[d]]
<1>5. Walk(v)
  <2> SUFFICES ASSUME NEW d \in 0..SUPERSEDE_MAX_DEPTH, d # 0
               PROVE  r[d] = Deeper(v[d - 1])
    BY <1>4 DEF Deeper, Up
  <2>1. d - 1 \in 0..SUPERSEDE_MAX_DEPTH /\ d - 1 \in Nat /\ (d - 1) + 1 = d
    BY DEF SUPERSEDE_MAX_DEPTH
  <2> QED BY <1>4, <2>1
<1> DEFINE w == CHOOSE w : Walk(w)
<1>6. Walk(w)
  <2> HIDE DEF Walk
  <2> QED BY <1>5
<1>7. DeepestFrom(f) = w[SUPERSEDE_MAX_DEPTH]
  BY DEF DeepestFrom
<1>8. IsWalk(w, f)
  <2> HIDE DEF w
  <2>1. w[0] = {f} /\ DOMAIN w = 0..SUPERSEDE_MAX_DEPTH
    BY <1>6 DEF SUPERSEDE_MAX_DEPTH
  <2>2. \A d \in 0..(SUPERSEDE_MAX_DEPTH - 1) : w[d + 1] = Deeper(w[d])
    <3> SUFFICES ASSUME NEW d \in 0..(SUPERSEDE_MAX_DEPTH - 1) PROVE w[d + 1] = Deeper(w[d])
      OBVIOUS
    <3>1. d + 1 \in 0..SUPERSEDE_MAX_DEPTH /\ d + 1 # 0 /\ (d + 1) - 1 = d
      BY DEF SUPERSEDE_MAX_DEPTH
    <3> QED BY <1>6, <3>1 DEF Deeper, Up
  <2>3. w \in [0..SUPERSEDE_MAX_DEPTH -> SUBSET Fact]
    <3> DEFINE S == { d \in Nat : d <= SUPERSEDE_MAX_DEPTH => w[d] \in SUBSET Fact }
    <3>1. 0 \in S
      BY <2>1
    <3>2. ASSUME NEW d \in Nat, d \in S PROVE d + 1 \in S
      BY <1>1, <2>2, <3>2 DEF SUPERSEDE_MAX_DEPTH
    <3>3. S = Nat
      <4> HIDE DEF S
      <4>1. S \subseteq Nat
        BY DEF S
      <4> QED BY <3>1, <3>2, <4>1, Induction
    <3>4. w = [d \in 0..SUPERSEDE_MAX_DEPTH |-> w[d]]
      BY <1>6
    <3> QED BY <3>3, <3>4 DEF SUPERSEDE_MAX_DEPTH
  <2> QED BY <2>1, <2>2, <2>3 DEF IsWalk
<1> HIDE DEF w
<1> QED BY <1>7, <1>8

\* g supersedes some fact.
Corrects(g) == \E f \in Fact : <<g, f, "supersedes">> \in edges

\* The walk never runs empty, and what it reaches corrects something.
LEMMA WalkReaches ==
  ASSUME NEW f \in Fact, NEW w, IsWalk(w, f), NEW d \in 0..SUPERSEDE_MAX_DEPTH
  PROVE  w[d] # {} /\ \A g \in w[d] : g = f \/ Corrects(g)
<1> DEFINE S == { n \in Nat : n <= SUPERSEDE_MAX_DEPTH =>
                                w[n] # {} /\ \A g \in w[n] : g = f \/ Corrects(g) }
<1>1. 0 \in S
  BY DEF IsWalk
<1>2. ASSUME NEW n \in Nat, n \in S PROVE n + 1 \in S
  <2> SUFFICES ASSUME n + 1 <= SUPERSEDE_MAX_DEPTH
               PROVE  w[n + 1] # {} /\ \A g \in w[n + 1] : g = f \/ Corrects(g)
    OBVIOUS
  <2>1. n \in 0..(SUPERSEDE_MAX_DEPTH - 1) /\ n <= SUPERSEDE_MAX_DEPTH
    BY DEF SUPERSEDE_MAX_DEPTH
  <2>2. w[n + 1] = Deeper(w[n]) /\ w[n] \in SUBSET Fact
    BY <2>1 DEF IsWalk, SUPERSEDE_MAX_DEPTH
  <2>3. w[n] # {} /\ \A g \in w[n] : g = f \/ Corrects(g)
    BY <1>2, <2>1
  <2>4. \A g \in Up(w[n]) : Corrects(g)
    BY <2>2 DEF Up, Superseders, Corrects
  <2> QED BY <2>2, <2>3, <2>4 DEF Deeper
<1>3. S = Nat
  <2> HIDE DEF S
  <2>1. S \subseteq Nat
    BY DEF S
  <2> QED BY <1>1, <1>2, <2>1, Induction
<1> QED BY <1>3 DEF SUPERSEDE_MAX_DEPTH

\* Of some facts one is newest.
LEMMA Newest ==
  ASSUME Typed, ClockAhead, NEW T \in SUBSET Fact, T # {}
  PROVE  \E h \in T : \A g \in T : created[g] <= created[h]
<1> DEFINE Age == { clock - created[g] : g \in T }
<1>1. \A g \in T : created[g] \in Nat /\ clock \in Nat /\ created[g] <= clock
  BY DEF Typed, TypeOK, ClockAhead
<1>2. Age \subseteq Nat /\ Age # {}
  BY <1>1
<1>3. PICK m \in Age : \A n \in Age : m <= n
  <2> HIDE DEF Age
  <2> QED BY <1>2, LeastNumber
<1>4. PICK h \in T : m = clock - created[h]
  BY <1>3
<1>5. ASSUME NEW g \in T PROVE created[g] <= created[h]
  <2>1. clock - created[h] <= clock - created[g]
    BY <1>3, <1>4
  <2> QED BY <1>1, <2>1
<1> QED BY <1>5

\* Nothing supersedes the rows the walk from f stops at: it was not cut off.
WalkEnds(f) == Up(DeepestFrom(f)) = {}

\* The head of f is f or corrects something, and where the walk ends nothing
\* supersedes it.
LEMMA HeadOnWalk ==
  ASSUME Typed, ClockAhead, NEW f \in Fact
  PROVE  /\ HeadOf(f) \in Fact
         /\ HeadOf(f) = f \/ Corrects(HeadOf(f))
         /\ WalkEnds(f) => Superseders(HeadOf(f)) = {}
<1>1. PICK w : IsWalk(w, f) /\ DeepestFrom(f) = w[SUPERSEDE_MAX_DEPTH]
  BY WalkExists
<1>2. SUPERSEDE_MAX_DEPTH \in 0..SUPERSEDE_MAX_DEPTH
  BY DEF SUPERSEDE_MAX_DEPTH
<1>3. /\ DeepestFrom(f) \in SUBSET Fact /\ DeepestFrom(f) # {}
      /\ \A g \in DeepestFrom(f) : g = f \/ Corrects(g)
  BY <1>1, <1>2, WalkReaches DEF IsWalk
<1> DEFINE ends == IF Superseders(f) = {} THEN {f} ELSE DeepestFrom(f)
<1>4. ends \in SUBSET Fact /\ ends # {} /\ \A g \in ends : g = f \/ Corrects(g)
  BY <1>3
<1>5. WalkEnds(f) => \A g \in ends : Superseders(g) = {}
  BY DEF WalkEnds, Up
<1>6. HeadOf(f) = CHOOSE h \in ends : \A g \in ends : created[g] <= created[h]
  BY DEF HeadOf
<1> HIDE DEF ends
<1>7. \E h \in ends : \A g \in ends : created[g] <= created[h]
  BY <1>4, Newest
<1>8. HeadOf(f) \in ends
  BY <1>6, <1>7
<1> QED BY <1>4, <1>5, <1>8

-----------------------------------------------------------------------------
(* Directives.                                                             *)

\* No directive is on its way to supersede anything, and none does.
NoDirectiveCorrects ==
  /\ \A c \in Caller :
       step[c] # "idle" /\ call[c].rel = "supersedes" => Kind(call[c].from) # "directive"
  /\ \A g \in Fact : Corrects(g) => Kind(g) # "directive"

\* Only remember_fact and conclude_task begin calls that supersede.
LEMMA NoDirectiveStep ==
  ASSUME Typed, OnBranch, NoDirectiveCorrects, [Next]_vars
  PROVE  NoDirectiveCorrects'
<1> USE DEF NoDirectiveCorrects, Corrects, OnBranch, CallsOnBranch, Retiring, Typed, ArgsKnown, TypeOK
<1>1. CASE UNCHANGED vars
  BY <1>1 DEF vars
<1>2. ASSUME NEW c \in Caller, BeginCall(c) \/ Statement(c) \/ CallFails(c)
      PROVE  NoDirectiveCorrects'
  <2>1. ASSUME NEW f \in Fact, WriteOnly(c, f) PROVE NoDirectiveCorrects'
    BY <2>1 DEF WriteOnly
  <2>2. ASSUME NEW f \in Fact, NEW t \in Fact, NEW r \in {"supersedes", "derived_from"},
               Begin(c, f, t, r), Cited(f, t, r)
        PROVE  NoDirectiveCorrects'
    <3>1. r = "supersedes" => Kind(f) # "directive"
      BY <2>2 DEF Cited, Kind
    <3> QED BY <2>2, <3>1 DEF Begin
  <2>3. CASE WriteFact(c)
    BY <2>3 DEF WriteFact, Goto
  <2>4. CASE RefuseEdge(c)
    BY <2>4 DEF RefuseEdge, Return
  <2>5. CASE InsertEdge(c)
    BY <2>5 DEF InsertEdge, Goto, Return
  <2>6. CASE RetireTarget(c)
    BY <2>6 DEF RetireTarget, Goto
  <2>7. CASE SelectRestatements(c)
    BY <2>7 DEF SelectRestatements, Goto
  <2>8. CASE RetireRestatement(c)
    BY <2>8 DEF RetireRestatement, Goto
  <2>9. CASE ExplainRestatement(c)
    BY <2>9 DEF ExplainRestatement, Goto
  <2>10. CASE EndCascade(c)
    BY <2>10 DEF EndCascade, Return
  <2>11. CASE CallFails(c)
    BY <2>11 DEF CallFails, Return
  <2> QED BY <1>2, <2>1, <2>2, <2>3, <2>4, <2>5, <2>6, <2>7, <2>8, <2>9, <2>10, <2>11, NextCases
<1> QED BY <1>1, <1>2 DEF Next

\* The invariants of the store together.
LEMMA StoreInvariant == Spec => [](Typed /\ Recorded /\ Timed)
<1>1. Init => Timed
  BY DEF Init, Timed, ClockAhead, CallsTimed, SettledStored
<1> QED BY <1>1, RecordedAlways, TimedStep, PTL DEF Spec, Recorded

\* A query never brings up a directive, although only the version that matched
\* is filtered: whatever supersedes it is an agent's own claim or summary.
THEOREM DirectivesStayOut == Spec => []DirectivesHeldOut
<1>1. Init => NoDirectiveCorrects
  BY DEF Init, NoDirectiveCorrects, Corrects
<1>2. Typed /\ Recorded /\ NoDirectiveCorrects /\ [Next]_vars => NoDirectiveCorrects'
  BY NoDirectiveStep DEF Recorded
<1>3. Typed /\ Timed /\ NoDirectiveCorrects => DirectivesHeldOut
  BY HeadOnWalk DEF Timed, NoDirectiveCorrects, DirectivesHeldOut, Stored
<1> QED BY <1>1, <1>2, <1>3, StoreInvariant, PTL DEF Spec

-----------------------------------------------------------------------------
(* Heads.                                                                  *)

\* What HeadIsCurrent says of one head.
Current(h) == status[h] = "active" \/ h \in torn \/ BeingExplained(h)

\* A store that does not retire retires nothing.
NothingRetired == ~RetireSuperseded => \A f \in Fact : status[f] = "active"

LEMMA NothingRetiredStep ==
  ASSUME Typed, OnBranch, CallsRecord, NothingRetired, [Next]_vars
  PROVE  NothingRetired'
<1>1. CASE UNCHANGED vars
  BY <1>1 DEF vars, NothingRetired
<1>2. ASSUME NEW c \in Caller, BeginCall(c) \/ Statement(c) \/ CallFails(c)
      PROVE  status' = status \/ RetireSuperseded
  <2>1. RetireTarget(c) \/ RetireRestatement(c) => RetireSuperseded
    BY DEF RetireTarget, RetireRestatement, CallsRecord, Retiring
  <2> QED BY <1>2, <2>1, NextCases DEF WriteOnly, Begin, WriteFact, RefuseEdge, InsertEdge,
    SelectRestatements, ExplainRestatement, EndCascade, CallFails
<1> QED BY <1>1, <1>2 DEF Next, NothingRetired

\* A fact that nothing supersedes is live, outside torn calls and the pair of
\* statements that retires a restatement.
LEMMA UnsupersededIsCurrent ==
  ASSUME Typed, Recorded, NothingRetired, NEW h \in Fact, Superseders(h) = {}
  PROVE  Current(h)
<1>1. CASE ~RetireSuperseded
  BY <1>1 DEF NothingRetired, Current
<1>2. CASE RetireSuperseded
  <2> SUFFICES ASSUME h \notin torn, status[h] # "active" PROVE BeingExplained(h)
    BY DEF Current
  <2>1. MidRetirement(h)
    BY <1>2 DEF Recorded, StatusMatchesEdges, Typed, TypeOK
  <2>2. ASSUME NEW c \in Caller, step[c] = "retire", call[c].to = h PROVE FALSE
    <3>1. <<call[c].from, h, "supersedes">> \in edges /\ call[c].from \in Fact
      BY <2>2 DEF Recorded, CallsRecord, Retiring, Typed, ArgsKnown
    <3> QED BY <3>1 DEF Superseders
  <2> QED BY <2>1, <2>2 DEF MidRetirement, BeingExplained
<1> QED BY <1>1, <1>2

LEMMA HeadInvariant == Spec => [](Typed /\ Recorded /\ Timed /\ NothingRetired)
<1>1. Init => NothingRetired
  BY DEF Init, NothingRetired
<1>2. Typed /\ Recorded /\ NothingRetired /\ [Next]_vars => NothingRetired'
  BY NothingRetiredStep DEF Recorded
<1> QED BY <1>1, <1>2, StoreInvariant, PTL DEF Spec

\* n corrections of f, each of the one before.
Corrections(f, chain, n) ==
  /\ chain \in [0..n -> Fact] /\ chain[0] = f
  /\ \A i \in 0..(n - 1) : chain[i + 1] \in Superseders(chain[i])

\* One correction more.
LEMMA CorrectedAgain ==
  ASSUME NEW f, NEW n \in Nat, NEW chain, Corrections(f, chain, n), NEW h \in Superseders(chain[n])
  PROVE  \E c : Corrections(f, c, n + 1) /\ c[n + 1] = h
<1> DEFINE c == [i \in 0..(n + 1) |-> IF i = n + 1 THEN h ELSE chain[i]]
<1>1. h \in Fact
  BY DEF Superseders
<1>2. \A i \in 0..(n + 1) : i # n + 1 => i \in 0..n
  OBVIOUS
<1>3. c \in [0..(n + 1) -> Fact] /\ c[0] = f /\ c[n + 1] = h
  BY <1>1, <1>2 DEF Corrections
<1>4. ASSUME NEW i \in 0..n PROVE c[i + 1] \in Superseders(c[i])
  <2>1. c[i] = chain[i]
    OBVIOUS
  <2>2. CASE i = n
    <3>1. c[i + 1] = h
      BY <2>2
    <3> HIDE DEF c
    <3> QED BY <2>1, <2>2, <3>1
  <2>3. CASE i # n
    <3>1. i \in 0..(n - 1) /\ c[i + 1] = chain[i + 1]
      BY <2>3
    <3> HIDE DEF c
    <3> QED BY <2>1, <3>1 DEF Corrections
  <2> QED BY <2>2, <2>3
<1> HIDE DEF c
<1>5. \A i \in 0..((n + 1) - 1) : c[i + 1] \in Superseders(c[i])
  BY <1>4
<1> QED BY <1>3, <1>5 DEF Corrections

\* A walk that is cut off has one edge more before it than it may follow.
LEMMA CutOffByDepth ==
  ASSUME NEW f \in Fact, ~WalkEnds(f)
  PROVE  \E chain : Corrections(f, chain, SUPERSEDE_MAX_DEPTH + 1)
<1>1. PICK w : IsWalk(w, f) /\ DeepestFrom(f) = w[SUPERSEDE_MAX_DEPTH]
  BY WalkExists
<1> DEFINE Reached(g, n) == \E c : Corrections(f, c, n) /\ c[n] = g
           T == { n \in Nat : n <= SUPERSEDE_MAX_DEPTH =>
                                Up(w[n]) = {} \/ \A g \in w[n] : Reached(g, n) }
<1>2. ASSUME NEW n \in Nat, NEW g, Reached(g, n), NEW h \in Superseders(g)
      PROVE  Reached(h, n + 1)
  BY <1>2, CorrectedAgain
<1>3. 0 \in T
  <2>1. Corrections(f, [i \in 0..0 |-> f], 0) /\ [i \in 0..0 |-> f][0] = f
    BY DEF Corrections
  <2>2. Reached(f, 0)
    BY <2>1
  <2> HIDE DEF Reached
  <2> QED BY <1>1, <2>2 DEF IsWalk
<1>4. ASSUME NEW n \in Nat, n \in T PROVE n + 1 \in T
  <2> SUFFICES ASSUME n + 1 <= SUPERSEDE_MAX_DEPTH
               PROVE  Up(w[n + 1]) = {} \/ \A g \in w[n + 1] : Reached(g, n + 1)
    OBVIOUS
  <2>1. n \in 0..(SUPERSEDE_MAX_DEPTH - 1) /\ n <= SUPERSEDE_MAX_DEPTH
    BY DEF SUPERSEDE_MAX_DEPTH
  <2>2. w[n + 1] = Deeper(w[n])
    BY <1>1, <2>1 DEF IsWalk
  <2>3. Up(w[n]) = {} \/ \A g \in w[n] : Reached(g, n)
    BY <1>4, <2>1
  <2> HIDE DEF Reached
  <2>4. CASE Up(w[n]) = {}
    BY <2>2, <2>4 DEF Deeper
  <2>5. CASE Up(w[n]) # {}
    <3>1. w[n + 1] = Up(w[n])
      BY <2>2, <2>5 DEF Deeper
    <3>2. ASSUME NEW h \in w[n + 1] PROVE Reached(h, n + 1)
      <4>1. PICK g \in w[n] : h \in Superseders(g)
        BY <3>1 DEF Up
      <4> QED BY <1>2, <2>3, <2>5, <4>1
    <3> QED BY <3>2
  <2> QED BY <2>4, <2>5
<1>5. T = Nat
  <2> HIDE DEF T
  <2>1. T \subseteq Nat
    BY DEF T
  <2> QED BY <1>3, <1>4, <2>1, Induction
<1>6. PICK g \in w[SUPERSEDE_MAX_DEPTH] : \E h : h \in Superseders(g)
  BY <1>1 DEF WalkEnds, Up
<1>7. PICK h : h \in Superseders(g)
  BY <1>6
<1>8. Reached(g, SUPERSEDE_MAX_DEPTH)
  <2>1. SUPERSEDE_MAX_DEPTH \in Nat /\ SUPERSEDE_MAX_DEPTH <= SUPERSEDE_MAX_DEPTH
    BY DEF SUPERSEDE_MAX_DEPTH
  <2> HIDE DEF Reached
  <2> QED BY <1>1, <1>5, <2>1 DEF WalkEnds
<1>9. Reached(h, SUPERSEDE_MAX_DEPTH + 1)
  <2>1. SUPERSEDE_MAX_DEPTH \in Nat
    BY DEF SUPERSEDE_MAX_DEPTH
  <2> HIDE DEF Reached
  <2> QED BY <1>2, <1>7, <1>8, <2>1
<1> QED BY <1>9

-----------------------------------------------------------------------------
(* How many corrections the walk can follow.                               *)

\* What supersedes something, or is about to.
Correctors ==
  { g \in Fact : Corrects(g) }
    \cup { call[c].from : c \in { d \in Caller : step[d] # "idle" /\ call[d].rel = "supersedes" } }

\* Each of them was written by a call with a reference.
CorrectorsCounted == IsFiniteSet(Correctors) /\ Cardinality(Correctors) <= begun

\* One element more is at most one more.
LEMMA OneMore ==
  ASSUME NEW S, IsFiniteSet(S), NEW x
  PROVE  IsFiniteSet(S \cup {x}) /\ Cardinality(S \cup {x}) <= Cardinality(S) + 1
<1>1. Cardinality(S) \in Nat
  BY FS_CardinalityType
<1>2. CASE x \in S
  <2>1. S \cup {x} = S
    BY <1>2
  <2>2. IsFiniteSet(S \cup {x}) /\ Cardinality(S \cup {x}) = Cardinality(S)
    BY <2>1, Zenon
  <2> QED BY <1>1, <2>2
<1>3. CASE x \notin S
  BY <1>1, <1>3, FS_AddElement
<1> QED BY <1>2, <1>3

\* Only a call that begins adds one, and it is counted.
LEMMA CorrectorsStep ==
  ASSUME Typed, OnBranch, CorrectorsCounted, [Next]_vars
  PROVE  CorrectorsCounted'
<1>1. ASSUME Correctors' \subseteq Correctors, begun' = begun PROVE CorrectorsCounted'
  <2>1. IsFiniteSet(Correctors') /\ Cardinality(Correctors') <= Cardinality(Correctors)
    BY <1>1, FS_Subset DEF CorrectorsCounted
  <2>2. Cardinality(Correctors') \in Nat /\ Cardinality(Correctors) \in Nat /\ begun \in Nat
    BY <2>1, FS_CardinalityType DEF CorrectorsCounted, Typed, TypeOK
  <2> QED BY <1>1, <2>1, <2>2 DEF CorrectorsCounted
<1>2. CASE UNCHANGED vars
  BY <1>1, <1>2 DEF vars, Correctors, Corrects
<1>3. ASSUME NEW c \in Caller, BeginCall(c) \/ Statement(c) \/ CallFails(c)
      PROVE  CorrectorsCounted'
  <2>1. ASSUME NEW f \in Fact, NEW t \in Fact, NEW r \in {"supersedes", "derived_from"},
               Begin(c, f, t, r)
        PROVE  CorrectorsCounted'
    <3>1. Correctors' \subseteq Correctors \cup {f} /\ begun' = begun + 1
      BY <2>1 DEF Begin, Correctors, Corrects, Typed, TypeOK
    <3>2. /\ IsFiniteSet(Correctors \cup {f})
          /\ Cardinality(Correctors \cup {f}) <= Cardinality(Correctors) + 1
      BY OneMore DEF CorrectorsCounted
    <3>3. IsFiniteSet(Correctors') /\ Cardinality(Correctors') <= Cardinality(Correctors \cup {f})
      BY <3>1, <3>2, FS_Subset
    <3>4. /\ Cardinality(Correctors') \in Nat /\ Cardinality(Correctors) \in Nat
          /\ Cardinality(Correctors \cup {f}) \in Nat /\ begun \in Nat
      BY <3>2, <3>3, FS_CardinalityType DEF CorrectorsCounted, Typed, TypeOK
    <3> QED BY <3>1, <3>2, <3>3, <3>4 DEF CorrectorsCounted
  <2>2. ASSUME ~(\E f, t \in Fact, r \in {"supersedes", "derived_from"} : Begin(c, f, t, r))
        PROVE  begun' = begun /\ Correctors' \subseteq Correctors
    <3>1. begun' = begun
      BY <1>3, <2>2, NextCases DEF WriteOnly, WriteFact, RefuseEdge, InsertEdge, RetireTarget,
        SelectRestatements, RetireRestatement, ExplainRestatement, EndCascade, CallFails
    <3>2. \A d \in Caller : step'[d] # "idle" /\ call'[d].rel = "supersedes" =>
                            step[d] # "idle" /\ call'[d] = call[d]
      BY <1>3, <2>2, NextCases DEF WriteOnly, WriteFact, RefuseEdge, InsertEdge, RetireTarget,
        SelectRestatements, RetireRestatement, ExplainRestatement, EndCascade, CallFails,
        Goto, Return, Typed, TypeOK, ArgsKnown
    <3>3. \A g \in Fact : Corrects(g)' =>
            \/ Corrects(g)
            \/ step[c] # "idle" /\ call[c].rel = "supersedes" /\ g = call[c].from
      <4>1. \A f, g \in Fact :
              <<g, f, "supersedes">> \in edges' =>
                \/ <<g, f, "supersedes">> \in edges
                \/ InsertEdge(c) /\ call[c].rel = "supersedes" /\ g = call[c].from
                \/ ExplainRestatement(c) /\ g = call[c].from
        BY <1>3, <2>2, NextCases DEF WriteOnly, WriteFact, RefuseEdge, InsertEdge, RetireTarget,
          SelectRestatements, RetireRestatement, ExplainRestatement, EndCascade, CallFails
      <4>2. InsertEdge(c) => step[c] # "idle"
        BY DEF InsertEdge
      <4>3. ExplainRestatement(c) => step[c] # "idle" /\ call[c].rel = "supersedes"
        BY DEF ExplainRestatement, OnBranch, CallsOnBranch, Retiring
      <4> QED BY <4>1, <4>2, <4>3 DEF Corrects
    <3> QED BY <3>1, <3>2, <3>3 DEF Correctors
  <2> QED BY <1>1, <2>1, <2>2
<1> QED BY <1>2, <1>3 DEF Next

\* A walk that is cut off has passed more correctors than it may go deep.
LEMMA CutOffWalk ==
  ASSUME Typed, EdgesOlder, NEW f \in Fact, ~WalkEnds(f)
  PROVE  \E S \in SUBSET Correctors : IsFiniteSet(S) /\ Cardinality(S) = SUPERSEDE_MAX_DEPTH + 1
<1>1. PICK w : IsWalk(w, f) /\ DeepestFrom(f) = w[SUPERSEDE_MAX_DEPTH]
  BY WalkExists
<1> DEFINE Passed(g, n) == \E S \in SUBSET Correctors :
                              /\ IsFiniteSet(S) /\ Cardinality(S) = n
                              /\ \A h \in S : created[h] <= created[g]
<1>2. ASSUME NEW n \in Nat, NEW g \in Fact, Passed(g, n), NEW h \in Superseders(g)
      PROVE  Passed(h, n + 1)
  <2>1. PICK S \in SUBSET Correctors : /\ IsFiniteSet(S) /\ Cardinality(S) = n
                                      /\ \A x \in S : created[x] <= created[g]
    BY <1>2
  <2>2. h \in Fact /\ created[g] < created[h] /\ h \in Correctors
    BY DEF Superseders, EdgesOlder, Correctors, Corrects
  <2>3. \A x \in Correctors : x \in Fact
    BY DEF Correctors, Typed, ArgsKnown
  <2>4. \A x \in S : created[x] < created[h]
    BY <2>1, <2>2, <2>3 DEF Typed, TypeOK
  <2>5. h \notin S
    BY <2>2, <2>4 DEF Typed, TypeOK
  <2>6. IsFiniteSet(S \cup {h}) /\ Cardinality(S \cup {h}) = n + 1
    BY <2>1, <2>5, FS_AddElement
  <2>7. \A x \in S \cup {h} : created[x] <= created[h]
    BY <2>2, <2>3, <2>4 DEF Typed, TypeOK
  <2> QED BY <2>2, <2>6, <2>7
<1> DEFINE T == { n \in Nat : n <= SUPERSEDE_MAX_DEPTH =>
                                Up(w[n]) = {} \/ \A g \in w[n] : Passed(g, n) }
<1>3. 0 \in T
  <2>1. Passed(f, 0)
    BY FS_EmptySet
  <2> HIDE DEF Passed
  <2> QED BY <1>1, <2>1 DEF IsWalk
<1>4. ASSUME NEW n \in Nat, n \in T PROVE n + 1 \in T
  <2> SUFFICES ASSUME n + 1 <= SUPERSEDE_MAX_DEPTH
               PROVE  Up(w[n + 1]) = {} \/ \A g \in w[n + 1] : Passed(g, n + 1)
    OBVIOUS
  <2>1. n \in 0..(SUPERSEDE_MAX_DEPTH - 1) /\ n <= SUPERSEDE_MAX_DEPTH
    BY DEF SUPERSEDE_MAX_DEPTH
  <2>2. w[n + 1] = Deeper(w[n]) /\ w[n] \in SUBSET Fact
    BY <1>1, <2>1 DEF IsWalk, SUPERSEDE_MAX_DEPTH
  <2>3. Up(w[n]) = {} \/ \A g \in w[n] : Passed(g, n)
    BY <1>4, <2>1
  <2> HIDE DEF Passed
  <2>4. CASE Up(w[n]) = {}
    BY <2>2, <2>4 DEF Deeper
  <2>5. CASE Up(w[n]) # {}
    <3>1. w[n + 1] = Up(w[n])
      BY <2>2, <2>5 DEF Deeper
    <3>2. ASSUME NEW h \in w[n + 1] PROVE Passed(h, n + 1)
      <4>1. PICK g \in w[n] : h \in Superseders(g)
        BY <3>1 DEF Up
      <4> QED BY <1>2, <2>2, <2>3, <2>5, <4>1
    <3> QED BY <3>2
  <2> QED BY <2>4, <2>5
<1>5. T = Nat
  <2> HIDE DEF T
  <2>1. T \subseteq Nat
    BY DEF T
  <2> QED BY <1>3, <1>4, <2>1, Induction
<1>6. /\ SUPERSEDE_MAX_DEPTH \in Nat /\ SUPERSEDE_MAX_DEPTH <= SUPERSEDE_MAX_DEPTH
      /\ w[SUPERSEDE_MAX_DEPTH] \in SUBSET Fact
  BY <1>1 DEF SUPERSEDE_MAX_DEPTH, IsWalk
<1>7. \A g \in w[SUPERSEDE_MAX_DEPTH] : Passed(g, SUPERSEDE_MAX_DEPTH)
  <2> HIDE DEF Passed
  <2> QED BY <1>1, <1>5, <1>6 DEF WalkEnds
<1>8. PICK g \in w[SUPERSEDE_MAX_DEPTH], h \in Fact : h \in Superseders(g)
  BY <1>1 DEF WalkEnds, Up, Superseders
<1>9. Passed(h, SUPERSEDE_MAX_DEPTH + 1)
  <2> HIDE DEF Passed
  <2> QED BY <1>2, <1>6, <1>7, <1>8
<1> QED BY <1>9

\* Until more calls with a reference have begun than the walk may go deep, no
\* walk is cut off.
LEMMA ShortWalks ==
  ASSUME Typed, EdgesOlder, CorrectorsCounted, begun <= SUPERSEDE_MAX_DEPTH, NEW f \in Fact
  PROVE  WalkEnds(f)
<1> SUFFICES ASSUME ~WalkEnds(f) PROVE FALSE
  OBVIOUS
<1>1. PICK S \in SUBSET Correctors : IsFiniteSet(S) /\ Cardinality(S) = SUPERSEDE_MAX_DEPTH + 1
  BY CutOffWalk
<1>2. Cardinality(S) <= Cardinality(Correctors) /\ Cardinality(Correctors) \in Nat
  BY FS_Subset, FS_CardinalityType DEF CorrectorsCounted
<1> QED BY <1>1, <1>2 DEF CorrectorsCounted, SUPERSEDE_MAX_DEPTH, Typed, TypeOK

\* What is left of HeadIsCurrent when every walk ends.
LEMMA HeadsHold ==
  ASSUME Typed, Recorded, Timed, NothingRetired, ~Reassert => Aged, CorrectorsCounted,
         begun <= SUPERSEDE_MAX_DEPTH
  PROVE  HeadIsCurrent
<1> SUFFICES ASSUME ~Reassert, NEW f \in Stored PROVE Current(HeadOf(f))
  BY DEF HeadIsCurrent, Current
<1>1. f \in Fact /\ WalkEnds(f)
  BY ShortWalks DEF Stored, Aged
<1> QED BY <1>1, HeadOnWalk, UnsupersededIsCurrent DEF Timed

\* Once a correction has settled, what it corrected is neither live nor the
\* head of a version that is.
LEMMA StaleHolds ==
  ASSUME Typed, Timed, CascadeComplete, HeadIsCurrent, NEW n \in Reader
  PROVE  ~Reassert => \A pair \in settled : \A f \in Surfaced(n) \cup SubtreeFacts(n) :
           f = pair[2] \/ StaleFor(f, pair[1], pair[2]) => f \in torn \/ BeingExplained(f)
<1> SUFFICES ASSUME ~Reassert, NEW pair \in settled, NEW f \in Surfaced(n) \cup SubtreeFacts(n),
                    f = pair[2] \/ StaleFor(f, pair[1], pair[2])
             PROVE  f \in torn \/ BeingExplained(f)
  OBVIOUS
<1>1. f \in Fact => status[f] # "active"
  BY DEF CascadeComplete
<1>2. CASE f \in SubtreeFacts(n)
  BY <1>1, <1>2 DEF SubtreeFacts, Stored
<1>3. CASE f \in Surfaced(n)
  <2>1. PICK g \in Matchable(n) : f = HeadOf(g)
    BY <1>3 DEF Surfaced
  <2>2. g \in Stored
    BY DEF Matchable
  <2>3. status[f] = "active" \/ f \in torn \/ BeingExplained(f)
    BY <2>1, <2>2 DEF HeadIsCurrent
  <2>4. f \in Fact
    BY <2>1, <2>2, HeadOnWalk DEF Stored, Timed
  <2> QED BY <1>1, <2>3, <2>4
<1> QED BY <1>2, <1>3

\* The inductive invariant of HeadIsCurrent.
LEMMA HeadsInvariant ==
  Spec => []( /\ Typed /\ Recorded /\ Timed /\ NothingRetired
              /\ (~Reassert => Aged) /\ CorrectorsCounted )
<1>1. Init => (~Reassert => Aged) /\ CorrectorsCounted
  <2>1. Init => Aged
    BY DEF Init, Aged, FreshWrites, TargetsOlder, EdgesOlder
  <2>2. ASSUME Init PROVE CorrectorsCounted
    <3>1. Correctors = {} /\ begun = 0
      BY <2>2 DEF Init, Correctors, Corrects
    <3> QED BY <3>1, FS_EmptySet DEF CorrectorsCounted
  <2> QED BY <2>1, <2>2
<1>2. Typed /\ Recorded /\ Timed /\ (~Reassert => Aged) /\ CorrectorsCounted /\ [Next]_vars
        => ((~Reassert => Aged) /\ CorrectorsCounted)'
  BY AgedStep, CorrectorsStep DEF Recorded
<1> QED BY <1>1, <1>2, HeadInvariant, PTL DEF Spec

\* Until more corrections have begun than the walk may go deep, the head of
\* every chain is live: no chain can be longer than the walk by then.
THEOREM HeadsAreCurrent == Spec => [](begun <= SUPERSEDE_MAX_DEPTH => HeadIsCurrent)
<1>1. /\ Typed /\ Recorded /\ Timed /\ NothingRetired
      /\ (~Reassert => Aged) /\ CorrectorsCounted
      => (begun <= SUPERSEDE_MAX_DEPTH => HeadIsCurrent)
  BY HeadsHold
<1> QED BY <1>1, HeadsInvariant, PTL

\* By then, what a settled correction has corrected reaches no agent either,
\* by search or by recall_from_subagents.
THEOREM StaleStaysDown == Spec => [](begun <= SUPERSEDE_MAX_DEPTH => StaleNeverSurfaces)
<1>1. Typed /\ Timed /\ CascadeComplete /\ HeadIsCurrent => StaleNeverSurfaces
  BY StaleHolds DEF StaleNeverSurfaces
<1> QED BY <1>1, StoreInvariant, CorrectionsHold, HeadsAreCurrent, PTL

-----------------------------------------------------------------------------
(* Chains.                                                                 *)

\* Every correction in a chain is newer than the one before.
LEMMA ChainRises ==
  ASSUME Typed, EdgesOlder, NEW f \in Fact, NEW n \in Nat, NEW chain, Corrections(f, chain, n)
  PROVE  chain[n] \in Fact /\ created[chain[n]] >= created[f] + n
<1> DEFINE S == { m \in Nat : m <= n => created[chain[m]] >= created[f] + m }
<1>1. \A m \in 0..n : chain[m] \in Fact /\ created[chain[m]] \in Nat
  BY DEF Corrections, Typed, TypeOK
<1>2. created[f] \in Nat
  BY DEF Typed, TypeOK
<1>3. 0 \in S
  BY <1>2 DEF Corrections
<1>4. ASSUME NEW m \in Nat, m \in S PROVE m + 1 \in S
  <2> SUFFICES ASSUME m + 1 <= n PROVE created[chain[m + 1]] >= created[f] + (m + 1)
    OBVIOUS
  <2>1. m \in 0..n /\ m \in 0..(n - 1) /\ m + 1 \in 0..n /\ created[chain[m]] >= created[f] + m
    BY <1>4
  <2>2. chain[m + 1] \in Superseders(chain[m])
    BY <2>1 DEF Corrections
  <2>3. created[chain[m]] < created[chain[m + 1]]
    BY <1>1, <2>1, <2>2 DEF Superseders, EdgesOlder
  <2> QED BY <1>1, <1>2, <2>1, <2>3
<1>5. S = Nat
  <2>1. S \subseteq Nat
    OBVIOUS
  <2> HIDE DEF S
  <2> QED BY <1>3, <1>4, <2>1, Induction
<1> QED BY <1>1, <1>5

\* No claim is corrected, however indirectly, by itself.
NoCircle ==
  ~Reassert =>
    \A f \in Fact, n \in Nat \ {0} : \A chain : Corrections(f, chain, n) => chain[n] # f

\* While no stored fact is asserted again, supersedes edges form no circle, of
\* any length and through any namespaces: the walk of search has an end.
THEOREM NoCircularCorrection == Spec => []NoCircle
<1>1. Typed /\ (~Reassert => Aged) => NoCircle
  <2> SUFFICES ASSUME Typed, Aged, NEW f \in Fact, NEW n \in Nat \ {0}, NEW chain,
                      Corrections(f, chain, n), chain[n] = f
               PROVE  FALSE
    BY DEF NoCircle
  <2>1. created[f] >= created[f] + n /\ created[f] \in Nat
    BY ChainRises DEF Aged, Typed, TypeOK
  <2> QED BY <2>1
<1> QED BY <1>1, HeadsInvariant, PTL

\* In a chain each correction is newer than all before it, so no fact is in it
\* twice.
Rises(chain, n) == \A i, j \in 0..n : i < j => created[chain[i]] < created[chain[j]]

\* While no stored fact is asserted again, every chain rises.
LEMMA ChainsRise ==
  ASSUME Typed, EdgesOlder, NEW f \in Fact, NEW n \in Nat, NEW chain, Corrections(f, chain, n)
  PROVE  Rises(chain, n)
<1> SUFFICES ASSUME NEW i \in 0..n, NEW j \in 0..n, i < j
             PROVE  created[chain[i]] < created[chain[j]]
  BY DEF Rises
<1> DEFINE S == { m \in Nat : i < m /\ m <= n => created[chain[i]] < created[chain[m]] }
<1>1. \A m \in 0..n : chain[m] \in Fact /\ created[chain[m]] \in Nat
  BY DEF Corrections, Typed, TypeOK
<1>2. 0 \in S
  OBVIOUS
<1>3. ASSUME NEW m \in Nat, m \in S PROVE m + 1 \in S
  <2> SUFFICES ASSUME i < m + 1, m + 1 <= n PROVE created[chain[i]] < created[chain[m + 1]]
    OBVIOUS
  <2>1. m \in 0..n /\ m \in 0..(n - 1) /\ m + 1 \in 0..n
    OBVIOUS
  <2>2. chain[m + 1] \in Superseders(chain[m])
    BY <2>1 DEF Corrections
  <2>3. created[chain[m]] < created[chain[m + 1]]
    BY <1>1, <2>1, <2>2 DEF Superseders, EdgesOlder
  <2>4. i = m \/ created[chain[i]] < created[chain[m]]
    BY <1>3, <2>1
  <2> QED BY <1>1, <2>1, <2>3, <2>4
<1>4. S = Nat
  <2>1. S \subseteq Nat
    OBVIOUS
  <2> HIDE DEF S
  <2> QED BY <1>2, <1>3, <2>1, Induction
<1> QED BY <1>4

\* The match f lies under one correction more than the walk may follow, all of
\* them different.
Buried(f) ==
  \E chain : /\ Corrections(f, chain, SUPERSEDE_MAX_DEPTH + 1)
             /\ Rises(chain, SUPERSEDE_MAX_DEPTH + 1)

\* What hides the live version of a claim from search.
LiveUnlessBuried == ~Reassert => \A f \in Fact : Current(HeadOf(f)) \/ Buried(f)

\* While no stored fact is asserted again, search answers every match with a
\* live version unless that match lies under eleven different corrections: the
\* length of its own chain counts, not how many corrections others have made,
\* how calls interleave or which of them fail.
THEOREM OnlyDepthHides == Spec => []LiveUnlessBuried
<1>1. Typed /\ Recorded /\ Timed /\ NothingRetired /\ (~Reassert => Aged) => LiveUnlessBuried
  <2> SUFFICES ASSUME Typed, Recorded, Timed, NothingRetired, Aged, NEW f \in Fact
               PROVE  Current(HeadOf(f)) \/ Buried(f)
    BY DEF LiveUnlessBuried
  <2>1. CASE WalkEnds(f)
    BY <2>1, HeadOnWalk, UnsupersededIsCurrent DEF Timed
  <2>2. CASE ~WalkEnds(f)
    <3>1. PICK chain : Corrections(f, chain, SUPERSEDE_MAX_DEPTH + 1)
      BY <2>2, CutOffByDepth
    <3>2. SUPERSEDE_MAX_DEPTH + 1 \in Nat
      BY DEF SUPERSEDE_MAX_DEPTH
    <3>3. Rises(chain, SUPERSEDE_MAX_DEPTH + 1)
      BY <3>1, <3>2, ChainsRise DEF Aged
    <3> QED BY <3>1, <3>3 DEF Buried
  <2> QED BY <2>1, <2>2
<1> QED BY <1>1, HeadsInvariant, PTL
=============================================================================
