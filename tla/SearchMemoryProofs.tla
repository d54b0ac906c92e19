-------------------------- MODULE SearchMemoryProofs --------------------------
(***************************************************************************)
(* Proofs about Selection and SearchMemory, for every set of facts, agents *)
(* and captures, every cap, and every ranking.                             *)
(***************************************************************************)
EXTENDS SearchMemory, FiniteSetTheorems, SequenceTheorems, TLAPS

\* What happens to the variables of the selection.
SelectActs ==
  \/ (\E n \in 1..MaxK : \E ranking \in Ranking : Rank(n, ranking))
  \/ ReadParents
  \/ Pass
  \/ PassAgent
  \/ Keep
  \/ Selected
  \/ Forget
  \/ (\E e \in Provenance : AddProvenance(e[1], e[2]))

\* What happens to the text; the selection is at rest, or forgotten with it.
RenderActs ==
  \/ ReadNeighbours
  \/ PrintHit
  \/ PrintNeighbour
  \/ NextHit
  \/ (\E e \in Relating : Relate(e))

LEMMA NextActs ==
  ASSUME [Next]_vars
  PROVE  \/ UNCHANGED vars
         \/ RenderActs
         \/ /\ SelectActs /\ UNCHANGED <<edges, renderVars>>
            /\ at = "render" => UNCHANGED <<at, kept>>
         \/ SelectActs /\ Return
<1>1. Search => SelectActs /\ UNCHANGED <<edges, renderVars>> /\ at # "render"
  BY DEF Search, SelectStep, SelectActs, Rank, ReadParents, Pass, PassAgent, Keep, Selected, Looking
<1>2. NothingFound => SelectActs /\ UNCHANGED <<edges, renderVars>> /\ at # "render"
  BY DEF NothingFound, SelectActs
<1>3. ASSUME NEW e \in Provenance, Derive(e)
      PROVE  SelectActs /\ UNCHANGED <<edges, renderVars>> /\ UNCHANGED <<at, kept>>
  BY <1>3 DEF Derive, AddProvenance, SelectActs
<1>4. Return => SelectActs
  BY DEF Return, SelectActs
<1> QED BY <1>1, <1>2, <1>3, <1>4 DEF Next, RenderActs

-----------------------------------------------------------------------------
(* Types.                                                                  *)

\* The loop looks at a row only while there is a slot left.
RoomLeft ==
  /\ at \in {"idle", "ranked"} => kept = <<>>
  /\ at = "select" /\ rows # <<>> => Len(kept) < k

LEMMA RankedType ==
  ASSUME NEW ranking \in Ranking, NEW n \in 1..MaxK
  PROVE  /\ SubSeq(ranking, 1, Smaller(Len(ranking), WindowSize(n))) \in Seq(Fact)
         /\ \A i, j \in 1..Len(SubSeq(ranking, 1, Smaller(Len(ranking), WindowSize(n)))) :
              SubSeq(ranking, 1, Smaller(Len(ranking), WindowSize(n)))[i]
                = SubSeq(ranking, 1, Smaller(Len(ranking), WindowSize(n)))[j] => i = j
<1>1. PICK m \in 0..Cardinality(Fact) :
        ranking \in [1..m -> Fact] /\ \A i, j \in 1..m : ranking[i] = ranking[j] => i = j
  BY DEF Ranking
<1>2. m \in Nat
  BY FS_CardinalityType, SelectionAssumption
<1>3. ranking \in Seq(Fact) /\ Len(ranking) = m
  BY <1>1, <1>2
<1>4. WindowSize(n) \in Nat
  BY SelectionAssumption DEF WindowSize
<1> DEFINE last == Smaller(Len(ranking), WindowSize(n))
<1>5. last \in 0..m
  BY <1>2, <1>3, <1>4 DEF Smaller
<1>6. \A i \in 1..last : ranking[i] \in Fact
  BY <1>1, <1>2, <1>5
<1>7. /\ SubSeq(ranking, 1, last) \in Seq(Fact)
      /\ Len(SubSeq(ranking, 1, last)) = IF 1 <= last THEN last - 1 + 1 ELSE 0
      /\ \A i \in 1..(last - 1 + 1) : SubSeq(ranking, 1, last)[i] = ranking[1 + i - 1]
  <2> HIDE DEF last
  <2> QED BY <1>2, <1>5, <1>6, SubSeqProperties
<1>8. \A i \in 1..Len(SubSeq(ranking, 1, last)) :
        i \in 1..m /\ SubSeq(ranking, 1, last)[i] = ranking[i]
  <2> HIDE DEF last
  <2> QED BY <1>2, <1>5, <1>7
<1> QED BY <1>1, <1>7, <1>8

LEMMA RowType ==
  ASSUME rows \in Seq(Fact), rows # <<>>
  PROVE  /\ Row \in Fact /\ Row = rows[1]
         /\ Tail(rows) \in Seq(Fact) /\ Len(Tail(rows)) = Len(rows) - 1
         /\ \A i \in 1..Len(Tail(rows)) : i + 1 \in 1..Len(rows) /\ Tail(rows)[i] = rows[i + 1]
         /\ Len(rows) \in Nat \ {0}
         /\ AgentOf[Row] \in Agent
         /\ CaptureOf[Row] # NoCapture => CaptureOf[Row] \in Capture
BY HeadTailProperties DEF Row, Agent, Capture

LEMMA SelectTypeStep ==
  ASSUME SelectTypeOK, RoomLeft, SelectActs
  PROVE  SelectTypeOK' /\ RoomLeft'
<1> USE DEF SelectTypeOK, RoomLeft, At
<1>1. ASSUME NEW n \in 1..MaxK, NEW ranking \in Ranking, Rank(n, ranking)
      PROVE  SelectTypeOK' /\ RoomLeft'
  BY <1>1, RankedType DEF Rank
<1>2. CASE ReadParents
  BY <1>2, SelectionAssumption DEF ReadParents
<1>3. CASE Pass
  BY <1>3, RowType DEF Pass, Looking
<1>4. CASE PassAgent
  BY <1>4, RowType DEF PassAgent, Looking, CountSource, OfCapture
<1>5. CASE Keep
  <2>1. rows # <<>> /\ at = "select" /\ Len(kept) < k
    BY <1>5 DEF Keep, Looking
  <2>2. kept' \in Seq(Fact) /\ Len(kept') = Len(kept) + 1
    BY <1>5, <2>1, RowType DEF Keep
  <2>3. rows' \in Seq(Fact) /\ (rows' # <<>> => Len(kept) + 1 # k)
    BY <1>5, <2>1, RowType DEF Keep, RowsLeft
  <2>4. agentCount' \in [Agent -> Nat] /\ sourceCount' \in [Capture -> Nat]
    BY <1>5, <2>1, RowType DEF Keep, CountSource, OfCapture
  <2> QED BY <1>5, <2>1, <2>2, <2>3, <2>4 DEF Keep
<1>6. CASE Selected
  BY <1>6 DEF Selected
<1>7. CASE Forget
  BY <1>7, SelectionAssumption DEF Forget
<1>8. ASSUME NEW e \in Provenance, AddProvenance(e[1], e[2])
      PROVE  SelectTypeOK' /\ RoomLeft'
  BY <1>8, SelectionAssumption DEF AddProvenance
<1> QED
  BY <1>1, <1>2, <1>3, <1>4, <1>5, <1>6, <1>7, <1>8 DEF SelectActs

LEMMA RenderTypeStep ==
  ASSUME TypeOK, RoomLeft, RenderActs
  PROVE  TypeOK' /\ RoomLeft'
<1> USE DEF TypeOK, RoomLeft
<1>1. CASE ReadNeighbours
  BY <1>1 DEF ReadNeighbours, SelectTypeOK, At, SeenAtFirst, Kept, RangeOf, Node
<1>2. CASE PrintHit
  <2>1. Head(hits) \in Fact
    BY <1>2, HeadTailProperties DEF PrintHit
  <2> QED BY <1>2, <2>1 DEF PrintHit, selectVars, SelectTypeOK, Node
<1>3. CASE PrintNeighbour
  <2>1. Head(hits) \in Fact
    BY <1>3, HeadTailProperties DEF PrintNeighbour
  <2>2. \A n \in FirstOf(Left(Head(hits))) : n[1] \in Node
    BY DEF FirstOf, Left, Neighbours, FarEnd, Links
  <2> QED BY <1>3, <2>1, <2>2 DEF PrintNeighbour, selectVars, SelectTypeOK
<1>4. CASE NextHit
  BY <1>4, HeadTailProperties DEF NextHit, selectVars, SelectTypeOK
<1>5. ASSUME NEW e \in Relating, Relate(e) PROVE TypeOK' /\ RoomLeft'
  BY <1>5, SearchMemoryAssumption DEF Relate, selectVars, renderVars, SelectTypeOK
<1> QED BY <1>1, <1>2, <1>3, <1>4, <1>5 DEF RenderActs

LEMMA TypeAndRoom == Spec => [](TypeOK /\ RoomLeft)
<1>1. Init => TypeOK /\ RoomLeft
  BY SelectionAssumption
     DEF Init, SelectInit, TypeOK, SelectTypeOK, RoomLeft, At
<1>2. TypeOK /\ RoomLeft /\ [Next]_vars => (TypeOK /\ RoomLeft)'
  <2> SUFFICES ASSUME TypeOK, RoomLeft, [Next]_vars PROVE (TypeOK /\ RoomLeft)'
    OBVIOUS
  <2>1. CASE UNCHANGED vars
    BY <2>1 DEF vars, selectVars, renderVars, TypeOK, SelectTypeOK, RoomLeft
  <2>2. CASE RenderActs
    BY <2>2, RenderTypeStep
  <2>3. CASE SelectActs /\ UNCHANGED <<edges, renderVars>>
    <3>1. SelectTypeOK' /\ RoomLeft'
      BY <2>3, SelectTypeStep DEF TypeOK
    <3> QED BY <2>3, <3>1 DEF TypeOK, renderVars
  <2>4. CASE SelectActs /\ Return
    <3>1. SelectTypeOK' /\ RoomLeft'
      BY <2>4, SelectTypeStep DEF TypeOK
    <3> QED BY <2>4, <3>1 DEF TypeOK, Return
  <2> QED BY <2>1, <2>2, <2>3, <2>4, NextActs
<1> QED BY <1>1, <1>2, PTL DEF Spec

\* Every variable keeps its type: in particular no more than k rows are kept,
\* however the loop is left.
THEOREM TypeCorrect == Spec => []TypeOK
BY TypeAndRoom, PTL

-----------------------------------------------------------------------------
(* Each sub-agent's slots.                                                 *)

\* per_agent counts the slots of each agent's delegated facts.
Counted ==
  \A a \in Agent : agentCount[a] = Cardinality(SlotsOf(a)) /\ agentCount[a] <= MaxPerAgent

LEMMA SlotsAppend ==
  ASSUME NEW a \in Agent, kept \in Seq(Fact), NEW f \in Fact, kept' = Append(kept, f)
  PROVE  /\ IsFiniteSet(SlotsOf(a))
         /\ Len(kept) + 1 \notin SlotsOf(a)
         /\ SlotsOf(a)' = IF f \in Delegated /\ AgentOf[f] = a
                            THEN SlotsOf(a) \cup {Len(kept) + 1} ELSE SlotsOf(a)
<1>1. Len(kept) \in Nat
  OBVIOUS
<1>2. IsFiniteSet(1..Len(kept)) /\ SlotsOf(a) \in SUBSET (1..Len(kept))
  BY <1>1, FS_Interval DEF SlotsOf
<1>3. IsFiniteSet(SlotsOf(a))
  BY <1>2, FS_Subset
<1>4. /\ Len(kept') = Len(kept) + 1 /\ kept'[Len(kept) + 1] = f
      /\ \A i \in 1..Len(kept) : kept'[i] = kept[i]
  OBVIOUS
<1> QED BY <1>1, <1>2, <1>3, <1>4 DEF SlotsOf, Delegated

LEMMA NoSlots ==
  ASSUME kept = <<>>
  PROVE  \A a \in Agent : Cardinality(SlotsOf(a)) = 0
<1>1. \A a \in Agent : SlotsOf(a) = {}
  BY DEF SlotsOf
<1> QED BY <1>1, FS_EmptySet

LEMMA CountedStep ==
  ASSUME TypeOK, Counted, [Next]_vars
  PROVE  Counted'
<1>1. CASE Keep
  <2> SUFFICES ASSUME NEW a \in Agent
               PROVE  (agentCount[a] = Cardinality(SlotsOf(a)) /\ agentCount[a] <= MaxPerAgent)'
    BY DEF Counted
  <2>1. Row \in Fact /\ kept \in Seq(Fact) /\ kept' = Append(kept, Row) /\ AgentOf[Row] \in Agent
    BY <1>1, RowType DEF Keep, Looking, TypeOK, SelectTypeOK
  <2>2. /\ agentCount[a] = Cardinality(SlotsOf(a)) /\ agentCount[a] <= MaxPerAgent
        /\ agentCount[a] \in Nat /\ MaxPerAgent \in Nat
    BY SelectionAssumption DEF Counted, TypeOK, SelectTypeOK
  <2>3. /\ IsFiniteSet(SlotsOf(a)) /\ Len(kept) + 1 \notin SlotsOf(a)
        /\ SlotsOf(a)' = IF Row \in Delegated /\ AgentOf[Row] = a
                           THEN SlotsOf(a) \cup {Len(kept) + 1} ELSE SlotsOf(a)
    BY <2>1, SlotsAppend
  <2>4. Rationed(Row) <=> Row \in Delegated
    BY DEF Rationed, Delegated
  <2>5. CASE Row \in Delegated /\ AgentOf[Row] = a
    <3>1. Cardinality(SlotsOf(a)') = Cardinality(SlotsOf(a)) + 1
      BY <2>3, <2>5, FS_AddElement
    <3>2. agentCount'[a] = agentCount[a] + 1 /\ ~(agentCount[a] >= MaxPerAgent)
      BY <1>1, <2>1, <2>4, <2>5 DEF Keep, AgentFull, TypeOK, SelectTypeOK
    <3> QED BY <2>2, <3>1, <3>2
  <2>6. CASE ~(Row \in Delegated /\ AgentOf[Row] = a)
    <3>1. SlotsOf(a)' = SlotsOf(a)
      BY <2>3, <2>6
    <3>2. agentCount'[a] = agentCount[a]
      BY <1>1, <2>1, <2>4, <2>6 DEF Keep, TypeOK, SelectTypeOK
    <3> QED BY <2>2, <3>1, <3>2
  <2> QED BY <2>5, <2>6
<1>2. CASE Forget
  <2>1. kept' = <<>> /\ \A a \in Agent : agentCount'[a] = 0
    BY <1>2 DEF Forget
  <2>2. \A a \in Agent : Cardinality(SlotsOf(a)') = 0
    <3>1. \A a \in Agent : SlotsOf(a)' = {}
      BY <2>1 DEF SlotsOf
    <3> QED BY <3>1, FS_EmptySet
  <2> QED BY <2>1, <2>2, SelectionAssumption DEF Counted
<1>3. CASE UNCHANGED <<kept, agentCount>>
  BY <1>3 DEF Counted, SlotsOf
<1>4. UNCHANGED vars \/ RenderActs => UNCHANGED <<kept, agentCount>>
  BY DEF vars, selectVars, RenderActs, ReadNeighbours, PrintHit, PrintNeighbour, NextHit, Relate
<1>5. SelectActs => Keep \/ Forget \/ UNCHANGED <<kept, agentCount>>
  BY DEF SelectActs, Rank, ReadParents, Pass, PassAgent, Selected, AddProvenance
<1> QED BY <1>1, <1>2, <1>3, <1>4, <1>5, NextActs

\* No sub-agent has more slots than it is allowed, whatever is stored where,
\* and whichever cap was reached first.
THEOREM EveryVoiceCapped == Spec => []VoicesCapped
<1>1. Init => Counted
  BY NoSlots, SelectionAssumption DEF Init, SelectInit, Counted
<1>2. TypeOK /\ Counted /\ [Next]_vars => Counted'
  BY CountedStep
<1>3. Counted => VoicesCapped
  BY DEF Counted, VoicesCapped
<1> QED BY <1>1, <1>2, <1>3, TypeCorrect, PTL DEF Spec

-----------------------------------------------------------------------------
(* The rows that are kept.                                                 *)

\* A fact is one row, and a row is looked at once.
EachRowOnce ==
  /\ \A i, j \in 1..Len(rows) : rows[i] = rows[j] => i = j
  /\ \A i \in 1..Len(rows), j \in 1..Len(kept) : rows[i] # kept[j]

SelectionInv == EachRowOnce /\ NoRestatement

LEMMA SelectionInvStep ==
  ASSUME TypeOK, RoomLeft, SelectionInv, [Next]_vars
  PROVE  SelectionInv'
<1> USE DEF SelectionInv
<1>1. CASE UNCHANGED <<rows, kept, parents>>
  BY <1>1 DEF EachRowOnce, NoRestatement
<1>2. ASSUME NEW n \in 1..MaxK, NEW ranking \in Ranking, Rank(n, ranking) PROVE SelectionInv'
  <2>1. kept' = <<>> /\ rows' = SubSeq(ranking, 1, Smaller(Len(ranking), WindowSize(n)))
    BY <1>2 DEF Rank, RoomLeft
  <2> QED BY <2>1, RankedType DEF EachRowOnce, NoRestatement
<1>3. CASE ReadParents
  BY <1>3 DEF ReadParents, RoomLeft, EachRowOnce, NoRestatement
<1>4. CASE Pass \/ PassAgent
  <2>1. rows \in Seq(Fact) /\ rows # <<>> /\ rows' = Tail(rows) /\ UNCHANGED <<kept, parents>>
    BY <1>4 DEF Pass, PassAgent, Looking, TypeOK, SelectTypeOK
  <2>2. /\ Len(rows) \in Nat \ {0} /\ Len(rows') = Len(rows) - 1
        /\ \A i \in 1..Len(rows') : i + 1 \in 1..Len(rows) /\ rows'[i] = rows[i + 1]
    BY <2>1, RowType
  <2> QED BY <2>1, <2>2 DEF EachRowOnce, NoRestatement
<1>5. CASE Keep
  <2>1. /\ rows \in Seq(Fact) /\ rows # <<>> /\ kept \in Seq(Fact)
        /\ kept' = Append(kept, Row) /\ parents' = parents /\ ~Restates(Row)
        /\ rows' = <<>> \/ rows' = Tail(rows)
    BY <1>5 DEF Keep, Looking, RowsLeft, TypeOK, SelectTypeOK
  <2>2. /\ Row = rows[1] /\ Row \in Fact /\ Len(rows) \in Nat \ {0}
        /\ \A i \in 1..Len(Tail(rows)) : i + 1 \in 1..Len(rows) /\ Tail(rows)[i] = rows[i + 1]
    BY <2>1, RowType
  <2>3. /\ Len(kept) \in Nat /\ Len(kept') = Len(kept) + 1 /\ kept'[Len(kept) + 1] = Row
        /\ \A i \in 1..Len(kept) : kept'[i] = kept[i]
    BY <2>1, <2>2
  <2>4. \A j \in 1..Len(kept) : <<Row, kept[j]>> \notin parents /\ Row # kept[j]
    <3> SUFFICES ASSUME NEW j \in 1..Len(kept)
                 PROVE  <<Row, kept[j]>> \notin parents /\ Row # kept[j]
      OBVIOUS
    <3>1. kept[j] \in Kept
      BY DEF Kept, RangeOf
    <3>2. 1 \in 1..Len(rows)
      BY <2>2
    <3> QED BY <2>1, <2>2, <3>1, <3>2 DEF Restates, EachRowOnce
  <2>5. NoRestatement'
    <3> SUFFICES ASSUME NEW i \in 1..Len(kept'), NEW j \in 1..Len(kept'), j < i
                 PROVE  <<kept'[i], kept'[j]>> \notin parents /\ kept'[i] # kept'[j]
      BY <2>1 DEF NoRestatement
    <3>1. j \in 1..Len(kept) /\ kept'[j] = kept[j]
      BY <2>3
    <3>2. CASE i = Len(kept) + 1
      BY <2>3, <2>4, <3>1, <3>2
    <3>3. CASE i \in 1..Len(kept)
      BY <2>3, <3>1, <3>3 DEF NoRestatement
    <3> QED BY <2>3, <3>2, <3>3
  <2>6. EachRowOnce'
    <3>1. CASE rows' = <<>>
      BY <3>1 DEF EachRowOnce
    <3>2. CASE rows' = Tail(rows)
      <4>1. \A i \in 1..Len(rows') : rows'[i] # Row
        BY <2>2, <3>2 DEF EachRowOnce
      <4>2. Len(rows') \in Nat
        BY <2>1, <3>2, RowType
      <4>3. \A i, j \in 1..Len(rows') : rows'[i] = rows'[j] => i = j
        BY <2>2, <3>2, <4>2 DEF EachRowOnce
      <4> QED BY <2>2, <2>3, <3>2, <4>1, <4>3 DEF EachRowOnce
    <3> QED BY <2>1, <3>1, <3>2
  <2> QED BY <2>5, <2>6
<1>6. CASE Forget
  BY <1>6 DEF Forget, EachRowOnce, NoRestatement
<1>7. UNCHANGED vars \/ RenderActs => UNCHANGED <<rows, kept, parents>>
  BY DEF vars, selectVars, RenderActs, ReadNeighbours, PrintHit, PrintNeighbour, NextHit, Relate
<1>8. Selected \/ (\E e \in Provenance : AddProvenance(e[1], e[2])) =>
        UNCHANGED <<rows, kept, parents>>
  BY DEF Selected, AddProvenance
<1> QED
  BY <1>1, <1>2, <1>3, <1>4, <1>5, <1>6, <1>7, <1>8, NextActs DEF SelectActs

\* No row follows one that it was derived from, by the edges that were read -
\* and edges that are inserted meanwhile do not change what was read.
THEOREM NothingRestated == Spec => []NoRestatement
<1>1. Init => SelectionInv
  BY DEF Init, SelectInit, SelectionInv, EachRowOnce, NoRestatement
<1>2. TypeOK /\ RoomLeft /\ SelectionInv /\ [Next]_vars => SelectionInv'
  BY SelectionInvStep
<1>3. SelectionInv => NoRestatement
  BY DEF SelectionInv
<1> QED BY <1>1, <1>2, <1>3, TypeAndRoom, PTL DEF Spec

-----------------------------------------------------------------------------
(* The rows that are passed over.                                          *)

\* Why a row is passed over: each reason outlasts the turn it is found in.
PassedFor(f) ==
  \/ \E g \in Kept : <<f, g>> \in parents
  \/ f \in Delegated /\ Cardinality(SlotsOf(AgentOf[f])) = MaxPerAgent
  \/ perSource # 0 /\ CaptureOf[f] # NoCapture /\
     \E g \in (Kept \cup skipped) \ {f} : CaptureOf[g] = CaptureOf[f]

\* A capture with a count has a row that was looked at, kept or not.
CaptureCounted ==
  \A c \in Capture : sourceCount[c] = 0 \/ \E g \in Kept \cup skipped : CaptureOf[g] = c

PassedInv ==
  /\ at \in {"idle", "ranked"} => skipped = {}
  /\ \A i \in 1..Len(rows) : rows[i] \notin skipped
  /\ CaptureCounted
  /\ \A f \in skipped : PassedFor(f)

\* What a turn of the loop leaves of the rows was there before, without the
\* row that was looked at.
LEMMA TurnRows ==
  ASSUME TypeOK, EachRowOnce, Looking
  PROVE  /\ Row \in Fact /\ Row \notin Kept
         /\ \A i \in 1..Len(Tail(rows)) :
              Tail(rows)[i] # Row /\ \E j \in 1..Len(rows) : Tail(rows)[i] = rows[j]
         /\ \E j \in 1..Len(rows) : Row = rows[j]
<1>1. rows \in Seq(Fact) /\ rows # <<>>
  BY DEF Looking, TypeOK, SelectTypeOK
<1>2. /\ Row \in Fact /\ Row = rows[1] /\ 1 \in 1..Len(rows)
      /\ \A i \in 1..Len(Tail(rows)) : i + 1 \in 1..Len(rows) /\ Tail(rows)[i] = rows[i + 1]
      /\ Len(Tail(rows)) \in Nat
  BY <1>1, RowType
<1>3. Row \notin Kept
  BY <1>2 DEF EachRowOnce, Kept, RangeOf
<1>4. \A i \in 1..Len(Tail(rows)) : i + 1 # 1 /\ Tail(rows)[i] # Row
  BY <1>2 DEF EachRowOnce
<1> QED BY <1>2, <1>3, <1>4

\* A capture that has its slots has another row that was looked at.
LEMMA FullCapture ==
  ASSUME TypeOK, EachRowOnce, PassedInv, Looking, SourceFull(Row)
  PROVE  perSource # 0 /\ CaptureOf[Row] # NoCapture
         /\ \E g \in (Kept \cup skipped) \ {Row} : CaptureOf[g] = CaptureOf[Row]
<1>1. perSource # 0 /\ CaptureOf[Row] # NoCapture /\ sourceCount[CaptureOf[Row]] >= perSource
  BY DEF SourceFull, OfCapture
<1>2. CaptureOf[Row] \in Capture
  BY <1>1, RowType DEF Looking, TypeOK, SelectTypeOK
<1>3. perSource \in Nat /\ sourceCount[CaptureOf[Row]] \in Nat
  BY <1>2, SelectionAssumption DEF TypeOK, SelectTypeOK
<1>4. sourceCount[CaptureOf[Row]] # 0
  BY <1>1, <1>3
<1>5. Row \notin Kept /\ Row \notin skipped
  BY TurnRows DEF PassedInv
<1> QED BY <1>1, <1>2, <1>4, <1>5 DEF PassedInv, CaptureCounted

LEMMA PassedPass ==
  ASSUME TypeOK, EachRowOnce, Counted, PassedInv, Pass \/ PassAgent
  PROVE  PassedInv'
<1>1. /\ Looking /\ rows' = Tail(rows) /\ skipped' = skipped \cup {Row} /\ at' = at
      /\ UNCHANGED <<kept, parents, perSource>>
      /\ Restates(Row) \/ SourceFull(Row) \/ (~SourceFull(Row) /\ AgentFull(Row))
  BY DEF Pass, PassAgent
<1>2. Kept' = Kept /\ \A a \in Agent : SlotsOf(a)' = SlotsOf(a)
  BY <1>1 DEF Kept, RangeOf, SlotsOf
<1>3. rows \in Seq(Fact) /\ rows # <<>> /\ at = "select"
  BY <1>1 DEF Looking, TypeOK, SelectTypeOK
<1>4. \A f \in skipped : f \in Fact /\ AgentOf[f] \in Agent
  BY DEF TypeOK, SelectTypeOK, Agent
<1>5. \A i \in 1..Len(rows') : rows'[i] \notin skipped'
  BY <1>1, TurnRows DEF PassedInv
<1>6. CaptureCounted'
  <2>1. CASE UNCHANGED sourceCount
    BY <1>1, <1>2, <2>1 DEF PassedInv, CaptureCounted
  <2>2. CASE OfCapture(Row) /\ sourceCount' = [sourceCount EXCEPT ![CaptureOf[Row]] = @ + 1]
    <3>1. \A c \in Capture : c # CaptureOf[Row] => sourceCount'[c] = sourceCount[c]
      BY <2>2 DEF TypeOK, SelectTypeOK
    <3> QED BY <1>1, <1>2, <3>1 DEF PassedInv, CaptureCounted
  <2> QED BY <2>1, <2>2 DEF Pass, PassAgent, CountSource
<1>7. \A f \in skipped : PassedFor(f)'
  <2> SUFFICES ASSUME NEW f \in skipped PROVE PassedFor(f)'
    OBVIOUS
  <2>1. PassedFor(f)
    BY DEF PassedInv
  <2> QED BY <1>1, <1>2, <1>4, <2>1 DEF PassedFor
<1>8. ASSUME NEW f, f = Row PROVE PassedFor(f)'
  <2>1. CASE Restates(Row)
    BY <1>1, <1>2, <1>8, <2>1 DEF PassedFor, Restates
  <2>2. CASE SourceFull(Row)
    BY <1>1, <1>2, <1>8, <2>2, FullCapture DEF PassedFor
  <2>3. CASE AgentFull(Row)
    <3>1. Row \in Delegated /\ agentCount[AgentOf[Row]] >= MaxPerAgent
      BY <2>3 DEF AgentFull, Rationed, Delegated
    <3>2. AgentOf[Row] \in Agent
      BY <1>3, RowType
    <3>3. Cardinality(SlotsOf(AgentOf[Row])) = MaxPerAgent
      BY <3>1, <3>2, SelectionAssumption DEF Counted, TypeOK, SelectTypeOK
    <3> QED BY <1>2, <1>8, <3>1, <3>2, <3>3 DEF PassedFor
  <2> QED BY <1>1, <2>1, <2>2, <2>3
<1>9. \A f \in skipped' : PassedFor(f)'
  BY <1>1, <1>7, <1>8
<1> QED BY <1>1, <1>3, <1>5, <1>6, <1>9 DEF PassedInv

LEMMA PassedKeep ==
  ASSUME TypeOK, EachRowOnce, Counted, PassedInv, Keep
  PROVE  PassedInv'
<1>1. /\ Looking
      /\ rows' = <<>> \/ rows' = Tail(rows)
      /\ kept' = Append(kept, Row) /\ kept \in Seq(Fact) /\ ~AgentFull(Row)
      /\ UNCHANGED <<at, parents, perSource, skipped>>
  BY DEF Keep, RowsLeft, TypeOK, SelectTypeOK
<1>2. Row \in Fact /\ AgentOf[Row] \in Agent
  BY RowType DEF Keep, Looking, TypeOK, SelectTypeOK
<1>3. Kept' = Kept \cup {Row}
  <2>1. /\ Len(kept) \in Nat /\ Len(kept') = Len(kept) + 1 /\ kept'[Len(kept) + 1] = Row
        /\ \A i \in 1..Len(kept) : kept'[i] = kept[i]
    BY <1>1, <1>2
  <2> QED BY <2>1 DEF Kept, RangeOf
<1>4. \A i \in 1..Len(rows') : rows'[i] \notin skipped'
  <2>1. CASE rows' = <<>>
    BY <2>1
  <2>2. CASE rows' = Tail(rows)
    BY <1>1, <2>2, TurnRows DEF PassedInv
  <2> QED BY <1>1, <2>1, <2>2
<1>5. CaptureCounted'
  <2>1. \A c \in Capture : c = CaptureOf[Row] \/ sourceCount'[c] = sourceCount[c]
    BY DEF Keep, CountSource, TypeOK, SelectTypeOK
  <2> QED BY <1>1, <1>3, <2>1 DEF PassedInv, CaptureCounted
<1>6. ASSUME NEW f \in skipped PROVE PassedFor(f)'
  <2>1. f \in Fact /\ AgentOf[f] \in Agent /\ PassedFor(f)
    BY DEF PassedInv, TypeOK, SelectTypeOK, Agent
  <2>2. CASE f \in Delegated /\ Cardinality(SlotsOf(AgentOf[f])) = MaxPerAgent
    <3>1. agentCount[AgentOf[f]] = MaxPerAgent
      BY <2>1, <2>2 DEF Counted
    <3>2. ~(Row \in Delegated /\ AgentOf[Row] = AgentOf[f])
      BY <1>1, <3>1, SelectionAssumption DEF AgentFull, Rationed, Delegated
    <3>3. SlotsOf(AgentOf[f])' = SlotsOf(AgentOf[f])
      BY <1>1, <1>2, <2>1, <3>2, SlotsAppend
    <3> QED BY <2>2, <3>3 DEF PassedFor
  <2>3. CASE ~(f \in Delegated /\ Cardinality(SlotsOf(AgentOf[f])) = MaxPerAgent)
    BY <1>1, <1>3, <2>1, <2>3 DEF PassedFor
  <2> QED BY <2>2, <2>3
<1>7. at = "select"
  BY <1>1 DEF Looking
<1> QED BY <1>1, <1>4, <1>5, <1>6, <1>7 DEF PassedInv

LEMMA PassedInvStep ==
  ASSUME TypeOK, EachRowOnce, Counted, PassedInv, [Next]_vars
  PROVE  PassedInv'
<1>1. ASSUME UNCHANGED <<kept, parents, perSource, skipped, sourceCount>>,
             at' \in {"idle", "ranked"} => at \in {"idle", "ranked"},
             rows' = rows \/ skipped = {}
      PROVE  PassedInv'
  <2>1. Kept' = Kept /\ \A a : SlotsOf(a)' = SlotsOf(a)
    BY <1>1 DEF Kept, RangeOf, SlotsOf
  <2>2. CaptureCounted' /\ \A f \in skipped' : PassedFor(f)'
    BY <1>1, <2>1 DEF PassedInv, CaptureCounted, PassedFor
  <2> QED BY <1>1, <2>2 DEF PassedInv
<1>2. ASSUME NEW n \in 1..MaxK, NEW ranking \in Ranking, Rank(n, ranking) PROVE PassedInv'
  BY <1>1, <1>2 DEF Rank, PassedInv
<1>3. CASE ReadParents
  <2>1. skipped' = {} /\ UNCHANGED <<rows, kept, sourceCount>> /\ skipped = {}
    BY <1>3 DEF ReadParents, PassedInv
  <2> QED BY <2>1 DEF PassedInv, CaptureCounted, Kept, RangeOf
<1>4. CASE Forget
  BY <1>4 DEF Forget, PassedInv, CaptureCounted
<1>5. Selected \/ (\E e \in Provenance : AddProvenance(e[1], e[2])) \/ UNCHANGED vars => PassedInv'
  BY <1>1 DEF Selected, AddProvenance, vars, selectVars
<1>6. RenderActs => PassedInv'
  BY <1>1 DEF RenderActs, selectVars, ReadNeighbours, PrintHit, PrintNeighbour, NextHit, Relate
<1> QED
  BY <1>2, <1>3, <1>4, <1>5, <1>6, PassedPass, PassedKeep, NextActs DEF SelectActs

\* A slot that stays empty is one that no row passed over could have had: each
\* of them restates a row that is returned, or its sub-agent has all its slots,
\* or another row of its capture was let through before it.
THEOREM NoSlotWasted == Spec => []SlotsFilled
<1>1. Init => EachRowOnce /\ NoRestatement /\ Counted /\ PassedInv
  BY NoSlots, SelectionAssumption
     DEF Init, SelectInit, EachRowOnce, NoRestatement, Counted, PassedInv, CaptureCounted
<1>2. TypeOK /\ RoomLeft /\ (EachRowOnce /\ NoRestatement /\ Counted /\ PassedInv) /\ [Next]_vars
        => (EachRowOnce /\ NoRestatement /\ Counted /\ PassedInv)'
  BY CountedStep, PassedInvStep, SelectionInvStep DEF SelectionInv
<1>3. PassedInv => SlotsFilled
  BY DEF PassedInv, PassedFor, SlotsFilled
<1> QED BY <1>1, <1>2, <1>3, TypeAndRoom, PTL DEF Spec

-----------------------------------------------------------------------------
(* The text.                                                               *)

\* Only while it is printed is there text.  What has been printed is not to be
\* printed again, and a hit has no line but its own.
LineInv ==
  /\ at # "render" => lines = <<>>
  /\ at = "render" =>
       /\ Kept \subseteq seen /\ RangeOf(hits) \subseteq Kept
       /\ \A i \in 1..Len(lines) :
            lines[i][2] \in seen /\ (lines[i][2] \in Kept => lines[i][1] = lines[i][2])

TextInv == LineInv /\ ShownOnce

LEMMA PrintedOnce ==
  ASSUME TypeOK, TextInv, at = "render", hits # <<>>,
         NEW l \in Fact \X Node,
         \A i \in 1..Len(lines) : lines[i][2] # l[2],
         lines' = Append(lines, l), seen' = seen \cup {l[2]},
         l[2] \in Kept => l[1] = l[2],
         UNCHANGED <<at, kept, hits>>
  PROVE  TextInv'
<1>1. /\ Len(lines) \in Nat /\ Len(lines') = Len(lines) + 1 /\ lines'[Len(lines) + 1] = l
      /\ \A i \in 1..Len(lines) : lines'[i] = lines[i]
  BY DEF TypeOK
<1>2. Kept' = Kept /\ RangeOf(hits)' = RangeOf(hits)
  BY DEF Kept, RangeOf
<1>3. LineInv'
  BY <1>1, <1>2 DEF TextInv, LineInv
<1>4. ShownOnce'
  BY <1>1 DEF TextInv, ShownOnce
<1> QED BY <1>3, <1>4 DEF TextInv

LEMMA TextInvStep ==
  ASSUME TypeOK, TextInv, [Next]_vars
  PROVE  TextInv'
<1>1. CASE UNCHANGED <<at, kept, hits, lines, seen>>
  <2>1. Kept' = Kept /\ RangeOf(hits)' = RangeOf(hits)
    BY <1>1 DEF Kept, RangeOf
  <2>2. LineInv'
    BY <1>1, <2>1 DEF TextInv, LineInv
  <2>3. ShownOnce'
    BY <1>1 DEF TextInv, ShownOnce
  <2> QED BY <2>2, <2>3 DEF TextInv
<1>2. CASE ReadNeighbours
  BY <1>2 DEF ReadNeighbours, SeenAtFirst, TextInv, LineInv, ShownOnce, Kept
<1>3. CASE PrintHit
  <2>1. /\ at = "render" /\ hits # <<>> /\ ~Printed(Head(hits)) /\ UNCHANGED <<at, kept, hits, seen>>
        /\ lines' = Append(lines, <<Head(hits), Head(hits)>>)
    BY <1>3 DEF PrintHit, selectVars
  <2>2. Head(hits) \in Fact /\ Head(hits) \in Kept
    <3>1. hits \in Seq(Fact) /\ Head(hits) = hits[1] /\ 1 \in 1..Len(hits)
      BY <2>1 DEF TypeOK
    <3> QED BY <2>1, <3>1 DEF TextInv, LineInv, RangeOf
  <2>3. \A i \in 1..Len(lines) : lines[i][2] # Head(hits)
    BY <2>1, <2>2 DEF TextInv, LineInv, Printed
  <2>4. seen' = seen \cup {Head(hits)}
    BY <2>1, <2>2 DEF TextInv, LineInv
  <2> QED BY <2>1, <2>2, <2>3, <2>4, PrintedOnce DEF Node
<1>4. CASE PrintNeighbour
  <2>1. PICK n \in FirstOf(Left(Head(hits))) :
          /\ at = "render" /\ hits # <<>> /\ UNCHANGED <<at, kept, hits>>
          /\ lines' = Append(lines, <<Head(hits), n[1]>>) /\ seen' = seen \cup {n[1]}
    BY <1>4 DEF PrintNeighbour, selectVars
  <2>2. n[1] \in Node /\ n[1] \notin seen
    BY DEF FirstOf, Left, Neighbours, FarEnd, TypeOK, Links
  <2>3. Head(hits) \in Fact
    BY <2>1 DEF TypeOK
  <2>4. n[1] \notin Kept /\ \A i \in 1..Len(lines) : lines[i][2] # n[1]
    BY <2>1, <2>2 DEF TextInv, LineInv
  <2> QED BY <2>1, <2>2, <2>3, <2>4, PrintedOnce
<1>5. CASE NextHit
  <2>1. /\ at = "render" /\ hits \in Seq(Fact) /\ hits # <<>> /\ hits' = Tail(hits)
        /\ UNCHANGED <<at, kept, lines, seen>>
    BY <1>5 DEF NextHit, selectVars, TypeOK
  <2>2. RangeOf(hits') \subseteq RangeOf(hits)
    BY <2>1, HeadTailProperties DEF RangeOf
  <2> QED BY <2>1, <2>2 DEF TextInv, LineInv, ShownOnce, Kept
<1>6. CASE Return
  BY <1>6 DEF Return, Forget, TextInv, LineInv, ShownOnce
<1>7. CASE /\ SelectActs /\ UNCHANGED <<edges, renderVars>>
           /\ at = "render" => UNCHANGED <<at, kept>>
  <2>1. UNCHANGED <<hits, lines, seen>>
    BY <1>7 DEF renderVars
  <2>2. (at = "render" => UNCHANGED <<at, kept>>) /\ (at # "render" => at' # "render")
    BY <1>7 DEF SelectActs, Rank, ReadParents, Pass, PassAgent, Keep, Selected, Looking, Forget,
                AddProvenance
  <2> QED BY <1>1, <2>1, <2>2 DEF TextInv, LineInv, ShownOnce
<1>8. UNCHANGED vars \/ (\E e \in Relating : Relate(e)) => UNCHANGED <<at, kept, hits, lines, seen>>
  BY DEF vars, selectVars, renderVars, Relate
<1> QED BY <1>1, <1>2, <1>3, <1>4, <1>5, <1>6, <1>7, <1>8, NextActs DEF RenderActs

\* No fact is printed twice in one answer: not as a hit and as a neighbour, and
\* not as the neighbour of two hits.
THEOREM NothingShownTwice == Spec => []ShownOnce
<1>1. Init => TextInv
  BY DEF Init, SelectInit, TextInv, LineInv, ShownOnce
<1>2. TypeOK /\ TextInv /\ [Next]_vars => TextInv'
  BY TextInvStep
<1>3. TextInv => ShownOnce
  BY DEF TextInv
<1> QED BY <1>1, <1>2, <1>3, TypeCorrect, PTL DEF Spec

-----------------------------------------------------------------------------
(* The neighbours.                                                         *)

\* The edges to show are those that were read at the hits.
GraphRead ==
  graph = { e \in asRead : {e[1], e[2]} \cap Kept # {} /\ FarEnd(e) \in Readable }

\* A fact is not to be printed because it is a hit, or has been printed; and
\* what is printed comes after the line of its hit.
SeenForReason ==
  /\ seen \subseteq Kept \cup { lines[i][2] : i \in 1..Len(lines) }
  /\ \A f \in Kept : Printed(f) => \E i \in 1..Len(lines) : lines[i] = <<f, f>>

\* What is printed at a hit is at least as telling as what is not printed.
BestShown ==
  \A f \in Kept : \A n \in Neighbours(f) :
    n[1] \in seen \/ \A i \in ShownAt(f) :
      \E m \in Neighbours(f) : m[1] = lines[i][2] /\ Rank3[m[2]] <= Rank3[n[2]]

\* A hit gets no more neighbours than it may have; one that has been left has
\* that many, or none of its neighbours is left.
AllTold(f) == (\A n \in Neighbours(f) : n[1] \in seen) \/ Cardinality(ShownAt(f)) >= MAX_NEIGHBOURS

LeftWhenTold ==
  \A f \in Kept : /\ Cardinality(ShownAt(f)) <= MAX_NEIGHBOURS
                  /\ f \notin RangeOf(hits) => Printed(f) /\ AllTold(f)

ToldInv == at = "render" => GraphRead /\ SeenForReason /\ BestShown /\ LeftWhenTold

\* A line more is a neighbour more at the hit it is printed at.
LEMMA ShownAppend ==
  ASSUME lines \in Seq(Fact \X Node), NEW l \in Fact \X Node, lines' = Append(lines, l), NEW f
  PROVE  /\ Len(lines) \in Nat /\ Len(lines') = Len(lines) + 1 /\ lines'[Len(lines) + 1] = l
         /\ \A i \in 1..Len(lines) : lines'[i] = lines[i]
         /\ IsFiniteSet(ShownAt(f)) /\ Len(lines) + 1 \notin ShownAt(f)
         /\ ShownAt(f) \subseteq 1..Len(lines)
         /\ ShownAt(f)' = IF l[1] = f /\ l[2] # f
                           THEN ShownAt(f) \cup {Len(lines) + 1} ELSE ShownAt(f)
         /\ Printed(f)' = (Printed(f) \/ l[1] = f)
<1>1. /\ Len(lines) \in Nat /\ Len(lines') = Len(lines) + 1 /\ lines'[Len(lines) + 1] = l
      /\ \A i \in 1..Len(lines) : lines'[i] = lines[i]
  OBVIOUS
<1>2. IsFiniteSet(1..Len(lines)) /\ ShownAt(f) \in SUBSET (1..Len(lines))
  BY <1>1, FS_Interval DEF ShownAt
<1>3. Len(lines) + 1 \notin 1..Len(lines) /\ IsFiniteSet(ShownAt(f))
  BY <1>1, <1>2, FS_Subset
<1>4. ShownAt(f)' = IF l[1] = f /\ l[2] # f THEN ShownAt(f) \cup {Len(lines) + 1} ELSE ShownAt(f)
  BY <1>1 DEF ShownAt
<1>5. Printed(f)' = (Printed(f) \/ l[1] = f)
  <2>1. (Printed(f) \/ l[1] = f) => Printed(f)'
    BY <1>1 DEF Printed
  <2>2. ASSUME Printed(f)' PROVE Printed(f) \/ l[1] = f
    <3>1. PICK i \in 1..Len(lines') : lines'[i][1] = f
      BY <2>2 DEF Printed
    <3> QED BY <1>1, <3>1 DEF Printed
  <2>3. Printed(f)' \in BOOLEAN /\ Printed(f) \in BOOLEAN
    BY DEF Printed
  <2> QED BY <2>1, <2>2, <2>3
<1> QED BY <1>1, <1>2, <1>3, <1>4, <1>5

LEMMA ToldAtFirst ==
  ASSUME TypeOK, ReadNeighbours
  PROVE  ToldInv'
<1>1. /\ lines' = <<>> /\ Kept' = Kept /\ RangeOf(hits') = Kept /\ seen' = Kept
      /\ graph' = { e \in edges : {e[1], e[2]} \cap Kept # {} /\ FarEnd(e) \in Readable }
      /\ asRead' = edges
  BY DEF ReadNeighbours, Kept, RangeOf, SeenAtFirst
<1>2. \A f : ShownAt(f)' = {} /\ ~Printed(f)'
  BY <1>1 DEF ShownAt, Printed
<1>3. GraphRead'
  BY <1>1 DEF GraphRead, FarEnd
<1>4. SeenForReason'
  BY <1>1, <1>2 DEF SeenForReason
<1>5. BestShown'
  BY <1>2 DEF BestShown
<1>6. LeftWhenTold'
  BY <1>1, <1>2, FS_EmptySet DEF LeftWhenTold, MAX_NEIGHBOURS
<1> QED BY <1>3, <1>4, <1>5, <1>6 DEF ToldInv

LEMMA ToldHit ==
  ASSUME TypeOK, ToldInv, PrintHit
  PROVE  ToldInv'
<1>1. /\ at = "render" /\ hits \in Seq(Fact) /\ hits # <<>> /\ ~Printed(Head(hits))
      /\ lines' = Append(lines, <<Head(hits), Head(hits)>>)
      /\ UNCHANGED <<at, kept, hits, graph, asRead, seen>>
  BY DEF PrintHit, selectVars, TypeOK
<1>2. PICK h \in Fact : h = Head(hits)
  BY <1>1
<1>3. lines \in Seq(Fact \X Node) /\ <<h, h>> \in Fact \X Node /\ lines' = Append(lines, <<h, h>>)
  BY <1>1, <1>2 DEF TypeOK, Node
<1>4. /\ Len(lines) \in Nat /\ Len(lines') = Len(lines) + 1 /\ lines'[Len(lines) + 1] = <<h, h>>
      /\ \A i \in 1..Len(lines) : lines'[i] = lines[i]
      /\ \A f \in Kept : /\ ShownAt(f) \subseteq 1..Len(lines) /\ ShownAt(f)' = ShownAt(f)
                        /\ Printed(f)' = (Printed(f) \/ h = f)
  <2>1. \A f \in Kept : /\ ShownAt(f) \subseteq 1..Len(lines) /\ ShownAt(f)' = ShownAt(f)
                       /\ Printed(f)' = (Printed(f) \/ h = f)
    <3> SUFFICES ASSUME NEW f \in Kept
                 PROVE  /\ ShownAt(f) \subseteq 1..Len(lines) /\ ShownAt(f)' = ShownAt(f)
                        /\ Printed(f)' = (Printed(f) \/ h = f)
      OBVIOUS
    <3> QED BY <1>3, ShownAppend
  <2> QED BY <1>3, <2>1
<1>5. Kept' = Kept /\ RangeOf(hits)' = RangeOf(hits)
  BY <1>1 DEF Kept, RangeOf
<1>6. \A f : Neighbours(f)' = Neighbours(f)
  BY <1>1, <1>5 DEF Neighbours, FarEnd, Seed
<1>7. GraphRead /\ SeenForReason /\ BestShown /\ LeftWhenTold
  BY <1>1 DEF ToldInv
<1>8. GraphRead'
  BY <1>1, <1>5, <1>7 DEF GraphRead, FarEnd
<1>9. SeenForReason'
  <2>1. seen' \subseteq Kept' \cup { lines'[i][2] : i \in 1..Len(lines') }
    BY <1>1, <1>4, <1>5, <1>7 DEF SeenForReason
  <2>2. ASSUME NEW f \in Kept, Printed(f)' PROVE \E i \in 1..Len(lines') : lines'[i] = <<f, f>>
    <3>1. CASE f = h
      BY <1>4, <3>1
    <3>2. CASE f # h
      <4>1. PICK i \in 1..Len(lines) : lines[i] = <<f, f>>
        BY <1>4, <1>7, <2>2, <3>2 DEF SeenForReason
      <4>2. i \in 1..Len(lines') /\ lines'[i] = <<f, f>>
        BY <1>4, <4>1
      <4> QED BY <4>2
    <3> QED BY <3>1, <3>2
  <2> QED BY <1>5, <2>1, <2>2 DEF SeenForReason
<1>10. BestShown'
  BY <1>1, <1>4, <1>5, <1>6, <1>7 DEF BestShown
<1>11. LeftWhenTold'
  BY <1>1, <1>4, <1>5, <1>6, <1>7 DEF LeftWhenTold, AllTold
<1> QED BY <1>8, <1>9, <1>10, <1>11 DEF ToldInv

LEMMA ToldNeighbour ==
  ASSUME TypeOK, LineInv, ToldInv, PrintNeighbour
  PROVE  ToldInv'
<1>1. PICK n \in FirstOf(Left(Head(hits))) :
        /\ at = "render" /\ hits \in Seq(Fact) /\ hits # <<>> /\ Printed(Head(hits))
        /\ lines' = Append(lines, <<Head(hits), n[1]>>) /\ seen' = seen \cup {n[1]}
        /\ UNCHANGED <<at, kept, hits, graph, asRead>>
  BY DEF PrintNeighbour, selectVars, TypeOK
<1>2. PICK h \in Fact : h = Head(hits) /\ h \in RangeOf(hits)
  <2>1. Head(hits) = hits[1] /\ 1 \in 1..Len(hits) /\ Head(hits) \in Fact
    BY <1>1
  <2> QED BY <2>1 DEF RangeOf
<1>3. h \in Kept /\ h \in seen
  BY <1>1, <1>2 DEF LineInv
<1>4. /\ n \in Left(h) /\ n \in Neighbours(h) /\ n[1] \notin seen
      /\ ~(Cardinality(ShownAt(h)) >= MAX_NEIGHBOURS)
      /\ \A m \in Neighbours(h) : m[1] \notin seen => Rank3[n[2]] <= Rank3[m[2]]
  BY <1>1, <1>2 DEF FirstOf, Left
<1>5. n[1] \in Node
  BY <1>4 DEF Neighbours, FarEnd, TypeOK, Links
<1>6. lines \in Seq(Fact \X Node) /\ <<h, n[1]>> \in Fact \X Node /\ lines' = Append(lines, <<h, n[1]>>)
  BY <1>1, <1>2, <1>5 DEF TypeOK
<1>7. /\ Len(lines) \in Nat /\ Len(lines') = Len(lines) + 1 /\ lines'[Len(lines) + 1] = <<h, n[1]>>
      /\ \A i \in 1..Len(lines) : lines'[i] = lines[i]
  BY <1>6
<1>8. ASSUME NEW f \in Kept
       PROVE  /\ ShownAt(f) \subseteq 1..Len(lines) /\ IsFiniteSet(ShownAt(f))
              /\ Len(lines) + 1 \notin ShownAt(f)
              /\ ShownAt(f)' = IF h = f THEN ShownAt(f) \cup {Len(lines) + 1} ELSE ShownAt(f)
              /\ Printed(f)' = (Printed(f) \/ h = f)
  BY <1>3, <1>4, <1>6, ShownAppend
<1>9. Kept' = Kept /\ RangeOf(hits)' = RangeOf(hits)
  BY <1>1 DEF Kept, RangeOf
<1>10. \A f : Neighbours(f)' = Neighbours(f)
  BY <1>1, <1>9 DEF Neighbours, FarEnd, Seed
<1>11. GraphRead /\ SeenForReason /\ BestShown /\ LeftWhenTold
  BY <1>1 DEF ToldInv
<1>12. GraphRead'
  BY <1>1, <1>9, <1>11 DEF GraphRead, FarEnd
<1>13. SeenForReason'
  <2>1. seen' \subseteq Kept' \cup { lines'[i][2] : i \in 1..Len(lines') }
    BY <1>1, <1>7, <1>9, <1>11 DEF SeenForReason
  <2>2. ASSUME NEW f \in Kept, Printed(f)' PROVE \E i \in 1..Len(lines') : lines'[i] = <<f, f>>
    <3>1. Printed(f)
      BY <1>1, <1>2, <1>8, <2>2
    <3>2. PICK i \in 1..Len(lines) : lines[i] = <<f, f>>
      BY <1>11, <3>1 DEF SeenForReason
    <3>3. i \in 1..Len(lines') /\ lines'[i] = <<f, f>>
      BY <1>7, <3>2
    <3> QED BY <3>3
  <2> QED BY <1>9, <2>1, <2>2 DEF SeenForReason
<1>14. BestShown'
  <2> SUFFICES ASSUME NEW f \in Kept, NEW m \in Neighbours(f), m[1] \notin seen',
                      NEW i \in ShownAt(f)'
               PROVE  \E d \in Neighbours(f) : d[1] = lines'[i][2] /\ Rank3[d[2]] <= Rank3[m[2]]
    BY <1>9, <1>10 DEF BestShown
  <2>1. m[1] \notin seen
    BY <1>1
  <2>2. CASE i \in ShownAt(f)
    <3>1. i \in 1..Len(lines) /\ lines'[i] = lines[i]
      BY <1>7, <1>8, <2>2
    <3> QED BY <1>11, <2>1, <2>2, <3>1 DEF BestShown
  <2>3. CASE i = Len(lines) + 1 /\ f = h
    BY <1>4, <1>7, <2>1, <2>3
  <2> QED BY <1>8, <2>2, <2>3
<1>15. LeftWhenTold'
  <2> SUFFICES ASSUME NEW f \in Kept
               PROVE  /\ Cardinality(ShownAt(f)') <= MAX_NEIGHBOURS
                      /\ f \notin RangeOf(hits) => Printed(f)' /\ AllTold(f)'
    BY <1>9 DEF LeftWhenTold
  <2>1. CASE f = h
    <3>1. Cardinality(ShownAt(f)') = Cardinality(ShownAt(f)) + 1 /\ Cardinality(ShownAt(f)) \in Nat
      BY <1>8, <2>1, FS_AddElement, FS_CardinalityType
    <3> QED BY <1>2, <1>4, <2>1, <3>1 DEF MAX_NEIGHBOURS
  <2>2. CASE f # h
    <3>1. ShownAt(f)' = ShownAt(f) /\ (Printed(f) => Printed(f)')
      BY <1>8, <2>2
    <3> QED BY <1>1, <1>10, <1>11, <3>1 DEF LeftWhenTold, AllTold
  <2> QED BY <2>1, <2>2
<1> QED BY <1>12, <1>13, <1>14, <1>15 DEF ToldInv

LEMMA ToldNext ==
  ASSUME TypeOK, ToldInv, NextHit
  PROVE  ToldInv'
<1>1. /\ at = "render" /\ hits \in Seq(Fact) /\ hits # <<>> /\ Printed(Head(hits))
      /\ Left(Head(hits)) = {} /\ hits' = Tail(hits)
      /\ UNCHANGED <<at, kept, graph, asRead, lines, seen>>
  BY DEF NextHit, selectVars, TypeOK
<1>2. \A f : f \in RangeOf(hits) => f \in RangeOf(hits') \/ f = Head(hits)
  <2> SUFFICES ASSUME NEW i \in 1..Len(hits), i # 1 PROVE hits[i] \in RangeOf(hits')
    BY <1>1 DEF RangeOf
  <2>1. Len(hits') = Len(hits) - 1 /\ \A j \in 1..Len(hits') : hits'[j] = hits[j + 1]
    BY <1>1, HeadTailProperties
  <2>2. i - 1 \in 1..Len(hits') /\ hits'[i - 1] = hits[i]
    BY <1>1, <2>1
  <2> QED BY <2>2 DEF RangeOf
<1>3. AllTold(Head(hits))
  BY <1>1 DEF Left, AllTold
<1>4. Kept' = Kept /\ \A f : ShownAt(f)' = ShownAt(f) /\ (Printed(f)' <=> Printed(f))
  BY <1>1 DEF Kept, RangeOf, ShownAt, Printed
<1>5. \A f : Neighbours(f)' = Neighbours(f)
  BY <1>1, <1>4 DEF Neighbours, FarEnd, Seed
<1>6. GraphRead /\ SeenForReason /\ BestShown /\ LeftWhenTold
  BY <1>1 DEF ToldInv
<1>7. GraphRead' /\ SeenForReason'
  BY <1>1, <1>4, <1>6 DEF GraphRead, FarEnd, SeenForReason
<1>8. BestShown'
  BY <1>1, <1>4, <1>5, <1>6 DEF BestShown
<1>9. LeftWhenTold'
  BY <1>1, <1>2, <1>3, <1>4, <1>5, <1>6 DEF LeftWhenTold, AllTold
<1> QED BY <1>7, <1>8, <1>9 DEF ToldInv

LEMMA ToldInvStep ==
  ASSUME TypeOK, LineInv, ToldInv, [Next]_vars
  PROVE  ToldInv'
<1>1. ASSUME at' = "render" => at = "render" /\ UNCHANGED <<kept, hits, graph, asRead, lines, seen>>
      PROVE  ToldInv'
  <2> SUFFICES ASSUME at' = "render" PROVE (GraphRead /\ SeenForReason /\ BestShown /\ LeftWhenTold)'
    BY DEF ToldInv
  <2>1. at = "render" /\ UNCHANGED <<kept, hits, graph, asRead, lines, seen>>
    BY <1>1
  <2>2. Kept' = Kept /\ RangeOf(hits)' = RangeOf(hits)
        /\ \A f : ShownAt(f)' = ShownAt(f) /\ (Printed(f)' <=> Printed(f))
    BY <2>1 DEF Kept, RangeOf, ShownAt, Printed
  <2>3. \A f : Neighbours(f)' = Neighbours(f)
    BY <2>1, <2>2 DEF Neighbours, FarEnd, Seed
  <2>4. GraphRead' /\ SeenForReason'
    BY <2>1, <2>2 DEF ToldInv, GraphRead, FarEnd, SeenForReason
  <2>5. BestShown' /\ LeftWhenTold'
    BY <2>1, <2>2, <2>3 DEF ToldInv, BestShown, LeftWhenTold, AllTold
  <2> QED BY <2>4, <2>5
<1>2. CASE UNCHANGED vars \/ (\E e \in Relating : Relate(e))
  BY <1>1, <1>2 DEF vars, selectVars, renderVars, Relate
<1>3. CASE Return
  BY <1>1, <1>3 DEF Return, Forget
<1>4. CASE /\ SelectActs /\ UNCHANGED <<edges, renderVars>>
           /\ at = "render" => UNCHANGED <<at, kept>>
  <2>1. at # "render" => at' # "render"
    BY <1>4 DEF SelectActs, Rank, ReadParents, Pass, PassAgent, Keep, Selected, Looking, Forget,
                AddProvenance
  <2> QED BY <1>1, <1>4, <2>1 DEF renderVars
<1> QED
  BY <1>2, <1>3, <1>4, ToldAtFirst, ToldHit, ToldNeighbour, ToldNext, NextActs DEF RenderActs

\* When every hit has been printed, the invariant is the property.
LEMMA ToldAtLast ==
  ASSUME TypeOK, ToldInv
  PROVE  NeighboursTold
<1> SUFFICES ASSUME at = "render", hits = <<>>, NEW f \in Kept, NEW e \in asRead,
                    NEW far, far = IF e[1] = f THEN e[2] ELSE e[1],
                    f \in {e[1], e[2]}, e[3] \in Expand, far \in Readable \ Directive,
                    \A i \in 1..Len(lines) : lines[i][2] # far
             PROVE  Cardinality({ i \in ShownAt(f) : \E d \in asRead :
                                    /\ {d[1], d[2]} = {f, lines[i][2]}
                                    /\ Rank3[d[3]] <= Rank3[e[3]] }) = MAX_NEIGHBOURS
  BY DEF NeighboursTold
<1>1. GraphRead /\ SeenForReason /\ BestShown /\ LeftWhenTold
  BY DEF ToldInv
<1>2. RangeOf(hits) = {}
  BY DEF RangeOf
<1>3. far \notin Kept
  <2>1. \A g \in Kept : \E i \in 1..Len(lines) : lines[i][2] = g
    <3> SUFFICES ASSUME NEW g \in Kept PROVE \E i \in 1..Len(lines) : lines[i][2] = g
      OBVIOUS
    <3>1. PICK i \in 1..Len(lines) : lines[i] = <<g, g>>
      BY <1>1, <1>2 DEF LeftWhenTold, SeenForReason
    <3> QED BY <3>1
  <2> QED BY <2>1
<1>4. Seed(e) = f /\ FarEnd(e) = far
  BY <1>3 DEF Seed, FarEnd
<1>5. <<far, e[3]>> \in Neighbours(f)
  <2>1. e \in graph
    BY <1>1, <1>4 DEF GraphRead
  <2> QED BY <1>4, <2>1 DEF Neighbours
<1>6. far \notin seen
  BY <1>1, <1>3 DEF SeenForReason
<1>7. Cardinality(ShownAt(f)) >= MAX_NEIGHBOURS /\ Cardinality(ShownAt(f)) <= MAX_NEIGHBOURS
  BY <1>1, <1>2, <1>5, <1>6 DEF LeftWhenTold, AllTold
<1>8. ASSUME NEW i \in ShownAt(f)
      PROVE  \E d \in asRead : {d[1], d[2]} = {f, lines[i][2]} /\ Rank3[d[3]] <= Rank3[e[3]]
  <2>1. PICK m \in Neighbours(f) : m[1] = lines[i][2] /\ Rank3[m[2]] <= Rank3[e[3]]
    BY <1>1, <1>5, <1>6 DEF BestShown
  <2>2. PICK d \in graph : m = <<FarEnd(d), d[3]>> /\ Seed(d) = f
    BY DEF Neighbours
  <2>3. {d[1], d[2]} = {f, FarEnd(d)}
    BY <2>2 DEF Seed, FarEnd
  <2> QED BY <2>1, <2>2, <2>3 DEF TypeOK
<1>9. { i \in ShownAt(f) : \E d \in asRead : /\ {d[1], d[2]} = {f, lines[i][2]}
                                           /\ Rank3[d[3]] <= Rank3[e[3]] } = ShownAt(f)
  BY <1>8
<1>10. Cardinality(ShownAt(f)) \in Nat
  <2>1. Len(lines) \in Nat
    BY DEF TypeOK
  <2>2. IsFiniteSet(1..Len(lines)) /\ ShownAt(f) \in SUBSET (1..Len(lines))
    BY <2>1, FS_Interval DEF ShownAt
  <2> QED BY <2>2, FS_Subset, FS_CardinalityType
<1>11. Cardinality(ShownAt(f)) = MAX_NEIGHBOURS
  BY <1>7, <1>10 DEF MAX_NEIGHBOURS
<1> QED BY <1>9, <1>11

\* Every relation between a hit and a fact the caller may read, as the store
\* was when the edges were read, is told - or the hit shows as many others as
\* it may, each of a relation at least as telling.
THEOREM EveryRelationTold == Spec => []NeighboursTold
<1>1. Init => TextInv /\ ToldInv
  BY DEF Init, SelectInit, TextInv, LineInv, ShownOnce, ToldInv
<1>2. TypeOK /\ (TextInv /\ ToldInv) /\ [Next]_vars => (TextInv /\ ToldInv)'
  BY TextInvStep, ToldInvStep DEF TextInv
<1>3. TypeOK /\ TextInv /\ ToldInv => NeighboursTold
  BY ToldAtLast
<1> QED BY <1>1, <1>2, <1>3, TypeCorrect, PTL DEF Spec
=============================================================================
