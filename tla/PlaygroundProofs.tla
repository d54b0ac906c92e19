--------------------------- MODULE PlaygroundProofs ---------------------------
(***************************************************************************)
(* Proofs about Playground, for every set of chats and requests and any    *)
(* number of restarts.                                                     *)
(***************************************************************************)
EXTENDS Playground, SequenceTheorems, TLAPS

-----------------------------------------------------------------------------
(* Types.                                                                  *)

\* A request's two threads are threads, and not the same one.
LEMMA Threads ==
  ASSUME NEW q \in Request
  PROVE  RequestOf(q) \in Thread /\ WorkerOf(q) \in Thread /\ RequestOf(q) # WorkerOf(q)
BY DEF RequestOf, WorkerOf, Thread

\* There are two places in the order of the arms, and an arm at each.
LEMMA Arms ==
  /\ DOMAIN Order = 1..2 /\ Len(Order) = 2
  /\ \A i \in DOMAIN Order : Order[i] \in Arm
BY DEF Order, Arm

\* The empty table, which a broken file is loaded as, is a table of chats.
LEMMA NoChatsType == IsData(NoChats)
BY DEF IsData, NoChats

\* The steps that change neither a chat nor the file.
LEMMA SaveType ==
  ASSUME TypeOK, NEW x \in Thread, EndSave(x)
  PROVE  /\ disk'.state \in FileState /\ IsData(disk'.data)
         /\ DOMAIN image' = Thread /\ \A y \in Thread : IsData(image'[y])
         /\ saved' \subseteq Request
<1> USE DEF TypeOK
<1>1. IsData(image[x])
  OBVIOUS
<1>2. \A d \in Written(x) : d.state \in FileState /\ IsData(d.data)
  BY <1>1, NoChatsType DEF Written, Whole, NotWhole, FileState
<1>3. PostsIn(image[x]) \subseteq Request
  <2>1. \A c \in DOMAIN image[x] : image[x][c].turns \in Seq(Turn)
    BY <1>1 DEF IsData, Record
  <2>2. \A c \in DOMAIN image[x] : ToSet(image[x][c].turns) \subseteq Turn
    BY <2>1, ElementOfSeq DEF ToSet
  <2> QED BY <2>2 DEF PostsIn, TurnsIn, Turn
<1>4. DOMAIN image' = Thread /\ \A y \in Thread : IsData(image'[y])
  BY NoChatsType DEF EndSave
<1> QED BY <1>2, <1>3, <1>4 DEF EndSave

\* An answer is written into one turn of one chat.
LEMMA AnsweredType ==
  ASSUME NEW record \in Record, NEW i \in Nat, NEW a \in Arm
  PROVE  LET answered == [record EXCEPT !.turns[i].done = @ \cup {a}]
         IN  /\ answered \in Record
             /\ Len(answered.turns) = Len(record.turns)
             /\ \A j \in DOMAIN record.turns :
                  /\ answered.turns[j].n = record.turns[j].n
                  /\ answered.turns[j].req = record.turns[j].req
                  /\ answered.turns[j].done =
                       IF j = i THEN record.turns[j].done \cup {a} ELSE record.turns[j].done
<1> DEFINE turns == record.turns
           turn == [turns[i] EXCEPT !.done = @ \cup {a}]
           after == [turns EXCEPT ![i] = turn]
           answered == [record EXCEPT !.turns = after]
<1>1. turns \in Seq(Turn)
  BY DEF Record
<1>2. i \in DOMAIN turns => turns[i] \in Turn
  BY <1>1, ElementOfSeq
<1>3. i \in DOMAIN turns =>
        /\ turn \in Turn /\ turn.n = turns[i].n /\ turn.req = turns[i].req
        /\ turn.done = turns[i].done \cup {a}
  BY <1>2 DEF Turn
<1> HIDE DEF turn, turns
<1>4. /\ after \in Seq(Turn) /\ Len(after) = Len(turns)
      /\ \A j \in DOMAIN turns : after[j] = IF j = i THEN turn ELSE turns[j]
  <2>1. CASE i \in DOMAIN turns
    BY <1>1, <1>3, <2>1, ExceptSeq
  <2>2. CASE i \notin DOMAIN turns
    <3>1. after = turns
      BY <1>1, <2>2
    <3> QED BY <1>1, <2>2, <3>1
  <2> QED BY <2>1, <2>2
<1> HIDE DEF after
<1>5. answered \in Record /\ answered.turns = after
  BY <1>4 DEF Record
<1> HIDE DEF answered
<1>6. /\ answered \in Record
      /\ Len(answered.turns) = Len(turns)
      /\ \A j \in DOMAIN turns :
           /\ answered.turns[j].n = turns[j].n
           /\ answered.turns[j].req = turns[j].req
           /\ answered.turns[j].done = IF j = i THEN turns[j].done \cup {a} ELSE turns[j].done
  BY <1>3, <1>4, <1>5
<1> QED BY <1>6 DEF answered, after, turn, turns

\* Every step keeps the types.
LEMMA TypeStep ==
  ASSUME TypeOK, [Next]_vars
  PROVE  TypeOK'
<1> USE PlaygroundAssumption, Threads DEF TypeOK
<1> DEFINE Rest == UNCHANGED <<disk, image, at, arm, restarts, executions, saved>>
<1>1. ASSUME NEW q \in Request, CreateChat(q) PROVE TypeOK'
  <2>1. IsData(chats')
    BY <1>1 DEF CreateChat, IsData, Record
  <2>2. pc' \in [Thread -> Pc] /\ gpu' \in Request \cup {NoRequest}
    BY <1>1 DEF CreateChat, Growing, Pc
  <2> QED BY <1>1, <2>1, <2>2 DEF CreateChat
<1>2. ASSUME NEW q \in Request, Rename(q) PROVE TypeOK'
  <2>1. IsData(chats')
    BY <1>2 DEF Rename, IsData, Record
  <2>2. pc' \in [Thread -> Pc] /\ gpu' \in Request \cup {NoRequest}
    BY <1>2 DEF Rename, Growing, Goto, Pc
  <2> QED BY <1>2, <2>1, <2>2 DEF Rename
<1>3. ASSUME NEW q \in Request, CountTurns(q) PROVE TypeOK'
  <2>1. NextTurn(q) \in Nat
    BY <1>3 DEF CountTurns, NextTurn, IsData, Record
  <2> QED BY <1>3, <2>1 DEF CountTurns, Goto, Pc
<1>4. ASSUME NEW q \in Request, AppendTurn(q) PROVE TypeOK'
  <2>1. [req |-> q, n |-> at[q], done |-> {}] \in Turn
    BY DEF Turn
  <2>2. IsData(chats')
    <3> DEFINE c == ChatOf[q]
               turn == [req |-> q, n |-> at[q], done |-> {}]
               record == [chats[c] EXCEPT !.turns = Append(@, turn)]
    <3>1. chats' = [chats EXCEPT ![c] = record]
      BY <1>4 DEF AppendTurn
    <3>2. ASSUME c \in DOMAIN chats PROVE record \in Record
      <4>1. chats[c] \in Record
        BY <3>2 DEF IsData
      <4>2. Append(chats[c].turns, turn) \in Seq(Turn)
        BY <4>1, <2>1 DEF Record
      <4> HIDE DEF turn
      <4> QED BY <4>1, <4>2 DEF Record
    <3> HIDE DEF c, record
    <3> QED BY <3>1, <3>2 DEF IsData
  <2> QED BY <1>4, <2>2 DEF AppendTurn, Goto, Pc
<1>5. ASSUME NEW q \in Request, Schedule(q) PROVE TypeOK'
  BY <1>5 DEF Schedule, Pc, Order
<1>6. ASSUME NEW x \in Thread, BeginSave(x) PROVE TypeOK'
  <2>1. NotWhole("cut").state \in FileState /\ IsData(NotWhole("cut").data)
    BY NoChatsType DEF NotWhole, FileState
  <2>2. pc' \in [Thread -> Pc]
    BY <1>6 DEF BeginSave, Goto, Pc
  <2> QED BY <1>6, <2>1, <2>2 DEF BeginSave
<1>7. ASSUME NEW q \in Request, RequestSaved(q) PROVE TypeOK'
  <2>1. pc' \in [Thread -> Pc]
    BY <1>7 DEF RequestSaved, Goto, Pc
  <2> QED BY <1>7, <2>1, SaveType DEF RequestSaved
<1>8. ASSUME NEW q \in Request, NextArm(q) PROVE arm' \in [Request -> DOMAIN Order] /\ pc' \in [Thread -> Pc]
  <2>1. CASE arm[q] < Len(Order)
    <3>1. arm[q] \in 1..2 /\ Len(Order) = 2
      BY Arms
    <3>2. arm[q] + 1 \in 1..2
      BY <2>1, <3>1
    <3> DEFINE next == arm[q] + 1
    <3>3. next \in DOMAIN Order
      BY <3>2, Arms
    <3>4. arm' = [arm EXCEPT ![q] = next] /\ Goto(WorkerOf(q), "test")
      BY <1>8, <2>1 DEF NextArm
    <3> HIDE DEF next
    <3> QED BY <3>3, <3>4 DEF Goto, Pc
  <2>2. CASE ~(arm[q] < Len(Order))
    BY <1>8, <2>2 DEF NextArm, Goto, Pc
  <2> QED BY <2>1, <2>2
<1>9. ASSUME NEW q \in Request, TestArm(q) PROVE TypeOK'
  BY <1>9, <1>8 DEF TestArm, Goto, Pc
<1>10. ASSUME NEW q \in Request, TakeGpu(q) PROVE TypeOK'
  BY <1>10 DEF TakeGpu, Goto, Pc
<1>11. ASSUME NEW q \in Request, RunArm(q) PROVE TypeOK'
  <2>1. pc' \in [Thread -> Pc]
    BY <1>11 DEF RunArm, Goto, Pc
  <2>2. executions' \in [Request -> [Arm -> Nat]]
    <3> DEFINE req == TurnOf(q).req
               a == ArmOf(q)
    <3>1. executions' = [executions EXCEPT ![req][a] = @ + 1]
      BY <1>11 DEF RunArm
    <3> HIDE DEF req, a
    <3>2. CASE req \in Request
      <4>1. a \in Arm
        BY Arms DEF ArmOf, a
      <4>2. executions[req] \in [Arm -> Nat]
        BY <3>2
      <4>3. [executions[req] EXCEPT ![a] = @ + 1] \in [Arm -> Nat]
        BY <4>1, <4>2
      <4> QED BY <3>1, <4>3
    <3>3. CASE req \notin Request
      BY <3>1, <3>3
    <3> QED BY <3>2, <3>3
  <2> QED BY <1>11, <2>1, <2>2, SaveType DEF RunArm
<1>12. ASSUME NEW q \in Request, ArmAnswers(q) PROVE TypeOK'
  <2>1. ArmOf(q) \in Arm
    BY Arms DEF ArmOf
  <2>2. IsData(chats')
    <3> DEFINE c == ChatOf[q]
               i == at[q] + 1
               a == ArmOf(q)
               record == [chats[c] EXCEPT !.turns[i].done = @ \cup {a}]
    <3>1. chats' = [chats EXCEPT ![c] = record]
      BY <1>12 DEF ArmAnswers
    <3>2. i \in Nat /\ a \in Arm
      BY <2>1
    <3> HIDE DEF c, i, a
    <3>3. ASSUME c \in DOMAIN chats PROVE record \in Record
      <4>1. chats[c] \in Record
        BY <3>3 DEF IsData
      <4> QED BY <3>2, <4>1, AnsweredType
    <3> HIDE DEF record
    <3> QED BY <3>1, <3>3 DEF IsData
  <2>3. pc' \in [Thread -> Pc]
    BY <1>12 DEF ArmAnswers, Goto, Pc
  <2> QED BY <1>12, <2>2, <2>3 DEF ArmAnswers
<1>13. ASSUME NEW q \in Request, ReleaseGpu(q) PROVE TypeOK'
  BY <1>13, <1>8, SaveType DEF ReleaseGpu
<1>14. CASE Restart
  <2>1. IsData(Loaded)
    BY DEF Loaded
  <2>2. TurnsIn(Loaded) \subseteq Turn
    <3>1. \A c \in DOMAIN Loaded : ToSet(Loaded[c].turns) \subseteq Turn
      BY <2>1, ElementOfSeq DEF IsData, Record, ToSet
    <3> QED BY <3>1 DEF TurnsIn
  <2>3. at' \in [Request -> Nat]
    <3>1. ASSUME NEW q \in Request, \E t \in TurnsIn(Loaded) : t.req = q
          PROVE  (CHOOSE t \in TurnsIn(Loaded) : t.req = q).n \in Nat
      <4>1. (CHOOSE t \in TurnsIn(Loaded) : t.req = q) \in Turn
        BY <3>1, <2>2
      <4> QED BY <4>1 DEF Turn
    <3> QED BY <1>14, <3>1 DEF Restart
  <2>4. pc' \in [Thread -> Pc]
    BY <1>14 DEF Restart, Pc
  <2>5. executions' \in [Request -> [Arm -> Nat]]
    BY <1>14 DEF Restart
  <2> QED BY <1>14, <2>1, <2>3, <2>4, <2>5, NoChatsType DEF Restart, Order
<1>15. CASE UNCHANGED vars
  BY <1>15 DEF vars
<1> HIDE DEF TypeOK
<1> QED
  BY <1>1, <1>2, <1>3, <1>4, <1>5, <1>6, <1>7, <1>9, <1>10, <1>11, <1>12, <1>13, <1>14, <1>15
     DEF Next, RequestStep, WorkerStep

\* A server without chats or a file has the types.
LEMMA InitTyped == Init => TypeOK
BY PlaygroundAssumption, NoChatsType
   DEF Init, TypeOK, NotWhole, FileState, Pc, Order, Thread

\* Every variable of the server keeps its type: what is in _chats, on its way
\* into the file, or in the file and loadable, is a table of chats and turns.
THEOREM TypeCorrect == Spec => []TypeOK
<1>1. Init => TypeOK
  BY InitTyped
<1>2. TypeOK /\ [Next]_vars => TypeOK'
  BY TypeStep
<1> QED BY <1>1, <1>2, PTL DEF Spec

-----------------------------------------------------------------------------
(* The number of a turn.                                                   *)

IsIndexed(d) == \A c \in DOMAIN d : \A i \in DOMAIN d[c].turns : d[c].turns[i].n = i - 1

\* A post between counting the turns and appending its own is the only one in
\* its chat, and the count still holds.
CountHolds ==
  \A q \in Request :
    pc[RequestOf(q)] = "append" =>
      /\ ChatOf[q] \in DOMAIN chats /\ at[q] = Len(chats[ChatOf[q]].turns)
      /\ \A p \in Request : pc[RequestOf(p)] = "append" /\ ChatOf[p] = ChatOf[q] => p = q

\* So are the chats on their way to the file, and those it will be loaded from.
IndexInv ==
  /\ IsIndexed(chats) /\ IsIndexed(disk.data) /\ \A x \in Thread : IsIndexed(image[x])
  /\ CountHolds

\* No step but those of the chats' own and a restart touches what CountHolds
\* is about: in every other, a thread goes on to a step that is not the append.
LEMMA CountFramed ==
  ASSUME CountHolds, UNCHANGED <<chats, at>>,
         \A q \in Request : pc'[RequestOf(q)] = "append" => pc[RequestOf(q)] = "append"
  PROVE  CountHolds'
BY DEF CountHolds

\* A save puts nothing into the file but a dump, in which turns are numbered.
LEMMA SaveIndexed ==
  ASSUME TypeOK, IndexInv, NEW x \in Thread, EndSave(x)
  PROVE  IsIndexed(disk'.data) /\ \A y \in Thread : IsIndexed(image'[y])
<1>1. IsIndexed(NoChats)
  BY DEF IsIndexed, NoChats
<1>2. \A d \in Written(x) : IsIndexed(d.data)
  BY <1>1 DEF IndexInv, Written, Whole, NotWhole
<1> QED BY <1>1, <1>2 DEF EndSave, IndexInv, TypeOK

\* Every step keeps the turns numbered, and the counts valid.
LEMMA IndexStep ==
  ASSUME OneAtATime, TypeOK, IndexInv, [Next]_vars
  PROVE  IndexInv'
<1> USE PlaygroundAssumption, Threads DEF IndexInv
<1> DEFINE Appending(q) == pc[RequestOf(q)] = "append"
<1>1. ASSUME NEW q \in Request, CreateChat(q) PROVE IndexInv'
  <2>1. IsIndexed(chats')
    BY <1>1 DEF CreateChat, IsIndexed
  <2>2. \A p \in Request : Appending(p)' => Appending(p)
    BY <1>1 DEF CreateChat, Growing, TypeOK
  <2>3. \A c \in DOMAIN chats : c \in DOMAIN chats' /\ chats'[c] = chats[c]
    BY <1>1 DEF CreateChat
  <2>4. CountHolds'
    BY <1>1, <2>2, <2>3 DEF CreateChat, CountHolds
  <2> QED BY <1>1, <2>1, <2>4 DEF CreateChat
<1>2. ASSUME NEW q \in Request, Rename(q) PROVE IndexInv'
  <2>1. DOMAIN chats' = DOMAIN chats /\ \A c \in DOMAIN chats : chats'[c].turns = chats[c].turns
    BY <1>2 DEF Rename, TypeOK, IsData, Record
  <2>2. \A p \in Request : Appending(p)' => Appending(p)
    BY <1>2 DEF Rename, Growing, Goto, TypeOK
  <2>3. CountHolds'
    BY <1>2, <2>1, <2>2 DEF Rename, CountHolds
  <2> QED BY <1>2, <2>1, <2>3 DEF Rename, IsIndexed
<1>3. ASSUME NEW q \in Request, CountTurns(q) PROVE IndexInv'
  <2>1. \A p \in Request : Appending(p)' => p = q \/ (Appending(p) /\ ChatOf[p] # ChatOf[q])
    <3>1. ASSUME NEW p \in Request, Appending(p)', p # q
          PROVE  Appending(p) /\ ChatOf[p] # ChatOf[q]
      <4>1. RequestOf(p) # RequestOf(q)
        BY <3>1 DEF RequestOf
      <4>2. Appending(p)
        BY <1>3, <3>1, <4>1 DEF CountTurns, Goto, TypeOK
      <4>3. ChatOf[p] = ChatOf[q] => pc[RequestOf(p)] \notin {"append", "save", "write", "schedule"}
        BY <1>3 DEF CountTurns
      <4> QED BY <4>2, <4>3
    <3> QED BY <3>1
  <2>2. at'[q] = Len(chats[ChatOf[q]].turns) /\ \A p \in Request : p # q => at'[p] = at[p]
    BY <1>3 DEF CountTurns, NextTurn, TypeOK
  <2>3. CountHolds'
    BY <1>3, <2>1, <2>2 DEF CountTurns, CountHolds
  <2> QED BY <1>3, <2>3 DEF CountTurns
<1>4. ASSUME NEW q \in Request, AppendTurn(q) PROVE IndexInv'
  <2> DEFINE c == ChatOf[q]
             turns == chats[c].turns
             turn == [req |-> q, n |-> at[q], done |-> {}]
  <2>1. c \in DOMAIN chats /\ at[q] = Len(turns)
    BY <1>4 DEF AppendTurn, CountHolds
  <2>2. turns \in Seq(Turn) /\ turn \in Turn
    BY <2>1 DEF TypeOK, IsData, Record, Turn
  <2>3. /\ DOMAIN chats' = DOMAIN chats /\ chats'[c].turns = Append(turns, turn)
        /\ \A d \in DOMAIN chats : d # c => chats'[d] = chats[d]
    BY <1>4, <2>1 DEF AppendTurn, TypeOK, IsData, Record
  <2>4. \A i \in DOMAIN Append(turns, turn) : Append(turns, turn)[i].n = i - 1
    <3>1. \A i \in 1..Len(turns) : turns[i].n = i - 1
      BY <2>1, <2>2 DEF IsIndexed
    <3>2. turn.n = Len(turns) /\ Len(turns) \in Nat
      BY <2>1, <2>2
    <3> HIDE DEF turn, turns
    <3> QED BY <2>2, <3>1, <3>2, AppendProperties
  <2>5. IsIndexed(chats')
    BY <2>3, <2>4 DEF IsIndexed
  <2>6. \A p \in Request : Appending(p)' => Appending(p) /\ ChatOf[p] # c
    BY <1>4 DEF AppendTurn, Goto, RequestOf, CountHolds, TypeOK
  <2>7. CountHolds'
    BY <1>4, <2>3, <2>6 DEF AppendTurn, CountHolds
  <2> QED BY <1>4, <2>5, <2>7 DEF AppendTurn
<1>5. ASSUME NEW q \in Request, Schedule(q) PROVE IndexInv'
  <2>1. \A p \in Request : Appending(p)' => Appending(p)
    BY <1>5 DEF Schedule, TypeOK
  <2> QED BY <1>5, <2>1, CountFramed DEF Schedule
<1>6. ASSUME NEW x \in Thread, BeginSave(x) PROVE IndexInv'
  <2>1. IsIndexed(NotWhole("cut").data)
    BY DEF NotWhole, IsIndexed, NoChats
  <2>2. \A p \in Request : Appending(p)' => Appending(p)
    BY <1>6 DEF BeginSave, Goto, TypeOK
  <2>3. CountHolds'
    BY <1>6, <2>2, CountFramed DEF BeginSave
  <2> QED BY <1>6, <2>1, <2>3 DEF BeginSave, TypeOK
<1>7. ASSUME NEW q \in Request, RequestSaved(q) PROVE IndexInv'
  <2>1. \A p \in Request : Appending(p)' => Appending(p)
    BY <1>7 DEF RequestSaved, Goto, TypeOK
  <2>2. CountHolds'
    BY <1>7, <2>1, CountFramed DEF RequestSaved
  <2> QED BY <1>7, <2>2, SaveIndexed DEF RequestSaved
<1>8. ASSUME NEW q \in Request, NextArm(q) PROVE \A p \in Request : Appending(p)' => Appending(p)
  BY <1>8 DEF NextArm, Goto, TypeOK
<1>9. ASSUME NEW q \in Request, TestArm(q) PROVE IndexInv'
  <2>1. \A p \in Request : Appending(p)' => Appending(p)
    BY <1>9, <1>8 DEF TestArm, Goto, TypeOK
  <2> QED BY <1>9, <2>1, CountFramed DEF TestArm
<1>10. ASSUME NEW q \in Request, TakeGpu(q) PROVE IndexInv'
  <2>1. \A p \in Request : Appending(p)' => Appending(p)
    BY <1>10 DEF TakeGpu, Goto, TypeOK
  <2> QED BY <1>10, <2>1, CountFramed DEF TakeGpu
<1>11. ASSUME NEW q \in Request, RunArm(q) PROVE IndexInv'
  <2>1. \A p \in Request : Appending(p)' => Appending(p)
    BY <1>11 DEF RunArm, Goto, TypeOK
  <2>2. CountHolds'
    BY <1>11, <2>1, CountFramed DEF RunArm
  <2> QED BY <1>11, <2>2, SaveIndexed DEF RunArm
<1>12. ASSUME NEW q \in Request, ArmAnswers(q) PROVE IndexInv'
  <2> DEFINE c == ChatOf[q]
             i == at[q] + 1
             a == ArmOf(q)
             record == [chats[c] EXCEPT !.turns[i].done = @ \cup {a}]
  <2>1. chats' = [chats EXCEPT ![c] = record]
    BY <1>12 DEF ArmAnswers
  <2>2. i \in Nat /\ a \in Arm
    BY Arms DEF ArmOf, TypeOK
  <2> HIDE DEF c, i, a
  <2>3. ASSUME c \in DOMAIN chats
        PROVE  /\ record \in Record /\ Len(record.turns) = Len(chats[c].turns)
               /\ \A j \in DOMAIN chats[c].turns : record.turns[j].n = chats[c].turns[j].n
    <3>1. chats[c] \in Record
      BY <2>3 DEF TypeOK, IsData
    <3>2. /\ record \in Record
          /\ Len(record.turns) = Len(chats[c].turns)
          /\ \A j \in DOMAIN chats[c].turns :
               /\ record.turns[j].n = chats[c].turns[j].n
               /\ record.turns[j].req = chats[c].turns[j].req
               /\ record.turns[j].done =
                    IF j = i THEN chats[c].turns[j].done \cup {a} ELSE chats[c].turns[j].done
      BY <2>2, <3>1, AnsweredType
    <3> HIDE DEF record
    <3> QED BY <3>2
  <2> HIDE DEF record
  <2>4. /\ DOMAIN chats' = DOMAIN chats
        /\ \A d \in DOMAIN chats :
             /\ chats'[d] \in Record /\ chats[d] \in Record
             /\ Len(chats'[d].turns) = Len(chats[d].turns)
             /\ \A j \in DOMAIN chats[d].turns : chats'[d].turns[j].n = chats[d].turns[j].n
    BY <2>1, <2>3 DEF TypeOK, IsData
  <2>5. \A d \in DOMAIN chats : DOMAIN chats'[d].turns = DOMAIN chats[d].turns
    BY <2>4 DEF Record
  <2>6. IsIndexed(chats')
    BY <2>4, <2>5 DEF IsIndexed
  <2>7. \A p \in Request : Appending(p)' => Appending(p)
    BY <1>12 DEF ArmAnswers, Goto, TypeOK
  <2>8. CountHolds'
    BY <1>12, <2>4, <2>7 DEF ArmAnswers, CountHolds
  <2> QED BY <1>12, <2>6, <2>8 DEF ArmAnswers
<1>13. ASSUME NEW q \in Request, ReleaseGpu(q) PROVE IndexInv'
  <2>1. CountHolds'
    BY <1>13, <1>8, CountFramed DEF ReleaseGpu
  <2> QED BY <1>13, <2>1, SaveIndexed DEF ReleaseGpu
<1>14. CASE Restart
  <2>1. \A p \in Request : ~Appending(p)'
    BY <1>14 DEF Restart, RequestOf
  <2>2. IsIndexed(NoChats)
    BY DEF IsIndexed, NoChats
  <2> QED BY <1>14, <2>1, <2>2 DEF Restart, Loaded, CountHolds
<1>15. CASE UNCHANGED vars
  BY <1>15, CountFramed DEF vars
<1> HIDE DEF IndexInv
<1> QED
  BY <1>1, <1>2, <1>3, <1>4, <1>5, <1>6, <1>7, <1>9, <1>10, <1>11, <1>12, <1>13, <1>14, <1>15
     DEF Next, RequestStep, WorkerStep

\* A server without chats has no turn with a wrong number.
LEMMA InitIndexed == Init => IndexInv
<1> SUFFICES ASSUME Init PROVE IndexInv
  OBVIOUS
<1>1. IsIndexed(NoChats)
  BY DEF IsIndexed, NoChats
<1>2. \A q \in Request : pc[RequestOf(q)] # "append"
  <2>1. \A q \in Request : RequestOf(q)[2] = "request"
    BY DEF RequestOf
  <2> QED BY <2>1, Threads DEF Init
<1> QED BY <1>1, <1>2 DEF Init, NotWhole, IndexInv, CountHolds

\* As long as a chat's messages are posted one after the other, a turn's number
\* is its position, whatever else runs, fails or is restarted.
THEOREM TurnsNumbered == OneAtATime /\ Spec => []IndexedByN
<1> SUFFICES ASSUME OneAtATime PROVE Spec => []IndexedByN
  OBVIOUS
<1>1. Init => IndexInv
  BY InitIndexed
<1>2. TypeOK /\ IndexInv /\ [Next]_vars => IndexInv'
  BY IndexStep
<1>3. IndexInv => IndexedByN
  BY DEF IndexInv, IsIndexed, IndexedByN
<1> QED BY <1>1, <1>2, <1>3, TypeCorrect, PTL DEF Spec

-----------------------------------------------------------------------------
(* What a step does to the turns.                                          *)

Position(d, c, i) == c \in DOMAIN d /\ i \in DOMAIN d[c].turns

\* A turn that is there stays where it is, and stays that of its request.
TurnsStay ==
  \A c, i : Position(chats, c, i) =>
    Position(chats', c, i) /\ chats'[c].turns[i].req = chats[c].turns[i].req

\* A turn that was not there is the one that a post has appended.
NewTurn(c, i) ==
  \E q \in Request :
    /\ AppendTurn(q) /\ c = ChatOf[q] /\ i = at[q] + 1
    /\ chats'[c].turns[i] = [req |-> q, n |-> at[q], done |-> {}]

\* An answer that was not there is the one that a worker has written.
AnswerKept(c, i) == chats'[c].turns[i].done = chats[c].turns[i].done
NewAnswer(c, i) ==
  \E q \in Request :
    /\ ArmAnswers(q) /\ c = ChatOf[q] /\ i = at[q] + 1
    /\ chats'[c].turns[i].done = chats[c].turns[i].done \cup {ArmOf(q)}

TurnsMove ==
  /\ TurnsStay
  /\ \A c, i : Position(chats', c, i) => Position(chats, c, i) \/ NewTurn(c, i)
  /\ \A c, i : Position(chats, c, i) => AnswerKept(c, i) \/ NewAnswer(c, i)

\* A step that leaves every turn as it is moves the turns as TurnsMove allows.
LEMMA TurnsUnchanged ==
  ASSUME \A c, i : Position(chats', c, i) <=> Position(chats, c, i),
         \A c, i : Position(chats, c, i) => chats'[c].turns[i] = chats[c].turns[i]
  PROVE  TurnsMove
BY DEF TurnsMove, TurnsStay, AnswerKept

\* So does every step but a restart.
LEMMA TurnsStep ==
  ASSUME TypeOK, CountHolds, [Next]_vars, ~Restart
  PROVE  TurnsMove
<1> USE PlaygroundAssumption
<1>1. ASSUME NEW q \in Request, CreateChat(q) PROVE TurnsMove
  <2>1. \A c, i : Position(chats', c, i) <=> Position(chats, c, i)
    BY <1>1 DEF CreateChat, Position
  <2>2. \A c, i : Position(chats, c, i) => chats'[c].turns[i] = chats[c].turns[i]
    BY <1>1 DEF CreateChat, Position
  <2> QED BY <2>1, <2>2, TurnsUnchanged
<1>2. ASSUME NEW q \in Request, Rename(q) PROVE TurnsMove
  <2>1. DOMAIN chats' = DOMAIN chats /\ \A c \in DOMAIN chats : chats'[c].turns = chats[c].turns
    BY <1>2 DEF Rename, TypeOK, IsData, Record
  <2> QED BY <2>1, TurnsUnchanged DEF Position
<1>3. ASSUME NEW q \in Request, AppendTurn(q) PROVE TurnsMove
  <2> DEFINE c == ChatOf[q]
             turns == chats[c].turns
             turn == [req |-> q, n |-> at[q], done |-> {}]
  <2>1. c \in DOMAIN chats /\ at[q] = Len(turns)
    BY <1>3, Threads DEF AppendTurn, CountHolds
  <2>2. turns \in Seq(Turn) /\ turn \in Turn
    BY <2>1 DEF TypeOK, IsData, Record, Turn
  <2>3. /\ DOMAIN chats' = DOMAIN chats /\ chats'[c].turns = Append(turns, turn)
        /\ \A d \in DOMAIN chats : d # c => chats'[d] = chats[d]
    BY <1>3, <2>1 DEF AppendTurn, TypeOK, IsData, Record
  <2>4. /\ DOMAIN Append(turns, turn) = DOMAIN turns \cup {Len(turns) + 1}
        /\ \A i \in DOMAIN turns : Append(turns, turn)[i] = turns[i]
        /\ Append(turns, turn)[Len(turns) + 1] = turn
    <3> HIDE DEF turn, turns
    <3>1. /\ DOMAIN turns = 1..Len(turns) /\ Len(turns) \in Nat
          /\ DOMAIN Append(turns, turn) = 1..(Len(turns) + 1)
      BY <2>2, AppendProperties, LenProperties
    <3> QED BY <2>2, <3>1, AppendProperties
  <2>5. NewTurn(c, Len(turns) + 1)
    BY <1>3, <2>1, <2>3, <2>4 DEF NewTurn
  <2> HIDE DEF turn
  <2>6. \A d, i : Position(chats, d, i) => Position(chats', d, i) /\ chats'[d].turns[i] = chats[d].turns[i]
    BY <2>3, <2>4 DEF Position
  <2>7. \A d, i : Position(chats', d, i) => Position(chats, d, i) \/ (d = c /\ i = Len(turns) + 1)
    BY <2>3, <2>4 DEF Position
  <2> QED BY <2>5, <2>6, <2>7 DEF TurnsMove, TurnsStay, AnswerKept
<1>4. ASSUME NEW q \in Request, ArmAnswers(q) PROVE TurnsMove
  <2> DEFINE c == ChatOf[q]
             i == at[q] + 1
             a == ArmOf(q)
             record == [chats[c] EXCEPT !.turns[i].done = @ \cup {a}]
  <2>1. chats' = [chats EXCEPT ![c] = record]
    BY <1>4 DEF ArmAnswers
  <2>2. i \in Nat /\ a \in Arm
    BY Arms DEF ArmOf, TypeOK
  <2>3. \A d, j : d = c /\ j = i => \/ chats'[d].turns[j].done # chats[d].turns[j].done \cup {a}
                                    \/ NewAnswer(d, j)
    BY <1>4 DEF NewAnswer
  <2> HIDE DEF c, i, a
  <2>4. ASSUME c \in DOMAIN chats
        PROVE  /\ record \in Record
               /\ Len(record.turns) = Len(chats[c].turns)
               /\ \A j \in DOMAIN chats[c].turns :
                    /\ record.turns[j].n = chats[c].turns[j].n
                    /\ record.turns[j].req = chats[c].turns[j].req
                    /\ record.turns[j].done =
                         IF j = i THEN chats[c].turns[j].done \cup {a} ELSE chats[c].turns[j].done
    <3>1. chats[c] \in Record
      BY <2>4 DEF TypeOK, IsData
    <3> QED BY <2>2, <3>1, AnsweredType
  <2> HIDE DEF record
  <2>5. /\ DOMAIN chats' = DOMAIN chats
        /\ \A d \in DOMAIN chats : chats'[d] = IF d = c THEN record ELSE chats[d]
    BY <2>1
  <2>6. c \in DOMAIN chats => DOMAIN record.turns = DOMAIN chats[c].turns
    BY <2>4 DEF TypeOK, IsData, Record
  <2>7. \A d, j : Position(chats', d, j) <=> Position(chats, d, j)
    BY <2>5, <2>6 DEF Position
  <2>8. \A d, j : Position(chats, d, j) => chats'[d].turns[j].req = chats[d].turns[j].req
    BY <2>4, <2>5 DEF Position
  <2>9. ASSUME NEW d, NEW j, Position(chats, d, j) PROVE AnswerKept(d, j) \/ NewAnswer(d, j)
    <3>1. d \in DOMAIN chats /\ j \in DOMAIN chats[d].turns
      BY <2>9 DEF Position
    <3>2. CASE d = c /\ j = i
      <4>1. chats'[d].turns[j].done = chats[d].turns[j].done \cup {a}
        BY <2>4, <2>5, <3>1, <3>2
      <4> QED BY <2>3, <3>2, <4>1
    <3>3. CASE ~(d = c /\ j = i)
      BY <2>4, <2>5, <3>1, <3>3 DEF AnswerKept
    <3> QED BY <3>2, <3>3
  <2> QED BY <2>7, <2>8, <2>9 DEF TurnsMove, TurnsStay
<1>5. CASE UNCHANGED chats
  BY <1>5, TurnsUnchanged DEF Position
<1> QED
  BY <1>1, <1>2, <1>3, <1>4, <1>5
     DEF Next, RequestStep, WorkerStep, CountTurns, Schedule, BeginSave, RequestSaved, TestArm,
         TakeGpu, RunArm, ReleaseGpu, vars

-----------------------------------------------------------------------------
(* Whose turn a turn is.                                                   *)

\* Requests that have appended their turn, or have none.
Posted == { q \in Request : pc[RequestOf(q)] \notin {"idle", "append"} }

\* In a table of chats, a turn is in the chat its request named, and it is the
\* only one of its request.
Owned(d, requests) ==
  \A c, i : Position(d, c, i) =>
    /\ d[c].turns[i].req \in requests /\ ChatOf[d[c].turns[i].req] = c
    /\ \A j : Position(d, c, j) /\ d[c].turns[j].req = d[c].turns[i].req => j = i

OwnedInv ==
  /\ Owned(chats, Posted) /\ Owned(disk.data, Posted)
  /\ \A x \in Thread : Owned(image[x], Posted)

\* A table owned by few requests is owned by more.
LEMMA OwnedMore ==
  ASSUME NEW d, NEW few, NEW more, few \subseteq more, Owned(d, few)
  PROVE  Owned(d, more)
BY DEF Owned

\* Going on to the next arm concerns one worker only.
LEMMA NextArmMoves ==
  ASSUME TypeOK, NEW q \in Request, NextArm(q)
  PROVE  /\ pc'[WorkerOf(q)] \in {"test", "off"}
         /\ \A x \in Thread : x # WorkerOf(q) => pc'[x] = pc[x]
         /\ \A p \in Request : p # q => arm'[p] = arm[p]
BY Threads DEF NextArm, Goto, TypeOK

\* A request that has posted its turn does not post it again.
LEMMA PostedStays ==
  ASSUME TypeOK, [Next]_vars
  PROVE  Posted \subseteq Posted'
<1> SUFFICES ASSUME NEW p \in Request, pc[RequestOf(p)] \notin {"idle", "append"}
             PROVE  pc'[RequestOf(p)] \notin {"idle", "append"}
  BY DEF Posted
<1> USE Threads DEF TypeOK
<1>1. ASSUME NEW q \in Request, CreateChat(q) \/ Rename(q)
      PROVE  pc'[RequestOf(p)] \notin {"idle", "append"}
  BY <1>1 DEF CreateChat, Rename, Growing, Goto
<1>2. ASSUME NEW q \in Request, CountTurns(q) \/ AppendTurn(q) \/ RequestSaved(q)
      PROVE  pc'[RequestOf(p)] \notin {"idle", "append"}
  BY <1>2 DEF CountTurns, AppendTurn, RequestSaved, Goto
<1>3. ASSUME NEW q \in Request, Schedule(q)
      PROVE  pc'[RequestOf(p)] \notin {"idle", "append"}
  BY <1>3 DEF Schedule
<1>4. ASSUME NEW x \in Thread, BeginSave(x)
      PROVE  pc'[RequestOf(p)] \notin {"idle", "append"}
  BY <1>4 DEF BeginSave, Goto
<1>5. ASSUME NEW q \in Request, TestArm(q) \/ TakeGpu(q) \/ RunArm(q) \/ ArmAnswers(q) \/ ReleaseGpu(q)
      PROVE  pc'[RequestOf(p)] = pc[RequestOf(p)]
  <2>1. RequestOf(p) # WorkerOf(q)
    BY DEF RequestOf, WorkerOf
  <2> QED BY <1>5, <2>1, NextArmMoves DEF TestArm, TakeGpu, RunArm, ArmAnswers, ReleaseGpu, Goto
<1>6. CASE Restart
  <2>1. RequestOf(p)[2] # "worker"
    BY DEF RequestOf
  <2> QED BY <1>6, <2>1 DEF Restart
<1>7. CASE UNCHANGED vars
  BY <1>7 DEF vars
<1> QED
  BY <1>1, <1>2, <1>3, <1>4, <1>5, <1>6, <1>7 DEF Next, RequestStep, WorkerStep

\* Nothing gets into the file, or into a dump for it, but what was in _chats.
LEMMA DataMoves ==
  ASSUME TypeOK, [Next]_vars
  PROVE  /\ \/ disk'.data \in {disk.data, NoChats}
            \/ \E x \in Thread : disk'.data = image[x]
         /\ \A x \in Thread : image'[x] \in {image[x], chats, NoChats}
<1> USE Threads DEF TypeOK
<1>1. ASSUME NEW x \in Thread, EndSave(x)
      PROVE  /\ disk'.data \in {disk.data, NoChats, image[x]}
             /\ \A y \in Thread : image'[y] \in {image[y], NoChats}
  BY <1>1 DEF EndSave, Written, Whole, NotWhole
<1>2. ASSUME NEW x \in Thread, BeginSave(x)
      PROVE  disk'.data = NoChats /\ \A y \in Thread : image'[y] \in {image[y], chats}
  BY <1>2 DEF BeginSave, NotWhole
<1>3. ASSUME NEW q \in Request, RequestSaved(q) \/ RunArm(q) \/ ReleaseGpu(q)
      PROVE  EndSave(RequestOf(q)) \/ EndSave(WorkerOf(q))
  BY <1>3 DEF RequestSaved, RunArm, ReleaseGpu
<1>4. Restart => UNCHANGED disk /\ \A x \in Thread : image'[x] = NoChats
  BY DEF Restart
<1>5. ASSUME NEW q \in Request,
             \/ CreateChat(q) \/ Rename(q) \/ CountTurns(q) \/ AppendTurn(q) \/ Schedule(q)
             \/ TestArm(q) \/ TakeGpu(q) \/ ArmAnswers(q)
      PROVE  UNCHANGED <<disk, image>>
  BY <1>5 DEF CreateChat, Rename, CountTurns, AppendTurn, Schedule, TestArm, TakeGpu, ArmAnswers
<1>6. UNCHANGED vars => UNCHANGED <<disk, image>>
  BY DEF vars
<1> QED
  BY <1>1, <1>2, <1>3, <1>4, <1>5, <1>6 DEF Next, RequestStep, WorkerStep

\* The new turn is that of the request that appends it.
LEMMA NewTurnOf ==
  ASSUME NEW c, NEW i, NewTurn(c, i)
  PROVE  \E q \in Request : /\ AppendTurn(q) /\ c = ChatOf[q] /\ i = at[q] + 1
                            /\ chats'[c].turns[i].req = q
<1>1. PICK q \in Request :
        /\ AppendTurn(q) /\ c = ChatOf[q] /\ i = at[q] + 1
        /\ chats'[c].turns[i] = [req |-> q, n |-> at[q], done |-> {}]
  BY DEF NewTurn
<1> QED BY <1>1

\* Every step keeps the turns those of their requests.
LEMMA OwnedStep ==
  ASSUME TypeOK, CountHolds, OwnedInv, [Next]_vars
  PROVE  OwnedInv'
<1> USE PlaygroundAssumption, Threads
<1>1. Posted \subseteq Posted'
  BY PostedStays
<1>2. Owned(NoChats, Posted')
  BY DEF Owned, Position, NoChats
<1>3. Owned(chats, Posted') /\ Owned(disk.data, Posted') /\ \A x \in Thread : Owned(image[x], Posted')
  BY <1>1, OwnedMore DEF OwnedInv
<1>4. Owned(disk'.data, Posted') /\ \A x \in Thread : Owned(image'[x], Posted')
  BY <1>2, <1>3, DataMoves
<1>5. Owned(chats', Posted')
  <2>1. CASE Restart
    BY <1>3, <2>1 DEF Restart, Loaded
  <2>2. CASE ~Restart
    <3>1. TurnsMove
      BY <2>2, TurnsStep
    <3>2. ASSUME NEW q \in Request, AppendTurn(q)
          PROVE  q \in Posted' /\ q \notin Posted
      BY <3>2 DEF AppendTurn, Goto, Posted, TypeOK
    <3>3. ASSUME NEW c, NEW i, Position(chats', c, i)
          PROVE  /\ chats'[c].turns[i].req \in Posted' /\ ChatOf[chats'[c].turns[i].req] = c
                 /\ ~Position(chats, c, i) =>
                      chats'[c].turns[i].req \notin Posted /\ NewTurn(c, i)
      <4>1. CASE Position(chats, c, i)
        <5>1. chats'[c].turns[i].req = chats[c].turns[i].req
          BY <3>1, <4>1 DEF TurnsMove, TurnsStay
        <5>2. chats[c].turns[i].req \in Posted' /\ ChatOf[chats[c].turns[i].req] = c
          BY <1>3, <4>1 DEF Owned
        <5> QED BY <4>1, <5>1, <5>2
      <4>2. CASE NewTurn(c, i)
        BY <3>2, <4>2, NewTurnOf
      <4> QED BY <3>1, <3>3, <4>1, <4>2 DEF TurnsMove
    <3>4. ASSUME NEW c, NEW i, NEW j, Position(chats', c, i), Position(chats', c, j),
                 chats'[c].turns[j].req = chats'[c].turns[i].req
          PROVE  j = i
      <4>1. CASE Position(chats, c, i) /\ Position(chats, c, j)
        <5>1. /\ chats'[c].turns[i].req = chats[c].turns[i].req
              /\ chats'[c].turns[j].req = chats[c].turns[j].req
          BY <3>1, <4>1 DEF TurnsMove, TurnsStay
        <5> QED BY <1>3, <3>4, <4>1, <5>1 DEF Owned
      <4>2. ASSUME NEW k, Position(chats, c, k) PROVE chats'[c].turns[k].req \in Posted
        <5>1. chats'[c].turns[k].req = chats[c].turns[k].req
          BY <3>1, <4>2 DEF TurnsMove, TurnsStay
        <5>2. chats[c].turns[k].req \in Posted
          BY <4>2 DEF OwnedInv, Owned
        <5> QED BY <5>1, <5>2
      <4>3. CASE ~Position(chats, c, i) /\ ~Position(chats, c, j)
        <5>1. PICK q \in Request : i = at[q] + 1 /\ chats'[c].turns[i].req = q
          BY <3>3, <3>4, <4>3, NewTurnOf
        <5>2. PICK p \in Request : j = at[p] + 1 /\ chats'[c].turns[j].req = p
          BY <3>3, <3>4, <4>3, NewTurnOf
        <5> QED BY <3>4, <5>1, <5>2
      <4> QED BY <3>3, <3>4, <4>1, <4>2, <4>3
    <3> QED BY <3>3, <3>4 DEF Owned
  <2> QED BY <2>1, <2>2
<1> QED BY <1>4, <1>5 DEF OwnedInv

-----------------------------------------------------------------------------
(* Whose turn a worker executes.                                           *)

\* A request whose worker has not started, and one that has appended its turn.
Early == {"idle", "append", "save", "write", "schedule"}
Holds(q) ==
  \/ pc[WorkerOf(q)] \notin {"off", "died"}
  \/ pc[RequestOf(q)] = "schedule"
  \/ pc[RequestOf(q)] \in {"save", "write"} /\ KindOf[q] = "post"

HasTurn(d, n, q) ==
  /\ Position(d, ChatOf[q], n + 1)
  /\ d[ChatOf[q]].turns[n + 1].req = q

WorkerInv ==
  \A q \in Request :
    /\ pc[RequestOf(q)] \in Early => pc[WorkerOf(q)] = "off"
    /\ Holds(q) => HasTurn(chats, at[q], q)

\* Threads of different kinds or of different requests are different.
LEMMA ThreadsDiffer ==
  ASSUME NEW p \in Request, NEW q \in Request
  PROVE  /\ RequestOf(p) # WorkerOf(q) /\ RequestOf(p)[2] = "request" /\ WorkerOf(p)[2] = "worker"
         /\ p # q => RequestOf(p) # RequestOf(q) /\ WorkerOf(p) # WorkerOf(q)
         /\ RequestOf(p)[1] = p /\ WorkerOf(p)[1] = p
BY DEF RequestOf, WorkerOf

\* A worker starts once, and nothing else changes where its turn is.
LEMMA ThreadsMove ==
  ASSUME TypeOK, WorkerInv, [Next]_vars, ~Restart, NEW q \in Request
  PROVE  /\ pc'[RequestOf(q)] \in Early => pc'[WorkerOf(q)] = "off"
         /\ Holds(q)' => AppendTurn(q) \/ (Holds(q) /\ at'[q] = at[q])
<1> DEFINE Goal == /\ pc'[RequestOf(q)] \in Early => pc'[WorkerOf(q)] = "off"
                   /\ Holds(q)' => AppendTurn(q) \/ (Holds(q) /\ at'[q] = at[q])
<1>0. /\ pc \in [Thread -> Pc] /\ at \in [Request -> Nat]
      /\ pc[RequestOf(q)] \in Early => pc[WorkerOf(q)] = "off"
  BY DEF TypeOK, WorkerInv
<1> USE PlaygroundAssumption, Threads, ThreadsDiffer
<1>1. ASSUME NEW p \in Request, CreateChat(p) PROVE Goal
  <2>1. CASE p = q
    BY <1>0, <1>1, <2>1 DEF CreateChat, Growing, Early, Holds
  <2>2. CASE p # q
    BY <1>0, <1>1, <2>2 DEF CreateChat, Growing, Early, Holds
  <2> QED BY <2>1, <2>2
<1>2. ASSUME NEW p \in Request, Rename(p) PROVE Goal
  BY <1>0, <1>2 DEF Rename, Growing, Goto, Early, Holds
<1>3. ASSUME NEW p \in Request, CountTurns(p) PROVE Goal
  <2>1. CASE p = q
    BY <1>0, <1>3, <2>1 DEF CountTurns, Goto, Early, Holds
  <2>2. CASE p # q
    BY <1>0, <1>3, <2>2 DEF CountTurns, Goto, Early, Holds
  <2> QED BY <2>1, <2>2
<1>4. ASSUME NEW p \in Request, AppendTurn(p) PROVE Goal
  <2>1. CASE p = q
    BY <1>0, <1>4, <2>1 DEF AppendTurn, Goto, Early, Holds
  <2>2. CASE p # q
    BY <1>0, <1>4, <2>2 DEF AppendTurn, Goto, Early, Holds
  <2> QED BY <2>1, <2>2
<1>5. ASSUME NEW p \in Request, Schedule(p) PROVE Goal
  <2>1. CASE p = q
    BY <1>0, <1>5, <2>1 DEF Schedule, Early, Holds
  <2>2. CASE p # q
    BY <1>0, <1>5, <2>2 DEF Schedule, Early, Holds
  <2> QED BY <2>1, <2>2
<1>6. ASSUME NEW x \in Thread, BeginSave(x) PROVE Goal
  <2>1. pc[x] \in {"save", "mark", "keep"} /\ at' = at
        /\ pc'[x] \in {"write", "marking", "keeping"} /\ \A y \in Thread : y # x => pc'[y] = pc[y]
        /\ (pc[x] = "save" => pc'[x] = "write") /\ (pc[x] # "save" => pc'[x] # "write")
    BY <1>0, <1>6 DEF BeginSave, Goto
  <2>2. CASE x = RequestOf(q)
    BY <1>0, <2>1, <2>2 DEF Early, Holds
  <2>3. CASE x = WorkerOf(q)
    BY <1>0, <2>1, <2>3 DEF Early, Holds
  <2>4. CASE x # RequestOf(q) /\ x # WorkerOf(q)
    BY <1>0, <2>1, <2>4 DEF Early, Holds
  <2> QED BY <2>2, <2>3, <2>4
<1>7. ASSUME NEW p \in Request, RequestSaved(p) PROVE Goal
  <2>1. CASE p = q
    BY <1>0, <1>7, <2>1 DEF RequestSaved, Goto, Early, Holds
  <2>2. CASE p # q
    BY <1>0, <1>7, <2>2 DEF RequestSaved, Goto, Early, Holds
  <2> QED BY <2>1, <2>2
<1>8. ASSUME NEW p \in Request,
             TestArm(p) \/ TakeGpu(p) \/ RunArm(p) \/ ArmAnswers(p) \/ ReleaseGpu(p)
      PROVE  Goal
  <2>1. /\ pc[WorkerOf(p)] \in {"test", "wait", "marking", "run", "keeping"} /\ at' = at
        /\ \A x \in Thread : x # WorkerOf(p) => pc'[x] = pc[x]
    BY <1>0, <1>8, NextArmMoves DEF TestArm, TakeGpu, RunArm, ArmAnswers, ReleaseGpu, Goto
  <2>2. CASE p = q
    BY <1>0, <2>1, <2>2 DEF Early, Holds
  <2>3. CASE p # q
    BY <1>0, <2>1, <2>3 DEF Early, Holds
  <2> QED BY <2>2, <2>3
<1>9. CASE UNCHANGED vars
  BY <1>0, <1>9 DEF vars, Holds
<1> QED
  BY <1>1, <1>2, <1>3, <1>4, <1>5, <1>6, <1>7, <1>8, <1>9 DEF Next, RequestStep, WorkerStep

\* A post finds its turn where its count says.
LEMMA Appended ==
  ASSUME TypeOK, CountHolds, NEW q \in Request, AppendTurn(q)
  PROVE  HasTurn(chats', at'[q], q)
<1> DEFINE c == ChatOf[q]
           turns == chats[c].turns
           turn == [req |-> q, n |-> at[q], done |-> {}]
<1>1. c \in DOMAIN chats /\ at[q] = Len(turns)
  BY Threads DEF AppendTurn, CountHolds
<1>2. turns \in Seq(Turn) /\ turn \in Turn
  BY <1>1 DEF TypeOK, IsData, Record, Turn
<1>3. DOMAIN chats' = DOMAIN chats /\ chats'[c].turns = Append(turns, turn) /\ at' = at
  BY <1>1 DEF AppendTurn, TypeOK, IsData, Record
<1>4. turn.req = q
  OBVIOUS
<1> HIDE DEF turn, turns
<1>5. Len(turns) + 1 \in DOMAIN Append(turns, turn) /\ Append(turns, turn)[Len(turns) + 1] = turn
  <2>1. Len(turns) \in Nat
    BY <1>2, LenProperties
  <2> QED BY <1>2, <2>1, AppendProperties
<1> QED BY <1>1, <1>3, <1>4, <1>5 DEF HasTurn, Position

\* A turn in a table of chats has a position there.
LEMMA TurnsInPosition ==
  ASSUME NEW d, IsData(d), NEW t \in TurnsIn(d)
  PROVE  \E c \in DOMAIN d : \E i \in DOMAIN d[c].turns : d[c].turns[i] = t
<1>1. PICK c \in DOMAIN d : t \in ToSet(d[c].turns)
  BY DEF TurnsIn
<1> QED BY <1>1 DEF ToSet

\* What the server finds in the file, it finds where the turn's number says.
LEMMA FoundAgain ==
  ASSUME TypeOK, IndexInv, OwnedInv, Restart, NEW q \in Request,
         \E t \in TurnsIn(Loaded) : t.req = q
  PROVE  q \in Posted /\ HasTurn(chats', at'[q], q)
<1> DEFINE t == CHOOSE t \in TurnsIn(Loaded) : t.req = q
<1>1. t \in TurnsIn(disk.data) /\ t.req = q
  BY DEF Loaded
<1>2. chats' = disk.data /\ at'[q] = t.n
  BY DEF Restart, Loaded
<1> HIDE DEF t
<1>3. PICK c \in DOMAIN disk.data : \E i \in DOMAIN disk.data[c].turns : disk.data[c].turns[i] = t
  BY <1>1, TurnsInPosition DEF TypeOK
<1>4. PICK i \in DOMAIN disk.data[c].turns : disk.data[c].turns[i] = t
  BY <1>3
<1>5. Position(disk.data, c, i)
  BY <1>3, <1>4 DEF Position
<1>6. q \in Posted /\ ChatOf[q] = c
  BY <1>1, <1>4, <1>5 DEF OwnedInv, Owned
<1>7. t.n = i - 1 /\ i \in Nat
  BY <1>3, <1>4 DEF IndexInv, IsIndexed, TypeOK, IsData, Record
<1>8. t.n + 1 = i
  BY <1>7
<1> QED BY <1>1, <1>2, <1>4, <1>5, <1>6, <1>8 DEF HasTurn

\* Every step keeps a worker on its own request's turn.
LEMMA WorkerInvStep ==
  ASSUME TypeOK, IndexInv, OwnedInv, WorkerInv, [Next]_vars
  PROVE  WorkerInv'
<1> SUFFICES ASSUME NEW q \in Request
             PROVE  /\ pc'[RequestOf(q)] \in Early => pc'[WorkerOf(q)] = "off"
                    /\ Holds(q)' => HasTurn(chats', at'[q], q)
  BY DEF WorkerInv, HasTurn, Position
<1>1. CASE ~Restart
  <2>1. TurnsMove
    BY <1>1, TurnsStep DEF IndexInv
  <2>2. AppendTurn(q) => HasTurn(chats', at'[q], q)
    BY Appended DEF IndexInv
  <2>3. Holds(q) /\ at'[q] = at[q] => HasTurn(chats', at'[q], q)
    BY <2>1 DEF WorkerInv, HasTurn, TurnsMove, TurnsStay
  <2> QED BY <1>1, <2>2, <2>3, ThreadsMove
<1>2. CASE Restart
  <2> USE Threads, ThreadsDiffer
  <2>1. /\ pc'[WorkerOf(q)] # "off" => \E t \in TurnsIn(Loaded) : t.req = q
        /\ pc'[WorkerOf(q)] \in {"test", "off"}
    BY <1>2 DEF Restart, Unfinished
  <2>2. pc'[RequestOf(q)] \in {"idle", "answered", "lost"}
        /\ (pc'[RequestOf(q)] = "idle" => q \notin Posted)
    BY <1>2 DEF Restart, Posted
  <2>3. Holds(q)' => pc'[WorkerOf(q)] # "off"
    BY <2>1, <2>2 DEF Holds
  <2> QED BY <1>2, <2>1, <2>2, <2>3, FoundAgain DEF Early
<1> QED BY <1>1, <1>2

-----------------------------------------------------------------------------
(* How often an arm is run.                                                *)

AnsweredIn(d, q, a) ==
  \E c, i : Position(d, c, i) /\ d[c].turns[i].req = q /\ a \in d[c].turns[i].done

\* An arm that was run has answered or is running, and no worker is about to
\* run an arm that has answered.
RunInv ==
  \A q \in Request :
    /\ \A a \in Arm :
         \/ executions[q][a] = 0
         \/ /\ executions[q][a] = 1
            /\ AnsweredIn(chats, q, a) \/ (pc[WorkerOf(q)] = "run" /\ ArmOf(q) = a)
    /\ pc[WorkerOf(q)] \in {"wait", "mark", "marking"} => ~AnsweredIn(chats, q, ArmOf(q))

\* Only a request's worker answers for it, and no answer is taken back.
LEMMA AnswersMove ==
  ASSUME TypeOK, IndexInv, WorkerInv, [Next]_vars, ~Restart, NEW q \in Request, NEW a \in Arm
  PROVE  /\ AnsweredIn(chats, q, a) => AnsweredIn(chats', q, a)
         /\ AnsweredIn(chats', q, a) =>
              AnsweredIn(chats, q, a) \/ (ArmAnswers(q) /\ a = ArmOf(q))
<1>1. TurnsMove
  BY TurnsStep DEF IndexInv
<1>2. ASSUME NEW c, NEW i, Position(chats, c, i),
             chats[c].turns[i].req = q, a \in chats[c].turns[i].done
      PROVE  AnsweredIn(chats', q, a)
  <2>1. Position(chats', c, i) /\ chats'[c].turns[i].req = q
    BY <1>1, <1>2 DEF TurnsMove, TurnsStay
  <2>2. chats[c].turns[i].done \subseteq chats'[c].turns[i].done
    BY <1>1, <1>2 DEF TurnsMove, AnswerKept, NewAnswer
  <2> QED BY <1>2, <2>1, <2>2 DEF AnsweredIn
<1>3. ASSUME NEW c, NEW i, Position(chats', c, i),
             chats'[c].turns[i].req = q, a \in chats'[c].turns[i].done
      PROVE  AnsweredIn(chats, q, a) \/ (ArmAnswers(q) /\ a = ArmOf(q))
  <2>1. ~NewTurn(c, i)
    <3> SUFFICES ASSUME NewTurn(c, i) PROVE FALSE
      OBVIOUS
    <3>1. PICK p \in Request : chats'[c].turns[i] = [req |-> p, n |-> at[p], done |-> {}]
      BY DEF NewTurn
    <3> QED BY <1>3, <3>1
  <2>2. Position(chats, c, i)
    BY <1>1, <1>3, <2>1 DEF TurnsMove
  <2>3. chats[c].turns[i].req = q
    BY <1>1, <1>3, <2>2 DEF TurnsMove, TurnsStay
  <2>4. CASE AnswerKept(c, i)
    BY <1>3, <2>2, <2>3, <2>4 DEF AnswerKept, AnsweredIn
  <2>5. CASE NewAnswer(c, i)
    <3>1. PICK p \in Request :
            /\ ArmAnswers(p) /\ c = ChatOf[p] /\ i = at[p] + 1
            /\ chats'[c].turns[i].done = chats[c].turns[i].done \cup {ArmOf(p)}
      BY <2>5 DEF NewAnswer
    <3>2. HasTurn(chats, at[p], p)
      BY <3>1 DEF ArmAnswers, Holds, WorkerInv
    <3>3. p = q
      BY <2>3, <3>1, <3>2 DEF HasTurn
    <3>4. a \in chats[c].turns[i].done \/ a = ArmOf(q)
      BY <1>3, <3>1, <3>3
    <3> QED BY <2>2, <2>3, <3>1, <3>3, <3>4 DEF AnsweredIn
  <2> QED BY <1>1, <2>2, <2>4, <2>5 DEF TurnsMove
<1> QED BY <1>2, <1>3 DEF AnsweredIn

\* What a worker's steps do to what RunInv says of it.
LEMMA WorkerMoves ==
  ASSUME TypeOK, WorkerInv, [Next]_vars, ~Restart, NEW q \in Request
  PROVE  /\ pc'[WorkerOf(q)] \in {"wait", "mark", "marking"} =>
              /\ arm'[q] = arm[q]
              /\ \/ pc[WorkerOf(q)] \in {"wait", "mark", "marking"} /\ ~ArmAnswers(q)
                 \/ pc[WorkerOf(q)] = "test" /\ ~Answered(q) /\ ~ArmAnswers(q)
         /\ pc[WorkerOf(q)] = "run" => ArmAnswers(q) \/ (pc'[WorkerOf(q)] = "run" /\ arm'[q] = arm[q])
         /\ executions'[q] = executions[q] \/ RunArm(q)
<1> DEFINE Goal ==
      /\ pc'[WorkerOf(q)] \in {"wait", "mark", "marking"} =>
           /\ arm'[q] = arm[q]
           /\ \/ pc[WorkerOf(q)] \in {"wait", "mark", "marking"} /\ ~ArmAnswers(q)
              \/ pc[WorkerOf(q)] = "test" /\ ~Answered(q) /\ ~ArmAnswers(q)
      /\ pc[WorkerOf(q)] = "run" => ArmAnswers(q) \/ (pc'[WorkerOf(q)] = "run" /\ arm'[q] = arm[q])
      /\ executions'[q] = executions[q] \/ RunArm(q)
<1>0. /\ pc \in [Thread -> Pc] /\ arm \in [Request -> DOMAIN Order]
      /\ executions \in [Request -> [Arm -> Nat]]
      /\ ArmAnswers(q) => pc[WorkerOf(q)] = "run" /\ pc'[WorkerOf(q)] = "keep"
      /\ pc[RequestOf(q)] \in Early => pc[WorkerOf(q)] = "off"
  BY Threads DEF TypeOK, WorkerInv, ArmAnswers, Goto
<1> USE PlaygroundAssumption, Threads, ThreadsDiffer
<1>1. ASSUME NEW p \in Request,
             \/ pc[RequestOf(p)] = "idle" /\ Growing(p, "save") /\ UNCHANGED <<arm, executions>>
      PROVE Goal
  BY <1>0, <1>1 DEF Growing
<1>2. ASSUME NEW p \in Request, CreateChat(p) \/ Rename(p) PROVE Goal
  BY <1>0, <1>1, <1>2 DEF CreateChat, Rename, Goto
<1>3. ASSUME NEW p \in Request, CountTurns(p) \/ AppendTurn(p) \/ RequestSaved(p) PROVE Goal
  BY <1>0, <1>3 DEF CountTurns, AppendTurn, RequestSaved, Goto
<1>4. ASSUME NEW p \in Request, Schedule(p) PROVE Goal
  <2>1. CASE p = q
    BY <1>0, <1>4, <2>1 DEF Schedule, Early
  <2>2. CASE p # q
    BY <1>0, <1>4, <2>2 DEF Schedule
  <2> QED BY <2>1, <2>2
<1>5. ASSUME NEW x \in Thread, BeginSave(x) PROVE Goal
  BY <1>0, <1>5 DEF BeginSave, Goto
<1>6. ASSUME NEW p \in Request, p # q,
             TestArm(p) \/ TakeGpu(p) \/ RunArm(p) \/ ArmAnswers(p) \/ ReleaseGpu(p)
      PROVE  Goal
  <2>1. pc'[WorkerOf(q)] = pc[WorkerOf(q)] /\ arm'[q] = arm[q]
    BY <1>0, <1>6, NextArmMoves DEF TestArm, TakeGpu, RunArm, ArmAnswers, ReleaseGpu, Goto
  <2>2. executions'[q] = executions[q]
    <3>1. CASE RunArm(p)
      <4>1. HasTurn(chats, at[p], p)
        BY <3>1 DEF RunArm, Holds, WorkerInv
      <4>2. TurnOf(p).req = p
        BY <4>1 DEF HasTurn, TurnOf
      <4> QED BY <1>0, <1>6, <3>1, <4>2 DEF RunArm
    <3>2. CASE ~RunArm(p)
      BY <1>6, <3>2 DEF TestArm, TakeGpu, ArmAnswers, ReleaseGpu
    <3> QED BY <3>1, <3>2
  <2>3. pc[WorkerOf(q)] \in {"wait", "mark", "marking"} => ~ArmAnswers(q)
    BY <1>0
  <2> QED BY <2>1, <2>2, <2>3
<1>7. TestArm(q) => Goal
  BY <1>0, NextArmMoves DEF TestArm, Goto
<1>8. TakeGpu(q) \/ RunArm(q) => Goal
  BY <1>0 DEF TakeGpu, RunArm, Goto
<1>9. ArmAnswers(q) => Goal
  BY <1>0 DEF ArmAnswers
<1>10. ReleaseGpu(q) => Goal
  BY <1>0, NextArmMoves DEF ReleaseGpu
<1>11. UNCHANGED vars => Goal
  BY <1>0 DEF vars
<1> QED
  BY <1>2, <1>3, <1>4, <1>5, <1>6, <1>7, <1>8, <1>9, <1>10, <1>11
     DEF Next, RequestStep, WorkerStep

\* The test of an arm reads its request's own turn.
LEMMA AnsweredIsIn ==
  ASSUME OwnedInv, WorkerInv, NEW q \in Request, pc[WorkerOf(q)] = "test",
         AnsweredIn(chats, q, ArmOf(q))
  PROVE  Answered(q)
<1>1. HasTurn(chats, at[q], q)
  BY DEF WorkerInv, Holds
<1>2. PICK c, i : Position(chats, c, i) /\ chats[c].turns[i].req = q
                  /\ ArmOf(q) \in chats[c].turns[i].done
  BY DEF AnsweredIn
<1>3. c = ChatOf[q]
  BY <1>2 DEF OwnedInv, Owned
<1>4. i = at[q] + 1
  BY <1>1, <1>2, <1>3 DEF HasTurn, OwnedInv, Owned
<1> QED BY <1>2, <1>3, <1>4 DEF Answered, TurnOf

\* Every step keeps RunInv.
LEMMA RunStep ==
  ASSUME TypeOK, IndexInv, OwnedInv, WorkerInv, RunInv, [Next]_vars
  PROVE  RunInv'
<1> SUFFICES ASSUME NEW q \in Request
             PROVE  /\ \A a \in Arm :
                         \/ executions'[q][a] = 0
                         \/ /\ executions'[q][a] = 1
                            /\ \/ AnsweredIn(chats', q, a)
                               \/ pc'[WorkerOf(q)] = "run" /\ ArmOf(q)' = a
                    /\ pc'[WorkerOf(q)] \in {"wait", "mark", "marking"} =>
                         ~AnsweredIn(chats', q, ArmOf(q)')
  BY DEF RunInv, AnsweredIn, Position
<1> USE Threads
<1>1. CASE ~Restart
  <2>1. pc'[WorkerOf(q)] \in {"wait", "mark", "marking"} => ~AnsweredIn(chats', q, ArmOf(q)')
    <3> SUFFICES ASSUME pc'[WorkerOf(q)] \in {"wait", "mark", "marking"}
                 PROVE  ~AnsweredIn(chats', q, ArmOf(q)')
      OBVIOUS
    <3>1. /\ ArmOf(q)' = ArmOf(q) /\ ~ArmAnswers(q)
          /\ \/ pc[WorkerOf(q)] \in {"wait", "mark", "marking"}
             \/ pc[WorkerOf(q)] = "test" /\ ~Answered(q)
      BY <1>1, WorkerMoves DEF ArmOf
    <3>2. ~AnsweredIn(chats, q, ArmOf(q))
      BY <3>1, AnsweredIsIn DEF RunInv
    <3>3. ArmOf(q) \in Arm
      BY Arms DEF ArmOf, TypeOK
    <3> QED BY <1>1, <3>1, <3>2, <3>3, AnswersMove
  <2>2. ASSUME NEW a \in Arm, executions'[q] = executions[q]
        PROVE  \/ executions'[q][a] = 0
               \/ /\ executions'[q][a] = 1
                  /\ \/ AnsweredIn(chats', q, a)
                     \/ pc'[WorkerOf(q)] = "run" /\ ArmOf(q)' = a
    <3>1. CASE executions[q][a] = 0
      BY <2>2, <3>1
    <3>2. CASE executions[q][a] = 1 /\ AnsweredIn(chats, q, a)
      BY <1>1, <2>2, <3>2, AnswersMove
    <3>3. CASE executions[q][a] = 1 /\ pc[WorkerOf(q)] = "run" /\ ArmOf(q) = a
      <4>1. CASE ArmAnswers(q)
        <5>1. TurnsMove /\ HasTurn(chats, at[q], q)
          BY <1>1, <3>3, TurnsStep DEF IndexInv, WorkerInv, Holds
        <5>2. HasTurn(chats', at[q], q)
          BY <5>1 DEF HasTurn, TurnsMove, TurnsStay
        <5>3. a \in chats'[ChatOf[q]].turns[at[q] + 1].done
          <6> DEFINE c == ChatOf[q]
                     i == at[q] + 1
                     record == [chats[c] EXCEPT !.turns[i].done = @ \cup {a}]
          <6>1. chats' = [chats EXCEPT ![c] = record] /\ c \in DOMAIN chats /\ i \in DOMAIN chats[c].turns
            BY <3>3, <4>1, <5>1 DEF ArmAnswers, HasTurn, Position
          <6>2. chats[c] \in Record /\ i \in Nat
            BY <6>1 DEF TypeOK, IsData
          <6> HIDE DEF c, i
          <6>3. record.turns[i].done = chats[c].turns[i].done \cup {a}
            BY <6>1, <6>2, AnsweredType
          <6> HIDE DEF record
          <6>4. chats'[c] = record
            BY <6>1
          <6>5. a \in chats'[c].turns[i].done
            BY <6>3, <6>4
          <6> QED BY <6>5 DEF c, i
        <5> QED BY <2>2, <3>3, <5>2, <5>3 DEF HasTurn, AnsweredIn
      <4>2. CASE ~ArmAnswers(q)
        <5>1. pc'[WorkerOf(q)] = "run" /\ arm'[q] = arm[q]
          BY <1>1, <3>3, <4>2, WorkerMoves
        <5> QED BY <2>2, <3>3, <5>1 DEF ArmOf
      <4> QED BY <4>1, <4>2
    <3> QED BY <3>1, <3>2, <3>3 DEF RunInv
  <2>3. ASSUME NEW a \in Arm, RunArm(q)
        PROVE  \/ executions'[q][a] = 0
               \/ /\ executions'[q][a] = 1
                  /\ \/ AnsweredIn(chats', q, a)
                     \/ pc'[WorkerOf(q)] = "run" /\ ArmOf(q)' = a
    <3>1. TurnOf(q).req = q
      BY <2>3 DEF RunArm, WorkerInv, Holds, HasTurn, TurnOf
    <3>2. /\ pc[WorkerOf(q)] = "marking" /\ pc'[WorkerOf(q)] = "run" /\ ArmOf(q)' = ArmOf(q)
          /\ executions' = [executions EXCEPT ![q][ArmOf(q)] = @ + 1]
      BY <2>3, <3>1 DEF RunArm, Goto, ArmOf, TypeOK
    <3>3. executions[q] \in [Arm -> Nat]
      BY DEF TypeOK
    <3>4. CASE a = ArmOf(q)
      <4>1. executions[q][a] = 0
        BY <3>2, <3>4 DEF RunInv
      <4> QED BY <3>2, <3>3, <3>4, <4>1 DEF TypeOK
    <3>5. CASE a # ArmOf(q)
      <4>1. executions'[q][a] = executions[q][a]
        BY <3>2, <3>3, <3>5 DEF TypeOK
      <4>2. executions[q][a] = 0 \/ (executions[q][a] = 1 /\ AnsweredIn(chats, q, a))
        BY <3>2 DEF RunInv
      <4> QED BY <1>1, <4>1, <4>2, AnswersMove
    <3> QED BY <3>4, <3>5
  <2> QED BY <1>1, <2>1, <2>2, <2>3, WorkerMoves
<1>2. CASE Restart
  <2>1. pc'[WorkerOf(q)] \in {"test", "off"}
    BY <1>2, ThreadsDiffer DEF Restart
  <2>2. ASSUME NEW a \in Arm
        PROVE  executions'[q][a] = 0 \/ (executions'[q][a] = 1 /\ AnsweredIn(chats', q, a))
    <3>1. CASE \E t \in TurnsIn(Loaded) : t.req = q /\ a \in t.done
      <4>1. PICK t \in TurnsIn(disk.data) : t.req = q /\ a \in t.done
        BY <3>1 DEF Loaded
      <4>2. PICK c \in DOMAIN disk.data : \E i \in DOMAIN disk.data[c].turns : disk.data[c].turns[i] = t
        BY <4>1, TurnsInPosition DEF TypeOK
      <4>3. AnsweredIn(disk.data, q, a)
        BY <4>1, <4>2 DEF AnsweredIn, Position
      <4>4. AnsweredIn(chats', q, a) /\ executions'[q][a] = executions[q][a]
        BY <1>2, <3>1, <4>3 DEF Restart, Loaded
      <4> QED BY <4>4 DEF RunInv
    <3>2. CASE ~\E t \in TurnsIn(Loaded) : t.req = q /\ a \in t.done
      BY <1>2, <3>2 DEF Restart
    <3> QED BY <3>1, <3>2
  <2> QED BY <2>1, <2>2
<1> QED BY <1>1, <1>2

\* As long as a chat's messages are posted one after the other, no arm of a
\* turn runs twice between two restarts, and none that a restart found answered
\* is run again - whatever the other threads do to the chats and to the file.
THEOREM ArmsRunOnce == OneAtATime /\ Spec => []ExecutedOnce
<1> SUFFICES ASSUME OneAtATime PROVE Spec => []ExecutedOnce
  OBVIOUS
<1> DEFINE Inv == TypeOK /\ IndexInv /\ OwnedInv /\ WorkerInv /\ RunInv
<1>1. Init => TypeOK /\ IndexInv
  BY InitTyped, InitIndexed
<1>2. Init => OwnedInv /\ WorkerInv /\ RunInv
  <2> SUFFICES ASSUME Init PROVE OwnedInv /\ WorkerInv /\ RunInv
    OBVIOUS
  <2> USE Threads, ThreadsDiffer
  <2>1. \A c, i : ~Position(NoChats, c, i)
    BY DEF Position, NoChats
  <2>2. chats = NoChats /\ disk.data = NoChats /\ \A x \in Thread : image[x] = NoChats
    BY DEF Init, NotWhole
  <2>3. OwnedInv
    BY <2>1, <2>2 DEF OwnedInv, Owned
  <2>4. \A q \in Request : pc[RequestOf(q)] = "idle" /\ pc[WorkerOf(q)] = "off"
    BY DEF Init
  <2>5. WorkerInv
    BY <2>4 DEF WorkerInv, Holds
  <2>6. RunInv
    BY <2>4 DEF Init, RunInv
  <2> QED BY <2>3, <2>5, <2>6
<1>3. Inv /\ [Next]_vars => Inv'
  BY TypeStep, IndexStep, OwnedStep, WorkerInvStep, RunStep DEF IndexInv
<1>4. Inv => ExecutedOnce
  BY DEF RunInv, ExecutedOnce
<1> QED BY <1>1, <1>2, <1>3, <1>4, PTL DEF Spec
=============================================================================
