----------------------------- MODULE Playground -----------------------------
(***************************************************************************)
(* The playground's server (playground/app.py): chats, the turns that are  *)
(* posted to them, the background threads that let both arms answer a      *)
(* turn, and the file that is to carry all this over a restart.            *)
(*                                                                         *)
(* Requests run on the web server's thread pool and every turn has a       *)
(* worker thread; they share _chats without a lock, and _save, which every *)
(* one of them calls, truncates the file before it writes it.  Only the    *)
(* model calls are serialised, by _gpu.  What an arm answers, the titles   *)
(* and the statuses that the browser displays are left out.                *)
(***************************************************************************)
EXTENDS Naturals, Sequences, SequencesExt

CONSTANTS
  Chat,             \* chat ids
  Request,          \* POSTs and PATCHes that a browser may send
  KindOf,           \* KindOf[q]: "create", "rename" or "post"
  ChatOf,           \* ChatOf[q]: the chat a request creates or names
  OneAtATime,       \* does a chat's next message wait for the last response?
  IterationRaises,  \* may _save meet a dictionary that grows under it?
  WritesFail,       \* may writing the file raise?
  MaxRestarts,      \* bound: restarts of the server
  NoRequest

ASSUME PlaygroundAssumption ==
  /\ KindOf \in [Request -> {"create", "rename", "post"}]
  /\ ChatOf \in [Request -> Chat]
  /\ {OneAtATime, IterationRaises, WritesFail} \subseteq BOOLEAN
  /\ MaxRestarts \in Nat /\ NoRequest \notin Request

Arm == {"baseline", "treatment"}
Order == <<"baseline", "treatment">>

\* A request's own thread, and the worker that executes the turn it posted.
Thread == Request \X {"request", "worker"}
RequestOf(q) == <<q, "request">>
WorkerOf(q) == <<q, "worker">>

\* A turn: the request that posted it, its field "n", and the arms that have
\* answered.  _chats is a function on the chats that exist.
Turn == [req : Request, n : Nat, done : SUBSET Arm]
Record == [named : BOOLEAN, turns : Seq(Turn)]
IsData(d) == DOMAIN d \subseteq Chat /\ \A c \in DOMAIN d : d[c] \in Record
NoChats == [c \in {} |-> c]

\* The file: absent, empty between truncation and write, parts of two writes,
\* or what json.dumps made of _chats.
FileState == {"absent", "cut", "torn", "whole"}
Whole(d) == [state |-> "whole", data |-> d]
NotWhole(st) == [state |-> st, data |-> NoChats]

VARIABLES
  chats,       \* _chats
  disk,        \* .chats.json
  pc,          \* pc[x]: what thread x does next
  image,       \* image[x]: the data thread x has dumped and not yet written
  at,          \* at[q]: the local n of request q and of its worker
  arm,         \* arm[q]: the position of q's worker in Order
  gpu,         \* the request whose worker holds _gpu
  restarts,
  executions,  \* history: how often q's arms were run since they were last
               \* loaded as unanswered
  saved        \* history: the posts that a completed write contained

vars == <<chats, disk, pc, image, at, arm, gpu, restarts, executions, saved>>

Pc == { "idle", "append", "save", "write", "schedule", "answered", "failed", "lost",
        "off", "died", "test", "wait", "mark", "marking", "run", "keep", "keeping" }
Resting == {"idle", "answered", "failed", "lost", "off", "died"}

TypeOK ==
  /\ IsData(chats)
  /\ disk.state \in FileState /\ IsData(disk.data)
  /\ pc \in [Thread -> Pc]
  /\ DOMAIN image = Thread /\ \A x \in Thread : IsData(image[x])
  /\ at \in [Request -> Nat]
  /\ arm \in [Request -> DOMAIN Order]
  /\ gpu \in Request \cup {NoRequest}
  /\ restarts \in Nat
  /\ executions \in [Request -> [Arm -> Nat]]
  /\ saved \subseteq Request

Init ==
  /\ chats = NoChats
  /\ disk = NotWhole("absent")
  /\ pc = [x \in Thread |-> IF x[2] = "request" THEN "idle" ELSE "off"]
  /\ image = [x \in Thread |-> NoChats]
  /\ at = [q \in Request |-> 0]
  /\ arm = [q \in Request |-> 1]
  /\ gpu = NoRequest
  /\ restarts = 0
  /\ executions = [q \in Request |-> [a \in Arm |-> 0]]
  /\ saved = {}

\* The turns in a set of chats, and the requests that posted them.
TurnsIn(data) == UNION { ToSet(data[c].turns) : c \in DOMAIN data }
PostsIn(data) == { t.req : t \in TurnsIn(data) }

Goto(x, step) == pc' = [pc EXCEPT ![x] = step]

-----------------------------------------------------------------------------
(* Requests.                                                               *)

\* A thread that iterates over _chats, or over one chat, raises when another
\* thread adds a key.  A request that raises is answered with an error; a
\* worker that raises ends, and releases _gpu.
Growing(q, step) ==
  \E hit \in SUBSET { x \in Thread : IterationRaises /\ pc[x] \in {"save", "mark", "keep"} } :
    /\ pc' = [x \in Thread |->
               IF x = RequestOf(q) THEN step
               ELSE IF x \notin hit THEN pc[x]
               ELSE IF x[2] = "request" THEN "failed" ELSE "died"]
    /\ gpu' = IF \E x \in hit : x = WorkerOf(gpu) THEN NoRequest ELSE gpu

CreateChat(q) ==
  /\ KindOf[q] = "create" /\ pc[RequestOf(q)] = "idle" /\ ChatOf[q] \notin DOMAIN chats
  /\ chats' = [c \in DOMAIN chats \cup {ChatOf[q]} |->
                IF c = ChatOf[q] THEN [named |-> FALSE, turns |-> << >>] ELSE chats[c]]
  /\ Growing(q, "save")
  /\ UNCHANGED <<disk, image, at, arm, restarts, executions, saved>>

\* The first PATCH of a chat adds the key "named"; a later one adds none.
Rename(q) ==
  /\ KindOf[q] = "rename" /\ pc[RequestOf(q)] = "idle" /\ ChatOf[q] \in DOMAIN chats
  /\ chats' = [chats EXCEPT ![ChatOf[q]].named = TRUE]
  /\ IF chats[ChatOf[q]].named THEN Goto(RequestOf(q), "save") /\ gpu' = gpu
     ELSE Growing(q, "save")
  /\ UNCHANGED <<disk, image, at, arm, restarts, executions, saved>>

\* Mutant: n is the position of the last turn.
LastTurn(q) == IF chats[ChatOf[q]].turns = << >> THEN 0 ELSE Len(chats[ChatOf[q]].turns) - 1

NextTurn(q) == Len(chats[ChatOf[q]].turns)

\* start_turn, up to n = len(chat["turns"]).
CountTurns(q) ==
  /\ KindOf[q] = "post" /\ pc[RequestOf(q)] = "idle" /\ ChatOf[q] \in DOMAIN chats
  /\ OneAtATime =>
       \A p \in Request :
         ChatOf[p] = ChatOf[q] => pc[RequestOf(p)] \notin {"append", "save", "write", "schedule"}
  /\ at' = [at EXCEPT ![q] = NextTurn(q)]
  /\ Goto(RequestOf(q), "append")
  /\ UNCHANGED <<chats, disk, image, arm, gpu, restarts, executions, saved>>

AppendTurn(q) ==
  /\ pc[RequestOf(q)] = "append"
  /\ chats' = [chats EXCEPT ![ChatOf[q]].turns = Append(@, [req |-> q, n |-> at[q], done |-> {}])]
  /\ Goto(RequestOf(q), "save")
  /\ UNCHANGED <<disk, image, at, arm, gpu, restarts, executions, saved>>

\* _schedule: the worker starts, and the response goes out.
Schedule(q) ==
  /\ pc[RequestOf(q)] = "schedule"
  /\ pc' = [pc EXCEPT ![RequestOf(q)] = "answered", ![WorkerOf(q)] = "test"]
  /\ arm' = [arm EXCEPT ![q] = 1]
  /\ UNCHANGED <<chats, disk, image, at, gpu, restarts, executions, saved>>

-----------------------------------------------------------------------------
(* _save, from any thread.                                                 *)

\* The data is dumped, and write_text opens the file, which truncates it.
BeginSave(x) ==
  /\ pc[x] \in {"save", "mark", "keep"}
  /\ image' = [image EXCEPT ![x] = chats]
  /\ disk' = NotWhole("cut")
  /\ Goto(x, CASE pc[x] = "save" -> "write" [] pc[x] = "mark" -> "marking"
                [] pc[x] = "keep" -> "keeping")
  /\ UNCHANGED <<chats, at, arm, gpu, restarts, executions, saved>>

\* The write of a dump onto what the file holds: two writes that overlap leave
\* the last one or a mixture, and a write that raises is suppressed.
Written(x) ==
  {Whole(image[x])}
    \cup (IF disk \in {NotWhole("cut"), Whole(image[x])} THEN {} ELSE {NotWhole("torn")})
    \cup (IF WritesFail THEN {disk} ELSE {})

EndSave(x) ==
  /\ disk' \in Written(x)
  /\ saved' = IF disk' = Whole(image[x]) THEN saved \cup PostsIn(image[x]) ELSE saved
  /\ image' = [image EXCEPT ![x] = NoChats]

RequestSaved(q) ==
  /\ pc[RequestOf(q)] = "write"
  /\ EndSave(RequestOf(q))
  /\ Goto(RequestOf(q), IF KindOf[q] = "post" THEN "schedule" ELSE "answered")
  /\ UNCHANGED <<chats, at, arm, gpu, restarts, executions>>

-----------------------------------------------------------------------------
(* _execute_turn: the worker of a turn.                                    *)

ArmOf(q) == Order[arm[q]]
TurnOf(q) == chats[ChatOf[q]].turns[at[q] + 1]

\* Mutant: the loop over the arms runs past its end.
NextArmPastEnd(q) == arm' = [arm EXCEPT ![q] = @ + 1] /\ Goto(WorkerOf(q), "test")

NextArm(q) ==
  IF arm[q] < Len(Order)
    THEN arm' = [arm EXCEPT ![q] = @ + 1] /\ Goto(WorkerOf(q), "test")
    ELSE arm' = arm /\ Goto(WorkerOf(q), "off")

\* Mutant: a resumed turn runs both its arms.
NeverAnswered(q) == FALSE

Answered(q) == ArmOf(q) \in TurnOf(q).done

\* An arm that has answered is skipped; the test is not repeated once the
\* worker holds the lock.
TestArm(q) ==
  /\ pc[WorkerOf(q)] = "test"
  /\ IF Answered(q) THEN NextArm(q)
     ELSE Goto(WorkerOf(q), "wait") /\ arm' = arm
  /\ UNCHANGED <<chats, disk, image, at, gpu, restarts, executions, saved>>

TakeGpu(q) ==
  /\ pc[WorkerOf(q)] = "wait" /\ gpu = NoRequest
  /\ gpu' = q
  /\ Goto(WorkerOf(q), "mark")
  /\ UNCHANGED <<chats, disk, image, at, arm, restarts, executions, saved>>

\* The save of the status "running" is over; the arm runs.
RunArm(q) ==
  /\ pc[WorkerOf(q)] = "marking"
  /\ EndSave(WorkerOf(q))
  /\ executions' = [executions EXCEPT ![TurnOf(q).req][ArmOf(q)] = @ + 1]
  /\ Goto(WorkerOf(q), "run")
  /\ UNCHANGED <<chats, at, arm, gpu, restarts>>

\* _run_arm never raises: an error is an answer as well.
ArmAnswers(q) ==
  /\ pc[WorkerOf(q)] = "run"
  /\ chats' = [chats EXCEPT ![ChatOf[q]].turns[at[q] + 1].done = @ \cup {ArmOf(q)}]
  /\ Goto(WorkerOf(q), "keep")
  /\ UNCHANGED <<disk, image, at, arm, gpu, restarts, executions, saved>>

ReleaseGpu(q) ==
  /\ pc[WorkerOf(q)] = "keeping"
  /\ EndSave(WorkerOf(q))
  /\ gpu' = NoRequest
  /\ NextArm(q)
  /\ UNCHANGED <<chats, at, restarts, executions>>

-----------------------------------------------------------------------------
(* The server stops, anywhere, and starts again: _load takes what the file *)
(* holds, or nothing if it cannot be parsed, and _resume_unfinished starts *)
(* a worker for every turn an arm has not answered.                        *)

Loaded == disk.data

\* Mutant: a turn that one arm has answered is not resumed.
UnfinishedByBoth(data) == { t \in TurnsIn(data) : t.done = {} }

Unfinished(data) == { t \in TurnsIn(data) : t.done # Arm }

Restart ==
  /\ restarts < MaxRestarts /\ restarts' = restarts + 1
  /\ chats' = Loaded
  /\ pc' = [x \in Thread |->
              IF x[2] = "worker"
                THEN IF \E t \in Unfinished(Loaded) : t.req = x[1] THEN "test" ELSE "off"
                ELSE IF pc[x] \in {"idle", "answered"} THEN pc[x] ELSE "lost"]
  /\ image' = [x \in Thread |-> NoChats]
  /\ at' = [q \in Request |->
              IF \E t \in TurnsIn(Loaded) : t.req = q
                THEN (CHOOSE t \in TurnsIn(Loaded) : t.req = q).n ELSE at[q]]
  /\ arm' = [q \in Request |-> 1]
  /\ gpu' = NoRequest
  /\ executions' = [q \in Request |-> [a \in Arm |->
              IF \E t \in TurnsIn(Loaded) : t.req = q /\ a \in t.done
                THEN executions[q][a] ELSE 0]]
  /\ UNCHANGED <<disk, saved>>

-----------------------------------------------------------------------------
RequestStep(q) ==
  \/ AppendTurn(q) \/ BeginSave(RequestOf(q)) \/ RequestSaved(q) \/ Schedule(q)

WorkerStep(q) ==
  \/ TestArm(q) \/ TakeGpu(q) \/ BeginSave(WorkerOf(q)) \/ RunArm(q) \/ ArmAnswers(q)
  \/ ReleaseGpu(q)

Next ==
  \/ \E q \in Request :
       CreateChat(q) \/ Rename(q) \/ CountTurns(q) \/ RequestStep(q) \/ WorkerStep(q)
  \/ Restart

Spec == Init /\ [][Next]_vars

\* Threads run, and a model answers or times out.  The lock need not be fair:
\* each worker takes it at most twice, so none waits for ever.
FairSpec == Spec /\ \A q \in Request : WF_vars(RequestStep(q)) /\ WF_vars(WorkerStep(q))

-----------------------------------------------------------------------------
(* What the server promises.                                               *)

Registered(q) == q \in PostsIn(chats)
Complete(q) == \E t \in TurnsIn(chats) : t.req = q /\ t.done = Arm

\* A turn is found again by its "n", after the response and after a restart,
\* so n has to be its position, and no two turns may share one.
IndexedByN ==
  \A c \in DOMAIN chats : \A i \in DOMAIN chats[c].turns : chats[c].turns[i].n = i - 1

\* An arm is not run again unless a restart found it unanswered: a second run
\* would write the turn's facts into the memory a second time.
ExecutedOnce == \A q \in Request : \A a \in Arm : executions[q][a] <= 1

\* _execute_turn: a turn completes whether or not anyone is watching; README
\* "The playground": an unfinished turn resumes on restart.  The exceptions: a
\* restart that found a file without the turn, and a request or a worker whose
\* _save raised because a dictionary grew while it iterated over it - from which
\* the next restart recovers the turn.
TurnsAnswered ==
  \A q \in Request :
    Registered(q) ~>
      Complete(q) \/ ~Registered(q) \/ pc[RequestOf(q)] = "failed" \/ pc[WorkerOf(q)] = "died"

\* _execute_turn's promise without exceptions, as it shows once every thread
\* has come to rest.
NoneStranded ==
  (\A x \in Thread : pc[x] \in Resting) => \A q \in Request : Registered(q) => Complete(q)

\* Chat titles and transcripts survive a restart.
TranscriptsSurvive == saved \subseteq PostsIn(chats)
=============================================================================
