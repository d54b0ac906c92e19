------------------------------- MODULE Clients -------------------------------
(***************************************************************************)
(* The language model client that all threads of the demo share: make_llm, *)
(* ResilientChatOllama._generate and close_llms (demo/llm.py), with the    *)
(* probe, the restart and the wait of demo/resilient.py.                   *)
(*                                                                         *)
(* A request that fails makes its thread probe the server, restart it if   *)
(* the probe fails, replace the shared client and try once more:           *)
(*                                                                         *)
(*   request --> probe --> restart --> poll --> lock --> set --> close     *)
(*                 |_____________________________^                 |       *)
(*                                           retry <-- again <-----+       *)
(*                                                                         *)
(* The server is external: it answers, is wedged (accepts requests and     *)
(* never answers them), or is being started.                               *)
(***************************************************************************)
EXTENDS Naturals, FiniteSets

CONSTANTS
  Thread,          \* threads that call the model
  NoThread,
  ProbeAttempts,   \* PROBE_ATTEMPTS
  MaxWedges,       \* bound: how often the server wedges
  MaxFailures      \* bound: requests and probes that fail on a healthy server

ASSUME ClientsAssumption ==
  /\ NoThread \notin Thread
  /\ ProbeAttempts \in Nat \ {0}
  /\ MaxWedges \in Nat /\ MaxFailures \in Nat

Step == {"idle", "request", "probe", "restart", "poll", "lock", "set", "close", "again", "retry"}
NoClient == 0

VARIABLES
  server,     \* "ok", "wedged" or "starting"
  wedges,     \* how often it has wedged
  failures,   \* requests and probes that have failed on a healthy server
  made,       \* clients built so far: client i is the i-th
  client,     \* the client requests go through, NoClient while none is cached
  open,       \* clients not closed
  owner,      \* who holds _REBUILD_LOCK
  step,       \* step[t]: where thread t is in _generate
  via,        \* via[t]: the client of t's request
  old,        \* old[t]: the client t's rebuild replaces
  lost,       \* lost[t]: t's request will not be answered any more
  polls,      \* polls[t]: probes made since t's restart
  outcome,    \* outcome[t]: how t's last call ended
  dropped     \* history: clients that an interrupted rebuild did not close

serverVars == <<server, wedges>>
callVars == <<step, via, old, lost, polls, outcome>>
poolVars == <<made, client, open, owner, dropped>>
clientVars == <<serverVars, failures, poolVars, callVars>>

Client == 1..made
InFlight == { t \in Thread : step[t] \in {"request", "retry"} }

ClientsTypeOK ==
  /\ server \in {"ok", "wedged", "starting"}
  /\ wedges \in Nat /\ failures \in Nat /\ made \in Nat
  /\ client \in Client \cup {NoClient}
  /\ open \subseteq Client /\ dropped \subseteq Client
  /\ owner \in Thread \cup {NoThread}
  /\ step \in [Thread -> Step]
  /\ via \in [Thread -> Client \cup {NoClient}]
  /\ old \in [Thread -> Client \cup {NoClient}]
  /\ lost \in [Thread -> BOOLEAN]
  /\ polls \in [Thread -> 0..(ProbeAttempts - 1)]
  /\ outcome \in [Thread -> {"none", "answer", "error"}]

ClientsInit ==
  /\ server = "ok" /\ wedges = 0 /\ failures = 0
  /\ made = 0 /\ client = NoClient /\ open = {} /\ dropped = {}
  /\ owner = NoThread
  /\ step = [t \in Thread |-> "idle"]
  /\ via = [t \in Thread |-> NoClient]
  /\ old = [t \in Thread |-> NoClient]
  /\ lost = [t \in Thread |-> FALSE]
  /\ polls = [t \in Thread |-> 0]
  /\ outcome = [t \in Thread |-> "none"]

-----------------------------------------------------------------------------
(* The cache.                                                              *)

\* make_llm: the cached client, or a new one, under _CACHE_LOCK.
MakeLlm ==
  /\ IF client = NoClient
     THEN made' = made + 1 /\ client' = made + 1 /\ open' = open \cup {made + 1}
     ELSE UNCHANGED <<made, client, open>>
  /\ UNCHANGED <<serverVars, failures, owner, dropped, callVars>>

\* close_llms: every cached client is closed, the cache is emptied.
CloseLlms ==
  /\ open' = open \ {client}
  /\ client' = NoClient
  /\ UNCHANGED <<serverVars, failures, made, owner, dropped, callVars>>

-----------------------------------------------------------------------------
(* _generate.                                                              *)

\* t's request leaves by the client that is current now.
Send(t, as) ==
  /\ step' = [step EXCEPT ![t] = as]
  /\ via' = [via EXCEPT ![t] = client]
  /\ lost' = [lost EXCEPT ![t] = client \notin open]

Call(t) ==
  /\ step[t] = "idle" /\ client # NoClient
  /\ Send(t, "request")
  /\ outcome' = [outcome EXCEPT ![t] = "none"]
  /\ UNCHANGED <<serverVars, failures, poolVars, old, polls>>

End(t, how) ==
  /\ step' = [step EXCEPT ![t] = "idle"]
  /\ via' = [via EXCEPT ![t] = NoClient]
  /\ old' = [old EXCEPT ![t] = NoClient]
  /\ lost' = [lost EXCEPT ![t] = FALSE]
  /\ polls' = [polls EXCEPT ![t] = 0]
  /\ outcome' = [outcome EXCEPT ![t] = how]

\* The server answers the first request or the second.
Reply(t) ==
  /\ t \in InFlight /\ server = "ok" /\ ~lost[t]
  /\ End(t, "answer")
  /\ UNCHANGED <<serverVars, failures, poolVars>>

\* It will not be answered: the client times out, or its connection is gone.
CannotBeAnswered(t) == server # "ok" \/ lost[t]

\* A request may also fail although the server is healthy.
RequestFails(t) ==
  \/ CannotBeAnswered(t) /\ UNCHANGED failures
  \/ ~CannotBeAnswered(t) /\ failures < MaxFailures /\ failures' = failures + 1

\* `except Exception as first`
FirstFails(t) ==
  /\ step[t] = "request" /\ RequestFails(t)
  /\ step' = [step EXCEPT ![t] = "probe"]
  /\ UNCHANGED <<serverVars, poolVars, via, old, lost, polls, outcome>>

\* `raise second from first`
SecondFails(t) ==
  /\ step[t] = "retry" /\ RequestFails(t)
  /\ End(t, "error")
  /\ UNCHANGED <<serverVars, poolVars>>

-----------------------------------------------------------------------------
(* ensure_healthy.                                                         *)

\* The server has generated in time, for the first probe or a later one.
Healthy(t) ==
  /\ step[t] \in {"probe", "poll"} /\ server = "ok"
  /\ step' = [step EXCEPT ![t] = "lock"]
  /\ UNCHANGED <<serverVars, failures, poolVars, via, old, lost, polls, outcome>>

\* A server that is being started fails the probe like a wedged one, and so may
\* a healthy one that is busy.
ProbeFails ==
  \/ server # "ok" /\ UNCHANGED failures
  \/ server = "ok" /\ failures < MaxFailures /\ failures' = failures + 1

Unhealthy(t) ==
  /\ step[t] = "probe" /\ ProbeFails
  /\ step' = [step EXCEPT ![t] = "restart"]
  /\ UNCHANGED <<serverVars, poolVars, via, old, lost, polls, outcome>>

\* The daemon is restarted: what it was working on is gone, whoever sent it.
Restart(t) ==
  /\ step[t] = "restart"
  /\ server' = "starting"
  /\ lost' = [u \in Thread |-> lost[u] \/ u \in InFlight]
  /\ step' = [step EXCEPT ![t] = "poll"]
  /\ UNCHANGED <<wedges, failures, poolVars, via, old, polls, outcome>>

\* for _ in range(PROBE_ATTEMPTS)
LastProbe(t) == polls[t] + 1 = ProbeAttempts

\* The server is probed again, and in the end the first failure is raised.
Poll(t) ==
  /\ step[t] = "poll" /\ ProbeFails
  /\ IF LastProbe(t) THEN End(t, "error")
     ELSE /\ polls' = [polls EXCEPT ![t] = @ + 1]
          /\ UNCHANGED <<step, via, old, lost, outcome>>
  /\ UNCHANGED <<serverVars, poolVars>>

-----------------------------------------------------------------------------
(* _rebuild_clients, under _REBUILD_LOCK.                                  *)

\* Mutant: there is no lock.
EnterUnlocked(t) ==
  /\ step[t] = "lock"
  /\ old' = [old EXCEPT ![t] = client]
  /\ step' = [step EXCEPT ![t] = "set"]
  /\ UNCHANGED <<serverVars, failures, poolVars, via, lost, polls, outcome>>

\* The lock is taken and the client to be replaced is read.
Lock(t) ==
  /\ step[t] = "lock" /\ owner = NoThread
  /\ owner' = t
  /\ old' = [old EXCEPT ![t] = client]
  /\ step' = [step EXCEPT ![t] = "set"]
  /\ UNCHANGED <<serverVars, failures, made, client, open, dropped, via, lost, polls, outcome>>

\* _set_clients builds another.
SetClients(t) ==
  /\ step[t] = "set"
  /\ made' = made + 1 /\ client' = made + 1 /\ open' = open \cup {made + 1}
  /\ step' = [step EXCEPT ![t] = "close"]
  /\ UNCHANGED <<serverVars, failures, owner, dropped, via, old, lost, polls, outcome>>

\* Mutant: the client that is current when the close is reached is closed.
ReplacedNow(t) == client

\* `old`, as it was read before the rebuild.
Replaced(t) == old[t]

\* The replaced client is closed, under whoever is using it, and the lock is
\* released.
CloseOld(t) ==
  /\ step[t] = "close"
  /\ open' = open \ {Replaced(t)}
  /\ owner' = NoThread
  /\ step' = [step EXCEPT ![t] = "again"]
  /\ lost' = [u \in Thread |-> lost[u] \/ (u \in InFlight /\ via[u] = Replaced(t))]
  /\ UNCHANGED <<serverVars, failures, made, client, dropped, via, old, polls, outcome>>

\* The request is sent again, by whatever client is current by now.
Retry(t) ==
  /\ step[t] = "again"
  /\ Send(t, "retry")
  /\ UNCHANGED <<serverVars, failures, poolVars, old, polls, outcome>>

\* A BaseException is raised in t, wherever it is: the lock is released, the
\* replaced client stays open, and nobody has it any more.
Interrupted(t) ==
  /\ owner' = IF owner = t THEN NoThread ELSE owner
  /\ dropped' = IF step[t] = "close" THEN dropped \cup {old[t]} ELSE dropped
  /\ End(t, "error")
  /\ UNCHANGED <<serverVars, failures, made, client, open>>

-----------------------------------------------------------------------------
Wedge ==
  /\ server = "ok" /\ wedges < MaxWedges
  /\ server' = "wedged" /\ wedges' = wedges + 1
  /\ UNCHANGED <<failures, poolVars, callVars>>

\* The restarted server generates; nothing says that it ever does.
Started ==
  /\ server = "starting"
  /\ server' = "ok"
  /\ UNCHANGED <<wedges, failures, poolVars, callVars>>

Server == Wedge \/ Started

\* What t does by itself once it has called.
Generate(t) ==
  \/ Reply(t)
  \/ FirstFails(t)
  \/ SecondFails(t)
  \/ Healthy(t)
  \/ Unhealthy(t)
  \/ Restart(t)
  \/ Poll(t)
  \/ Lock(t)
  \/ SetClients(t)
  \/ CloseOld(t)
  \/ Retry(t)

-----------------------------------------------------------------------------
\* However many threads see the server fail at once, each client that was
\* replaced has been closed: one pool of sockets is open, or none once the
\* cache is empty, besides those a deadline left behind in a rebuild.
OneOpenClient ==
  owner = NoThread => open \ dropped \subseteq {client}

\* Nobody calls through a client that a finished rebuild has replaced: the
\* shared client is open whenever it is there.
CurrentIsOpen == client # NoClient => client \in open

\* _rebuild_clients: "this only runs after `ensure_healthy` has found the
\* server wedged, at which point any in-flight request is already lost".
ClosesOnlyLost ==
  [][\A u \in Thread :
       u \in InFlight /\ step'[u] = step[u] /\ via[u] \in open /\ via[u] \notin open'
         => lost[u] \/ server # "ok"]_clientVars
=============================================================================
