----------------------------- MODULE Connections -----------------------------
(***************************************************************************)
(* The database connections of a run: _ThreadLocalConnection (conditions.py) *)
(* gives each thread a connection of its own and keeps all of them in a    *)
(* registry, for the cleanup of the run to close.  Connections outlive the *)
(* threads that made them: ToolNode's threads end with their message.      *)
(***************************************************************************)
EXTENDS Naturals, FiniteSets

CONSTANTS
  Worker,         \* threads that execute statements
  MaxConnections  \* bound: connections made

ASSUME ConnectionsAssumption == MaxConnections \in Nat

NoConn == 0

VARIABLES
  opened,    \* connections made so far: connection i is the i-th
  live,      \* connections that are not closed
  local,     \* local[w]: the connection in w's thread-local storage
  registry   \* _all

connVars == <<opened, live, local, registry>>
Conn == 1..opened

ConnectionsTypeOK ==
  /\ opened \in Nat
  /\ live \subseteq Conn /\ registry \subseteq Conn
  /\ local \in [Worker -> Conn \cup {NoConn}]

ConnectionsInit ==
  /\ opened = 0 /\ live = {} /\ registry = {}
  /\ local = [w \in Worker |-> NoConn]

\* _get finds a connection that is open.
Usable(w) == local[w] \in live

\* _get connects, and keeps the connection in the thread's own storage ...
Connect(w) ==
  /\ ~Usable(w) /\ opened < MaxConnections
  /\ opened' = opened + 1
  /\ live' = live \cup {opened + 1}
  /\ local' = [local EXCEPT ![w] = opened + 1]
  /\ UNCHANGED registry

\* ... then in the registry, under its lock.
Register(w) ==
  /\ registry' = registry \cup {local[w]}
  /\ UNCHANGED <<opened, live, local>>

\* An error between the two: the connection is nobody's.
Lose(w) ==
  /\ local' = [local EXCEPT ![w] = NoConn]
  /\ UNCHANGED <<opened, live, registry>>

\* The threads of ToolNode end; their storage goes with them.
ThreadsEnd(ws) ==
  /\ local' = [w \in Worker |-> IF w \in ws THEN NoConn ELSE local[w]]
  /\ UNCHANGED <<opened, live, registry>>

\* Mutant: close() closes the connection of the thread that calls it.
CloseOwn(w) == live \ {local[w]}

\* The registry is a class attribute: the connections of every instance.
ClosedBy(w) == live \ registry

\* close(), called by w.
CloseAll(w) ==
  /\ live' = ClosedBy(w)
  /\ registry' = {}
  /\ UNCHANGED <<opened, local>>
=============================================================================
