----------------------------- MODULE Namespaces -----------------------------
(***************************************************************************)
(* The namespace tree of the fact store (store.py, schema.sql).            *)
(*                                                                         *)
(* A row of `namespaces` is identified by (session_id, extra_path), and    *)
(* fork_namespace extends its parent's extra_path, so a namespace is here  *)
(* the non-empty sequence <<session, suffix, suffix, ...>>: the root of a  *)
(* session has length one, and the parent_id of a fork is its longest      *)
(* proper prefix.  Suffixes are the random segments of ids.py.             *)
(***************************************************************************)
EXTENDS Naturals, Sequences

CONSTANTS
  Session,  \* session ids
  Suffix    \* what random_fork_suffix can return

Segment == Session \cup Suffix

\* Every namespace that a session can hold, created yet or not.
Namespace == { n \in Seq(Segment) : n # <<>> }

\* get_or_create_namespace: the root of a session.
Root(session) == <<session>>

\* fork_namespace: the row a fork of `parent` inserts - or finds: the upsert
\* returns the existing row when the suffix has been drawn before.
Fork(parent, suffix) == Append(parent, suffix)

IsRoot(n) == Len(n) = 1

ParentOf(n) == SubSeq(n, 1, Len(n) - 1)

\* ancestor_chain: the namespace itself and all its ancestors.
Chain(n) == { SubSeq(n, 1, i) : i \in 1..Len(n) }

\* descendant_scope: those of the rows `rows` strictly below n.
Descendants(n, rows) == { m \in rows : m # n /\ n \in Chain(m) }

\* What search and search_memory may read from n.
Readable(n, rows) == Chain(n) \cup Descendants(n, rows)

\* One of the two is the other, or an ancestor of it: never two siblings.
Comparable(m, n) == m \in Chain(n) \/ n \in Chain(m)
=============================================================================
