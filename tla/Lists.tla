------------------------------- MODULE Lists -------------------------------
(* std::list as the registries and the pool use it, beyond what Sequences   *)
(* offers: push_back is Append, front and pop_front are Head and Tail.      *)
EXTENDS Naturals, Sequences

Contents(q) == {q[i] : i \in 1 .. Len(q)}

\* list::erase of the entry at place i.
erase(q, i) == [j \in 1 .. Len(q) - 1 |-> IF j < i THEN q[j] ELSE q[j + 1]]
=============================================================================
