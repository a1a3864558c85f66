----------------------------- MODULE TopicTable -----------------------------
(***************************************************************************)
(* What the rest of the program relies on of the topics: the subscribers   *)
(* on the chain, the rows of the topic tables and their member counts.     *)
(* Module Topic implements it; module Discovery is built on it.            *)
(***************************************************************************)
EXTENDS Naturals, FiniteSets

CONSTANT Users

VARIABLES
    chain,      \* the subscribers on the chain
    joined,     \* the users with a row for the topic
    count,      \* its member_count
    ever        \* history: users that have ever been subscribed

table == <<chain, joined, count, ever>>

TableInit ==
    /\ chain = {}
    /\ joined = {}
    /\ count = [u \in Users |-> 0]
    /\ ever = {}

\* A join: first the chain, then the row, with no member counted yet.
Subscribe(u) ==
    /\ chain' = chain \cup {u}
    /\ ever' = ever \cup {u}
    /\ UNCHANGED <<joined, count>>

Keep(u) ==
    /\ u \in ever
    /\ joined' = joined \cup {u}
    /\ count' = [count EXCEPT ![u] = 0]
    /\ UNCHANGED <<chain, ever>>

\* A member count is never more than the users that were ever subscribed.
Recount(u) ==
    /\ u \in joined
    /\ \E n \in 0 .. Cardinality(ever) : count' = [count EXCEPT ![u] = n]
    /\ UNCHANGED <<chain, joined, ever>>

\* A leave: first the chain, then the row.
Unsubscribe(u) ==
    /\ u \in joined
    /\ chain' = chain \ {u}
    /\ UNCHANGED <<joined, count, ever>>

Drop(u) ==
    /\ joined' = joined \ {u}
    /\ count' = [count EXCEPT ![u] = 0]
    /\ UNCHANGED <<chain, ever>>

TableNext ==
    \E u \in Users :
        Subscribe(u) \/ Keep(u) \/ Recount(u) \/ Unsubscribe(u) \/ Drop(u)

TableSpec == TableInit /\ [][TableNext]_table
=============================================================================
