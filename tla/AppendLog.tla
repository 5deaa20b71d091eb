----------------------------- MODULE AppendLog -----------------------------
(***************************************************************************)
(* What the audit log promises: entries are appended one at a time, each   *)
(* after all others and naming the one that was the newest, and none is    *)
(* changed or removed.  AuditChain implements this specification, although *)
(* Record reads the newest entry, draws the id, inserts and commits in     *)
(* steps of their own.                                                     *)
(***************************************************************************)
EXTENDS Naturals

CONSTANT Id

VARIABLE log        \* the entries: their ids and the entry each of them names

Init == log = {}

\* The newest entry, 0 when there is none.
IsNewest(p) ==
    /\ p = 0 \/ \E e \in log : e.id = p
    /\ \A e \in log : e.id <= p

AppendEntry(i) ==
    /\ \A e \in log : e.id < i
    /\ \E p \in Id \cup {0} : IsNewest(p) /\ log' = log \cup {[id |-> i, prev |-> p]}

Next == \E i \in Id : AppendEntry(i)

Spec == Init /\ [][Next]_log
=============================================================================
