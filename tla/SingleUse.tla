----------------------------- MODULE SingleUse -----------------------------
(***************************************************************************)
(* What a secret that may be used once promises, whatever stands behind    *)
(* it: a use is granted only while there was none, to one user, and is     *)
(* never taken back or passed on.  Tunnel tickets, enrollment tokens for   *)
(* one device and reauthentications are such secrets; TunnelTicket,        *)
(* Enrollment and Privilege implement this specification.                  *)
(***************************************************************************)
CONSTANTS
    Secret,     \* what is handed out
    User        \* what a use is granted to

VARIABLE
    spent       \* the users each secret was used by

Init == spent = [s \in Secret |-> {}]

\* The whole of the check and the mark, as one step.
Use(s, u) ==
    /\ spent[s] = {}
    /\ spent' = [spent EXCEPT ![s] = {u}]

Next == \E s \in Secret, u \in User : Use(s, u)

Spec == Init /\ [][Next]_spent
=============================================================================
