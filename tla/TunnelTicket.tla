---------------------------- MODULE TunnelTicket ----------------------------
(***************************************************************************)
(* SSH/RDP tunnels (internal/remotesession/tunnel.go and                   *)
(* internal/httpapi/handlers_tunnels.go): a request opens a remote session *)
(* and issues a ticket, a wr-helper process redeems the ticket and is      *)
(* connected to the session's relay stream.                                *)
(*                                                                         *)
(* Against each other run the request that opens the tunnel, any number of *)
(* helpers that hold the same ticket, the agent's session_close, an        *)
(* administrator's close, the loss of the agent's connection, and a        *)
(* restart of the server.  Each database statement is one step.  Writes to *)
(* the database on the way out are taken to succeed (the code ignores      *)
(* their errors); the insert of the ticket may fail.                       *)
(***************************************************************************)
EXTENDS Naturals, FiniteSets

CONSTANTS
    Tunnel,            \* tunnels: a remote session, its ticket row and its stream
    Helper,            \* calls of handleTunnelStream
    NoTunnel,          \* the helper has not called yet
    MaxTunnelRestarts  \* bound: restarts of the server

ASSUME TunnelAssumption == NoTunnel \notin Tunnel /\ MaxTunnelRestarts \in Nat

VARIABLES
    sessionState, \* remote_sessions.state
    ticket,       \* tunnel_sessions.state
    stale,        \* tickets past expires_at
    registered,   \* streams in the relay broker
    opening,      \* handleCreateTunnel: the step that is next
    closer,       \* closeHandler, handleCloseSession and the disconnect handler
    helper,       \* handleTunnelStream: the step that is next, and its ticket
    restarts

ticketVars == <<sessionState, ticket, stale, registered, opening, closer, helper, restarts>>

Open == {"requested", "active"}
Redeeming == {"locked", "consumed", "checked", "attached", "served", "unregistered", "recorded", "closing"}

TicketTypeOK ==
    /\ sessionState \in [Tunnel -> Open \cup {"none", "failed", "closed", "interrupted"}]
    /\ ticket \in [Tunnel -> {"none", "ticket_issued", "active", "closed", "expired"}]
    /\ stale \in SUBSET Tunnel /\ registered \in SUBSET Tunnel
    /\ opening \in [Tunnel -> {"idle", "asking", "answered", "activated", "issued", "shown", "failed"}]
    /\ closer \in [Tunnel -> [{"agent", "admin", "lost"} -> {"idle", "checked", "half"}]]
    /\ helper \in [Helper -> [at : Redeeming \cup {"idle", "refused", "left", "killed"},
                              t : Tunnel \cup {NoTunnel}, won : BOOLEAN]]
    /\ restarts \in 0..MaxTunnelRestarts

NoCloser == [c \in {"agent", "admin", "lost"} |-> "idle"]

TicketInit ==
    /\ sessionState = [t \in Tunnel |-> "none"]
    /\ ticket = [t \in Tunnel |-> "none"]
    /\ stale = {} /\ registered = {}
    /\ opening = [t \in Tunnel |-> "idle"]
    /\ closer = [t \in Tunnel |-> NoCloser]
    /\ helper = [h \in Helper |-> [at |-> "idle", t |-> NoTunnel, won |-> FALSE]]
    /\ restarts = 0

----------------------------------------------------------------------------
(* handleCreateTunnel and OpenTunnel *)

\* The request is permitted and the device connected: the session's row.
CreateTunnel(t) ==
    /\ opening[t] = "idle"
    /\ sessionState' = [sessionState EXCEPT ![t] = "requested"]
    /\ opening' = [opening EXCEPT ![t] = "asking"]
    /\ UNCHANGED <<ticket, stale, registered, closer, helper, restarts>>

\* SendAndWait returns the agent's success.
AgentReady(t) ==
    /\ opening[t] = "asking"
    /\ opening' = [opening EXCEPT ![t] = "answered"]
    /\ UNCHANGED <<sessionState, ticket, stale, registered, closer, helper, restarts>>

\* No answer in time, no connection, or the agent refuses.
OpenTunnelFails(t) ==
    /\ opening[t] = "asking"
    /\ sessionState' = [sessionState EXCEPT ![t] = "failed"]
    /\ opening' = [opening EXCEPT ![t] = "failed"]
    /\ UNCHANGED <<ticket, stale, registered, closer, helper, restarts>>

\* SetState, whatever happened to the row meanwhile.
SetActive(t) ==
    /\ opening[t] = "answered"
    /\ sessionState' = [sessionState EXCEPT ![t] = "active"]
    /\ opening' = [opening EXCEPT ![t] = "activated"]
    /\ UNCHANGED <<ticket, stale, registered, closer, helper, restarts>>

IssueTicket(t) ==
    /\ opening[t] = "activated"
    /\ ticket' = [ticket EXCEPT ![t] = "ticket_issued"]
    /\ opening' = [opening EXCEPT ![t] = "issued"]
    /\ UNCHANGED <<sessionState, stale, registered, closer, helper, restarts>>

\* The session stays active: nothing takes back what SetState wrote.
IssueFails(t) ==
    /\ opening[t] = "activated"
    /\ opening' = [opening EXCEPT ![t] = "failed"]
    /\ UNCHANGED <<sessionState, ticket, stale, registered, closer, helper, restarts>>

\* broker.Register; the answer shows the ticket.
ShowTicket(t) ==
    /\ opening[t] = "issued"
    /\ registered' = registered \cup {t}
    /\ opening' = [opening EXCEPT ![t] = "shown"]
    /\ UNCHANGED <<sessionState, ticket, stale, closer, helper, restarts>>

TicketExpires(t) ==
    /\ ticket[t] = "ticket_issued" /\ t \notin stale
    /\ stale' = stale \cup {t}
    /\ UNCHANGED <<sessionState, ticket, registered, opening, closer, helper, restarts>>

----------------------------------------------------------------------------
(* handleTunnelStream *)

At(h, step) == helper' = [helper EXCEPT ![h].at = step]

\* Mutant: SELECT without FOR UPDATE.
LockTicketShared(h, t) ==
    LET valid == ticket[t] = "ticket_issued" /\ t \notin stale
    IN /\ helper[h].at = "idle" /\ opening[t] = "shown"
       /\ helper' = [helper EXCEPT ![h] = [at |-> IF valid THEN "locked" ELSE "refused", t |-> t, won |-> FALSE]]
       /\ UNCHANGED <<sessionState, ticket, stale, registered, opening, closer, restarts>>

\* ConsumeTicket, the SELECT ... FOR UPDATE and the tests: it waits until no other
\* transaction holds the row, and keeps the row only if the ticket is good.
LockTicket(h, t) ==
    LET valid == ticket[t] = "ticket_issued" /\ t \notin stale
    IN /\ helper[h].at = "idle" /\ opening[t] = "shown"
       /\ \A k \in Helper : ~(helper[k].at = "locked" /\ helper[k].t = t)
       /\ helper' = [helper EXCEPT ![h] = [at |-> IF valid THEN "locked" ELSE "refused", t |-> t, won |-> FALSE]]
       /\ UNCHANGED <<sessionState, ticket, stale, registered, opening, closer, restarts>>

\* ConsumeTicket, the UPDATE and the COMMIT.
ConsumeTicket(h) ==
    /\ helper[h].at = "locked"
    /\ helper' = [helper EXCEPT ![h] = [at |-> "consumed", t |-> helper[h].t, won |-> TRUE]]
    /\ ticket' = [ticket EXCEPT ![helper[h].t] = "active"]
    /\ UNCHANGED <<sessionState, stale, registered, opening, closer, restarts>>

\* The UPDATE or the COMMIT fails, or the helper is gone: the transaction is rolled back.
ConsumeFails(h) ==
    /\ helper[h].at = "locked"
    /\ At(h, "refused")
    /\ UNCHANGED <<sessionState, ticket, stale, registered, opening, closer, restarts>>

\* A refused helper leaves its ticket consumed.
CheckSession(h) ==
    /\ helper[h].at = "consumed"
    /\ At(h, IF sessionState[helper[h].t] = "active" THEN "checked" ELSE "refused")
    /\ UNCHANGED <<sessionState, ticket, stale, registered, opening, closer, restarts>>

GetStream(h) ==
    /\ helper[h].at = "checked"
    /\ At(h, IF helper[h].t \in registered THEN "attached" ELSE "refused")
    /\ UNCHANGED <<sessionState, ticket, stale, registered, opening, closer, restarts>>

\* websocket.Accept; when it fails nothing is undone.
AcceptHelper(h) ==
    /\ helper[h].at = "attached"
    /\ \E step \in {"served", "refused"} : At(h, step)
    /\ UNCHANGED <<sessionState, ticket, stale, registered, opening, closer, restarts>>

\* The helper disconnects, the session's deadline passes or the stream is closed:
\* both loops end, then Unregister.
HelperEnds(h) ==
    /\ helper[h].at = "served"
    /\ At(h, "unregistered")
    /\ registered' = registered \ {helper[h].t}
    /\ UNCHANGED <<sessionState, ticket, stale, opening, closer, restarts>>

\* UpdateBytes and TunnelRepo.Close.
RecordTunnel(h) ==
    /\ helper[h].at = "unregistered"
    /\ At(h, "recorded")
    /\ ticket' = [ticket EXCEPT ![helper[h].t] = "closed"]
    /\ UNCHANGED <<sessionState, stale, registered, opening, closer, restarts>>

RereadSession(h) ==
    /\ helper[h].at = "recorded"
    /\ At(h, IF sessionState[helper[h].t] = "active" THEN "closing" ELSE "left")
    /\ UNCHANGED <<sessionState, ticket, stale, registered, opening, closer, restarts>>

\* sessions.Close("helper_disconnected").
CloseTunnelSession(h) ==
    /\ helper[h].at = "closing"
    /\ At(h, "left")
    /\ sessionState' = [sessionState EXCEPT ![helper[h].t] = "closed"]
    /\ UNCHANGED <<ticket, stale, registered, opening, closer, restarts>>

----------------------------------------------------------------------------
(* The other ways a tunnel ends *)

SetCloser(t, c, step) == closer' = [closer EXCEPT ![t][c] = step]

\* The agent's session_close and the administrator's request look at the state first.
CloseRequested(t, c) ==
    /\ c \in {"agent", "admin"} /\ closer[t][c] = "idle" /\ sessionState[t] = "active"
    /\ SetCloser(t, c, "checked")
    /\ UNCHANGED <<sessionState, ticket, stale, registered, opening, helper, restarts>>

\* The session close handler: Unregister, then Close.
AgentCloses(t) ==
    /\ \/ /\ closer[t]["agent"] = "checked" /\ SetCloser(t, "agent", "half")
          /\ registered' = registered \ {t} /\ UNCHANGED sessionState
       \/ /\ closer[t]["agent"] = "half" /\ SetCloser(t, "agent", "idle")
          /\ sessionState' = [sessionState EXCEPT ![t] = "closed"] /\ UNCHANGED registered
    /\ UNCHANGED <<ticket, stale, opening, helper, restarts>>

\* handleCloseSession: Close, then Unregister.
AdminCloses(t) ==
    /\ \/ /\ closer[t]["admin"] = "checked" /\ SetCloser(t, "admin", "half")
          /\ sessionState' = [sessionState EXCEPT ![t] = "closed"] /\ UNCHANGED registered
       \/ /\ closer[t]["admin"] = "half" /\ SetCloser(t, "admin", "idle")
          /\ registered' = registered \ {t} /\ UNCHANGED sessionState
    /\ UNCHANGED <<ticket, stale, opening, helper, restarts>>

\* The disconnect handler: InterruptAllForDevice, then Unregister.
ConnectionLost(t) ==
    /\ \/ /\ closer[t]["lost"] = "idle" /\ sessionState[t] \in Open /\ SetCloser(t, "lost", "half")
          /\ sessionState' = [sessionState EXCEPT ![t] = "interrupted"] /\ UNCHANGED registered
       \/ /\ closer[t]["lost"] = "half" /\ SetCloser(t, "lost", "idle")
          /\ registered' = registered \ {t} /\ UNCHANGED sessionState
    /\ UNCHANGED <<ticket, stale, opening, helper, restarts>>

\* NewRouter, before the listeners open: InvalidateAllOutstanding, InterruptAllActive.
RestartTunnels ==
    /\ restarts < MaxTunnelRestarts /\ restarts' = restarts + 1
    /\ ticket' = [t \in Tunnel |-> IF ticket[t] = "ticket_issued" THEN "expired" ELSE ticket[t]]
    /\ sessionState' = [t \in Tunnel |-> IF sessionState[t] \in Open THEN "interrupted" ELSE sessionState[t]]
    /\ registered' = {}
    /\ opening' = [t \in Tunnel |-> IF opening[t] \in {"idle", "shown"} THEN opening[t] ELSE "failed"]
    /\ closer' = [t \in Tunnel |-> NoCloser]
    /\ helper' = [h \in Helper |-> IF helper[h].at \in Redeeming THEN [helper[h] EXCEPT !.at = "killed"] ELSE helper[h]]
    /\ UNCHANGED stale

----------------------------------------------------------------------------
\* handleCreateTunnel with OpenTunnel, and handleTunnelStream, step by step.
OpenTunnel(t) ==
    \/ CreateTunnel(t) \/ AgentReady(t) \/ OpenTunnelFails(t) \/ SetActive(t)
    \/ IssueTicket(t) \/ IssueFails(t) \/ ShowTicket(t)
TunnelStream(h) ==
    \/ \E t \in Tunnel : LockTicket(h, t)
    \/ ConsumeTicket(h) \/ ConsumeFails(h)
    \/ CheckSession(h) \/ GetStream(h) \/ AcceptHelper(h) \/ HelperEnds(h)
    \/ RecordTunnel(h) \/ RereadSession(h) \/ CloseTunnelSession(h)

TicketNext ==
    \/ \E t \in Tunnel :
          \/ OpenTunnel(t) \/ TicketExpires(t)
          \/ AgentCloses(t) \/ AdminCloses(t) \/ ConnectionLost(t)
          \/ \E c \in {"agent", "admin"} : CloseRequested(t, c)
    \/ \E h \in Helper : TunnelStream(h)
    \/ RestartTunnels

TicketSpec == TicketInit /\ [][TicketNext]_ticketVars

----------------------------------------------------------------------------
\* However redemptions of a ticket overlap, and across restarts, ConsumeTicket
\* succeeds at most once for it (docs/RELAY.md 4: single use).
TicketSingleUse ==
    \A h, k \in Helper : helper[h].won /\ helper[k].won /\ helper[h].t = helper[k].t => h = k

SpentTickets == [t \in Tunnel |-> {h \in Helper : helper[h].won /\ helper[h].t = t}]
TicketUse == INSTANCE SingleUse WITH Secret <- Tunnel, User <- Helper, spent <- SpentTickets

\* docs/STATE_MACHINES.md 5: the ticket goes from ISSUED to USED atomically.  Overlapping
\* redemptions, lost helpers and restarts behave as one step that tests and marks the
\* ticket, and no redemption is ever undone or handed to another helper.
TicketUsedOnce == TicketUse!Spec
=============================================================================
