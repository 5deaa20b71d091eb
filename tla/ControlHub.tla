----------------------------- MODULE ControlHub -----------------------------
(***************************************************************************)
(* The agent control channel of wr-core (internal/controlhub/hub.go): the  *)
(* ServeAgentWS calls of the agents' connections, the sweeper goroutine,   *)
(* and the device row both of them write (internal/device/device.go).      *)
(*                                                                         *)
(* Every action is one step between two points where another goroutine can *)
(* run: a critical section of Hub.mu, or one SQL statement.  The row has   *)
(* no version check, so each statement overwrites what it finds.           *)
(*                                                                         *)
(* Time is kept as the age of last_seen_at, which the code only compares   *)
(* with ConnectionLostAfter and OfflineAfter: it stops growing at Horizon. *)
(* Database errors are not modelled, except the one the code causes itself *)
(* by using a context it has cancelled.  Health evaluation and audit       *)
(* records do not touch this state.                                        *)
(***************************************************************************)
EXTENDS Naturals, Integers

CONSTANTS
    Device, Conn, NoConn, NoDevice,
    ConnectionLostAfter, OfflineAfter    \* Timing, in ticks

ASSUME HubNoConnAssumption == NoConn \notin Conn
ASSUME HubNoDeviceAssumption == NoDevice \notin Device
ASSUME TimingAssumption == ConnectionLostAfter \in Nat /\ OfflineAfter \in Nat

VARIABLES
    status,     \* devices.status, or "deleted" when the row is gone
    cred,       \* devices.credential_status
    age,        \* time since devices.last_seen_at; Never when that is NULL
    conns,      \* Hub.conns
    pc,         \* where each ServeAgentWS call is
    dev,        \* the device whose agent made the connection
    cancelled,  \* connection.cancel was called
    link,       \* the socket as the two ends see it
    sweep       \* the sweeper: where it is, its id list, its locals

vars == <<status, cred, age, conns, pc, dev, cancelled, link, sweep>>
rowVars == <<status, cred, age>>
connVars == <<conns, pc, dev, cancelled, link>>

Never == -1
Horizon == IF ConnectionLostAfter > OfflineAfter THEN ConnectionLostAfter ELSE OfflineAfter

Status == {"unknown", "online", "connection_lost", "offline", "revoked", "deleted"}

\* idle -> dialing -> acked (handshake done) -> mapped (in Hub.conns) -> reading
\* -> ended (read loop returned) -> unmapped -> lost (row written) -> idle
Step == {"idle", "dialing", "acked", "mapped", "reading", "ended", "unmapped", "lost"}

\* up: both ends are there; down: the server's next read fails;
\* silent: the agent is gone and the server is not told.
Socket == {"none", "up", "down", "silent"}

SweepStep == {"idle", "next", "offline", "close", "cancel", "lost"}

TypeOK ==
    /\ status \in [Device -> Status]
    /\ cred \in [Device -> {"active", "revoked"}]
    /\ age \in [Device -> Never..Horizon]
    /\ conns \in [Device -> Conn \cup {NoConn}]
    /\ pc \in [Conn -> Step]
    /\ dev \in [Conn -> Device \cup {NoDevice}]
    /\ cancelled \in [Conn -> BOOLEAN]
    /\ link \in [Conn -> Socket]
    /\ sweep \in [at : SweepStep, todo : SUBSET Device,
                  d : Device \cup {NoDevice}, c : Conn \cup {NoConn}]

SweepIdle == [at |-> "idle", todo |-> {}, d |-> NoDevice, c |-> NoConn]

\* A device row as internal/enrollment inserts it; no connection.
Init ==
    /\ status = [d \in Device |-> "unknown"]
    /\ cred = [d \in Device |-> "active"]
    /\ age = [d \in Device |-> Never]
    /\ conns = [d \in Device |-> NoConn]
    /\ pc = [c \in Conn |-> "idle"]
    /\ dev = [c \in Conn |-> NoDevice]
    /\ cancelled = [c \in Conn |-> FALSE]
    /\ link = [c \in Conn |-> "none"]
    /\ sweep = SweepIdle

----------------------------------------------------------------------------
(* Statements on the device row: an UPDATE of a deleted row changes nothing. *)

UpdateStatusOnly(d, s) ==
    status' = IF status[d] = "deleted" THEN status ELSE [status EXCEPT ![d] = s]

UpdateConnectivity(d, s) ==
    /\ UpdateStatusOnly(d, s)
    /\ age' = IF status[d] = "deleted" THEN age ELSE [age EXCEPT ![d] = 0]

----------------------------------------------------------------------------
(* The agent's end (internal/agentcore): one connection at a time. *)

\* runSession dials; the agent has left its previous connection.  A connection
\* identity is free once nothing refers to it any more.
Dial(c, d) ==
    /\ pc[c] = "idle" /\ sweep.c # c
    /\ \A b \in Conn : dev[b] = d => link[b] # "up"
    /\ pc' = [pc EXCEPT ![c] = "dialing"]
    /\ dev' = [dev EXCEPT ![c] = d]
    /\ link' = [link EXCEPT ![c] = "up"]
    /\ UNCHANGED <<rowVars, conns, cancelled, sweep>>

\* The agent's runSession returns, or the machine or the path to it dies.
AgentDrops(c) ==
    /\ link[c] = "up"
    /\ \E l \in {"down", "silent"} : link' = [link EXCEPT ![c] = l]
    /\ UNCHANGED <<rowVars, conns, pc, dev, cancelled, sweep>>

\* The agent's read fails because the server cancelled the connection.
AgentSeesClose(c) ==
    /\ link[c] = "up" /\ cancelled[c]
    /\ link' = [link EXCEPT ![c] = "down"]
    /\ UNCHANGED <<rowVars, conns, pc, dev, cancelled, sweep>>

----------------------------------------------------------------------------
(* ServeAgentWS *)

\* The call returns and its identity becomes free.
Free(c) ==
    /\ pc' = [pc EXCEPT ![c] = "idle"]
    /\ dev' = [dev EXCEPT ![c] = NoDevice]
    /\ cancelled' = [cancelled EXCEPT ![c] = FALSE]
    /\ link' = [link EXCEPT ![c] = "none"]

HandshakeAccepts(d) == status[d] \notin {"revoked", "deleted"} /\ cred[d] = "active"

\* handshake succeeds: the row is read here and not again before the mapping.
Handshake(c) ==
    /\ pc[c] = "dialing" /\ link[c] = "up"
    /\ HandshakeAccepts(dev[c])
    /\ pc' = [pc EXCEPT ![c] = "acked"]
    /\ UNCHANGED <<rowVars, conns, dev, cancelled, link, sweep>>

\* handshake fails: the row, a blocked version, the signature, the 30 s limit.
HandshakeFails(c) ==
    /\ pc[c] = "dialing"
    /\ Free(c)
    /\ UNCHANGED <<rowVars, conns, sweep>>

\* Mutant: the older connection is replaced but not cancelled.
RegisterKeepsOld(c) ==
    /\ pc[c] = "acked"
    /\ pc' = [pc EXCEPT ![c] = "mapped"]
    /\ conns' = [conns EXCEPT ![dev[c]] = c]
    /\ UNCHANGED <<rowVars, dev, cancelled, link, sweep>>

\* The critical section of ServeAgentWS: supersede an older connection.
Register(c) ==
    /\ pc[c] = "acked"
    /\ pc' = [pc EXCEPT ![c] = "mapped"]
    /\ cancelled' = [b \in Conn |-> cancelled[b] \/ conns[dev[c]] = b]
    /\ conns' = [conns EXCEPT ![dev[c]] = c]
    /\ UNCHANGED <<rowVars, dev, link, sweep>>

\* UpdateConnectivity(ctx, online): fails if the connection was cancelled.
MarkOnline(c) ==
    /\ pc[c] = "mapped"
    /\ pc' = [pc EXCEPT ![c] = "reading"]
    /\ IF cancelled[c] THEN UNCHANGED <<status, age>>
                       ELSE UpdateConnectivity(dev[c], "online")
    /\ UNCHANGED <<cred, conns, dev, cancelled, link, sweep>>

\* Mutant: a heartbeat refreshes last_seen_at only.
HeartbeatSeenOnly(c) ==
    /\ pc[c] = "reading" /\ ~cancelled[c] /\ link[c] \in {"up", "down"}
    /\ age' = [age EXCEPT ![dev[c]] = 0]
    /\ UNCHANGED <<status, cred, connVars, sweep>>

\* readLoop reads a heartbeat; one sent before the agent closed is read too.
Heartbeat(c) ==
    /\ pc[c] = "reading" /\ ~cancelled[c] /\ link[c] \in {"up", "down"}
    /\ UpdateConnectivity(dev[c], "online")
    /\ UNCHANGED <<cred, connVars, sweep>>

\* Mutant: the read does not use the context that is cancelled.
ReadEndsOnErrorOnly(c) ==
    /\ pc[c] = "reading" /\ link[c] = "down"
    /\ pc' = [pc EXCEPT ![c] = "ended"]
    /\ UNCHANGED <<rowVars, conns, dev, cancelled, link, sweep>>

\* readLoop returns: the read fails, or its context is cancelled.
ReadEnds(c) ==
    /\ pc[c] = "reading" /\ (cancelled[c] \/ link[c] = "down")
    /\ pc' = [pc EXCEPT ![c] = "ended"]
    /\ UNCHANGED <<rowVars, conns, dev, cancelled, link, sweep>>

\* Mutant: the entry stays.
UnmapKeepsEntry(c) ==
    /\ pc[c] = "ended"
    /\ pc' = [pc EXCEPT ![c] = "unmapped"]
    /\ UNCHANGED <<rowVars, conns, dev, cancelled, link, sweep>>

\* Mutant: the entry is deleted without the comparison.
UnmapAny(c) ==
    /\ pc[c] = "ended"
    /\ pc' = [pc EXCEPT ![c] = "unmapped"]
    /\ conns' = [conns EXCEPT ![dev[c]] = NoConn]
    /\ UNCHANGED <<rowVars, dev, cancelled, link, sweep>>

\* The critical section after the read loop: delete the entry if it is this one.
Unmap(c) ==
    /\ pc[c] = "ended"
    /\ pc' = [pc EXCEPT ![c] = "unmapped"]
    /\ conns' = IF conns[dev[c]] = c THEN [conns EXCEPT ![dev[c]] = NoConn] ELSE conns
    /\ UNCHANGED <<rowVars, dev, cancelled, link, sweep>>

\* Mutant: the event name is written instead of the status.
MarkLostEventName(c) ==
    /\ pc[c] = "unmapped"
    /\ pc' = [pc EXCEPT ![c] = "lost"]
    /\ UpdateStatusOnly(dev[c], "disconnected")
    /\ UNCHANGED <<cred, age, conns, dev, cancelled, link, sweep>>

\* Mutant: an evicted or superseded connection does not write the row.
MarkLostUnlessCancelled(c) ==
    /\ pc[c] = "unmapped"
    /\ pc' = [pc EXCEPT ![c] = "lost"]
    /\ IF cancelled[c] THEN UNCHANGED status ELSE UpdateStatusOnly(dev[c], "connection_lost")
    /\ UNCHANGED <<cred, age, conns, dev, cancelled, link, sweep>>

\* UpdateStatusOnly(context.Background(), connection_lost), whoever is
\* registered for the device by now.
MarkLost(c) ==
    /\ pc[c] = "unmapped"
    /\ pc' = [pc EXCEPT ![c] = "lost"]
    /\ UpdateStatusOnly(dev[c], "connection_lost")
    /\ UNCHANGED <<cred, age, conns, dev, cancelled, link, sweep>>

\* The disconnect handler runs and ServeAgentWS returns.
Return(c) ==
    /\ pc[c] = "lost"
    /\ Free(c)
    /\ UNCHANGED <<rowVars, conns, sweep>>

----------------------------------------------------------------------------
(* Hub.sweep, every 15 s: the ids in Hub.conns, one device after the other. *)

SweepStart ==
    /\ sweep.at = "idle"
    /\ sweep' = [at |-> "next", todo |-> {d \in Device : conns[d] # NoConn}, d |-> NoDevice, c |-> NoConn]
    /\ UNCHANGED <<rowVars, connVars>>

\* Mutant: only a device that is online can go offline.
SweepVerdictOnlineOnly(st, a) ==
    IF a >= OfflineAfter /\ st = "online" THEN "offline"
    ELSE IF a >= ConnectionLostAfter /\ st = "online" THEN "lost"
    ELSE "next"

\* What the sweeper decides on the row it has read.
SweepVerdict(st, a) ==
    IF a >= OfflineAfter /\ st # "offline" THEN "offline"
    ELSE IF a >= ConnectionLostAfter /\ st = "online" THEN "lost"
    ELSE "next"

\* GetByID: no row or never seen means continue.
SweepRead(d) ==
    /\ sweep.at = "next" /\ d \in sweep.todo
    /\ LET skip == status[d] = "deleted" \/ age[d] = Never
       IN sweep' = [sweep EXCEPT !.todo = @ \ {d}, !.d = d,
                                 !.at = IF skip THEN "next" ELSE SweepVerdict(status[d], age[d])]
    /\ UNCHANGED <<rowVars, connVars>>

SweepMarkOffline ==
    /\ sweep.at = "offline"
    /\ UpdateStatusOnly(sweep.d, "offline")
    /\ sweep' = [sweep EXCEPT !.at = "close"]
    /\ UNCHANGED <<cred, age, connVars>>

\* closeConn, the critical section: takes the entry there is now.
SweepClose ==
    /\ sweep.at = "close"
    /\ sweep' = [sweep EXCEPT !.at = IF conns[sweep.d] = NoConn THEN "next" ELSE "cancel",
                              !.c = conns[sweep.d]]
    /\ conns' = [conns EXCEPT ![sweep.d] = NoConn]
    /\ UNCHANGED <<rowVars, pc, dev, cancelled, link>>

\* closeConn, after the unlock; then health.Evaluate.
SweepCancel ==
    /\ sweep.at = "cancel"
    /\ cancelled' = [cancelled EXCEPT ![sweep.c] = pc[sweep.c] # "idle"]
    /\ sweep' = [sweep EXCEPT !.at = "next", !.c = NoConn]
    /\ UNCHANGED <<rowVars, conns, pc, dev, link>>

SweepMarkLost ==
    /\ sweep.at = "lost"
    /\ UpdateStatusOnly(sweep.d, "connection_lost")
    /\ sweep' = [sweep EXCEPT !.at = "next"]
    /\ UNCHANGED <<cred, age, connVars>>

SweepEnd ==
    /\ sweep.at = "next" /\ sweep.todo = {}
    /\ sweep' = SweepIdle
    /\ UNCHANGED <<rowVars, connVars>>

Sweeper ==
    \/ SweepStart
    \/ \E d \in Device : SweepRead(d)
    \/ SweepMarkOffline
    \/ SweepClose
    \/ SweepCancel
    \/ SweepMarkLost
    \/ SweepEnd

----------------------------------------------------------------------------
(* The rest of the system *)

\* handleRevokeDevice: one transaction on the row; the hub is not told.
Revoke(d) ==
    /\ status[d] # "deleted"
    /\ status' = [status EXCEPT ![d] = "revoked"]
    /\ cred' = [cred EXCEPT ![d] = "revoked"]
    /\ UNCHANGED <<age, connVars, sweep>>

\* handleDeleteDevice: DELETE ... WHERE last_seen_at IS NULL.
Delete(d) ==
    /\ status[d] # "deleted" /\ age[d] = Never
    /\ status' = [status EXCEPT ![d] = "deleted"]
    /\ UNCHANGED <<cred, age, connVars, sweep>>

Tick ==
    /\ age' = [d \in Device |-> IF age[d] \in 0..(Horizon - 1) THEN age[d] + 1 ELSE age[d]]
    /\ UNCHANGED <<status, cred, connVars, sweep>>

\* wr-core stops and starts again: the rows stay, the connections do not.
ServerStop ==
    /\ conns' = [d \in Device |-> NoConn]
    /\ pc' = [c \in Conn |-> "idle"]
    /\ dev' = [c \in Conn |-> NoDevice]
    /\ cancelled' = [c \in Conn |-> FALSE]
    /\ link' = [c \in Conn |-> "none"]
    /\ sweep' = SweepIdle
    /\ UNCHANGED rowVars

\* The steps of the goroutine that serves connection c.
Serve(c) ==
    \/ Handshake(c)
    \/ HandshakeFails(c)
    \/ Register(c)
    \/ MarkOnline(c)
    \/ Heartbeat(c)
    \/ ReadEnds(c)
    \/ Unmap(c)
    \/ MarkLost(c)
    \/ Return(c)

Next ==
    \/ \E c \in Conn : \/ \E d \in Device : Dial(c, d)
                       \/ AgentDrops(c)
                       \/ AgentSeesClose(c)
                       \/ Serve(c)
    \/ Sweeper
    \/ \E d \in Device : Revoke(d) \/ Delete(d)
    \/ Tick
    \/ ServerStop

Spec == Init /\ [][Next]_vars

\* Goroutines that can run do run, the ticker ticks, and an agent whose
\* connection stands keeps sending heartbeats.  Nothing makes an agent dial,
\* a connection fail, an administrator act or the server stop.
Fairness ==
    /\ \A c \in Conn : /\ WF_vars(Register(c)) /\ WF_vars(MarkOnline(c))
                       /\ WF_vars(Heartbeat(c)) /\ WF_vars(ReadEnds(c))
                       /\ WF_vars(Unmap(c)) /\ WF_vars(MarkLost(c)) /\ WF_vars(Return(c))
    /\ WF_vars(Sweeper)
    /\ WF_vars(Tick)

FairSpec == Spec /\ Fairness
----------------------------------------------------------------------------
(* Safety *)

\* Hub.conns never routes to a connection of another device or to one whose
\* ServeAgentWS call has already done its cleanup (hub.go: the critical
\* sections of ServeAgentWS and closeConn).
MapSound ==
    \A d \in Device : conns[d] # NoConn =>
        dev[conns[d]] = d /\ pc[conns[d]] \in {"mapped", "reading", "ended"}

\* "Only one active primary control session per install ID": a connection that
\* is served and not cancelled is the registered one of its device, except
\* between the two halves of closeConn.
SinglePrimary ==
    \A c \in Conn : pc[c] \in {"mapped", "reading"} /\ ~cancelled[c] =>
        conns[dev[c]] = c \/ (sweep.at = "cancel" /\ sweep.c = c)

\* A row that says online has a ServeAgentWS call of the device that is still going to
\* write connection_lost.
Served(d) ==
    status[d] = "online" => \E c \in Conn : dev[c] = d /\ pc[c] \in {"reading", "ended", "unmapped"}

\* Only a stop of the server leaves a row online that no call will correct: heartbeats,
\* eviction, revocation and the cleanup at the end of ServeAgentWS do not, in any order
\* (hub.go), also after earlier stops.
OnlineMeansServed == [][\A d \in Device : Served(d) => Served(d)' \/ ServerStop]_vars

\* The hub is one implementation of the connection layer in HubLink.
Hub == INSTANCE HubLink WITH
         phase <- [c \in Conn |-> CASE pc[c] \in {"idle", "dialing", "acked"} -> "idle"
                                    [] pc[c] \in {"mapped", "reading"} -> "live"
                                    [] pc[c] = "ended" -> "ended"
                                    [] OTHER -> "unmapped"],
         dev <- [c \in Conn |-> IF pc[c] \in {"idle", "dialing", "acked"} THEN NoDevice ELSE dev[c]]

\* Every step of the detailed hub is a step of HubLink or invisible there.
ImplementsHubLink == Hub!LinkSpec

----------------------------------------------------------------------------
(* Liveness *)

\* A connection whose agent vanished without a close does not stay registered:
\* a reconnect replaces it or the sweeper evicts it.
HalfOpenReaped ==
    \A c \in Conn, d \in Device :
        (conns[d] = c /\ link[c] = "silent") ~> (conns[d] # c \/ status[d] = "deleted")

\* Every connection that was superseded, evicted or closed by its agent comes to
\* its disconnect handler and ends: the calls after the read loop are not deferred,
\* and nothing skips them as long as the loop does not panic (see RelayBroker).
EndedIsCleanedUp ==
    \A c \in Conn :
        (pc[c] \in {"mapped", "reading"} /\ (cancelled[c] \/ link[c] = "down")) ~> (pc[c] = "idle")

\* While a connection of a device that is not revoked stands and its agent sends
\* heartbeats, the row keeps coming back to online, also after the late cleanup of a superseded connection or a
\* stale decision of the sweeper wrote something else.
OnlineHeals ==
    \A c \in Conn, d \in Device :
        <>[](conns[d] = c /\ link[c] = "up" /\ cred[d] = "active" /\ status[d] # "deleted")
            => []<>(status[d] = "online")

----------------------------------------------------------------------------
(* What the documents say and the code does not do *)

\* docs/STATE_MACHINES.md: the credential revoke leads to REVOKED from any state
\* and nothing leads out of it; only the row itself may be deleted.
RevokedIsFinal ==
    [][\A d \in Device : status[d] = "revoked" => status'[d] \in {"revoked", "deleted"}]_vars

\* hub.go, Run: the sweeper enforces ONLINE -> CONNECTION_LOST -> OFFLINE even for
\* agents that vanish without a clean close.
VanishedGoesOffline ==
    \A d \in Device :
        <>[](\A c \in Conn : dev[c] = d => link[c] # "up") =>
        <>[](status[d] \in {"offline", "unknown", "revoked", "deleted"})
=============================================================================
