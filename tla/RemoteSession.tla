--------------------------- MODULE RemoteSession ---------------------------
(***************************************************************************)
(* Terminal sessions end to end: the HTTP handlers that open, stream and   *)
(* close a session (internal/httpapi/handlers_sessions.go), the session    *)
(* service and its rows (internal/remotesession/session.go), the callbacks *)
(* router.go hangs into the hub, the stream table of internal/relay, the   *)
(* maintenance record, and the agent's session manager                     *)
(* (internal/agentcore/sessions.go).  The connections are those of HubLink.*)
(*                                                                         *)
(* Every request handler is a goroutine.  An action is what one of them    *)
(* does between two points where another can run: one SQL statement, one   *)
(* critical section or one message.  Terminal bytes are left to RelayBroker*)
(* and session expiry to the handler that has the deadline.                *)
(***************************************************************************)
EXTENDS HubLink, Naturals, Sequences

CONSTANTS
    Session,        \* session ids; each is opened at most once
    Closer,         \* bound: which of the handlers that close a session are there
    Revocable,      \* bound: devices an administrator may revoke
    MaxInFlight,    \* bound: messages to an agent when a close request starts
    MaxRestarts     \* bound: restarts of the server process

ASSUME CloserAssumption == "agent" \in Closer /\ Closer \subseteq {"agent", "admin", "browser"}
ASSUME BoundsAssumption ==
    Revocable \subseteq Device /\ MaxInFlight \in Nat /\ MaxRestarts \in Nat

VARIABLES
    state,      \* remote_sessions.state; "none" before the INSERT
    sdev,       \* remote_sessions.device_id
    maint,      \* the maintenance record linked to the session, by its result
    open,       \* where handleCreateSession / OpenTerminal is
    via,        \* the connection session_open was written to
    reply,      \* what tryDeliver put into the waiter's channel
    stream,     \* Broker.streams: none, registered, or closed and removed
    closer,     \* progress of the handlers that close the session
    handler,    \* the disconnect callback of each connection
    revoked,    \* the device's credential is revoked
    agentUp,    \* the agent's end of the connection (runSession) is running
    term,       \* the agent's terminal of the session
    owed,       \* sessions whose session_open_result the agent has yet to write
    toAgent, toServer,  \* messages in flight on each connection
    restarts

serverVars == <<state, sdev, maint, open, via, reply, stream, closer, handler>>
agentVars == <<agentUp, term, owed>>
wireVars == <<toAgent, toServer>>
vars == <<linkVars, serverVars, revoked, agentVars, wireVars, restarts>>

State == {"none", "requested", "active", "closed", "failed", "interrupted"}
Open == {"none", "created", "prepared", "waiting", "confirmed", "failing", "activated", "done"}

\* Mutant: the row is closed before the maintenance record.
StepsRowFirst ==
    [agent   |-> <<"get", "unregister", "notify", "close", "record">>,
     admin   |-> <<"get", "notify", "close", "record", "unregister">>,
     browser |-> <<"attached", "unregister", "get", "notify", "close", "record">>]

\* Mutant: the administrator's request does not tell the agent.
StepsAdminSilent ==
    [agent   |-> <<"get", "unregister", "notify", "record", "close">>,
     admin   |-> <<"get", "nothing", "record", "close", "unregister">>,
     browser |-> <<"attached", "unregister", "get", "notify", "record", "close">>]

\* The three handlers that end a session call the same operations in different
\* orders: the session_close callback, handleCloseSession, and the end of
\* handleSessionStream (which is "attached" as long as the browser is).
Steps ==
    [agent   |-> <<"get", "unregister", "notify", "record", "close">>,
     admin   |-> <<"get", "notify", "record", "close", "unregister">>,
     browser |-> <<"attached", "unregister", "get", "notify", "record", "close">>]

Message == [type : {"open", "close", "ok", "err"}, s : Session]

TypeOK ==
    /\ LinkTypeOK
    /\ state \in [Session -> State]
    /\ sdev \in [Session -> Device \cup {NoDevice}]
    /\ maint \in [Session -> {"none", "open", "completed", "interrupted"}]
    /\ open \in [Session -> Open]
    /\ via \in [Session -> Conn \cup {NoConn}]
    /\ reply \in [Session -> {"none", "ok", "err"}]
    /\ stream \in [Session -> {"none", "registered", "closed"}]
    /\ closer \in [Session -> [Closer -> 0..6]]
    /\ handler \in [Conn -> [run : BOOLEAN, todo : SUBSET (Session \X BOOLEAN)]]
    /\ revoked \in [Device -> BOOLEAN]
    /\ agentUp \in [Conn -> BOOLEAN]
    /\ term \in [Session -> {"none", "open", "ended", "gone"}]
    /\ owed \in SUBSET Session
    /\ toAgent \in [Conn -> Seq(Message)]
    /\ toServer \in [Conn -> Seq(Message)]
    /\ restarts \in 0..MaxRestarts

HandlerIdle == [run |-> FALSE, todo |-> {}]

Init ==
    /\ LinkInit
    /\ state = [s \in Session |-> "none"]
    /\ sdev = [s \in Session |-> NoDevice]
    /\ maint = [s \in Session |-> "none"]
    /\ open = [s \in Session |-> "none"]
    /\ via = [s \in Session |-> NoConn]
    /\ reply = [s \in Session |-> "none"]
    /\ stream = [s \in Session |-> "none"]
    /\ closer = [s \in Session |-> [k \in Closer |-> 0]]
    /\ handler = [c \in Conn |-> HandlerIdle]
    /\ revoked = [d \in Device |-> FALSE]
    /\ agentUp = [c \in Conn |-> FALSE]
    /\ term = [s \in Session |-> "none"]
    /\ owed = {}
    /\ toAgent = [c \in Conn |-> <<>>]
    /\ toServer = [c \in Conn |-> <<>>]
    /\ restarts = 0

----------------------------------------------------------------------------
(* Operations the handlers share *)

\* A write to a connection whose other end is gone is lost.
Put(q, c, up, m) == [q EXCEPT ![c] = IF up THEN Append(@, m) ELSE @]

\* Hub.SendMessage: to the connection registered now, if any; errors ignored.
SendMessage(d, m) ==
    toAgent' = IF IsOnline(d)
               THEN Put(toAgent, conns[d], agentUp[conns[d]] /\ phase[conns[d]] = "live", m)
               ELSE toAgent

\* Broker.Unregister
Unregistered(s) == IF stream[s] = "registered" THEN "closed" ELSE stream[s]

\* Mutant: the UPDATEs select every session that was opened.
InterruptibleClosed == {s \in Session : state[s] \in {"requested", "active", "closed"}}

\* Sessions that InterruptAllForDevice / InterruptAllActive select.
Interruptible == {s \in Session : state[s] \in {"requested", "active"}}

----------------------------------------------------------------------------
(* Opening: handleCreateSession and Service.OpenTerminal *)

\* IsOnline, then Repo.Create.
CreateSession(s, d) ==
    /\ open[s] = "none" /\ IsOnline(d)
    /\ open' = [open EXCEPT ![s] = "created"]
    /\ state' = [state EXCEPT ![s] = "requested"]
    /\ sdev' = [sdev EXCEPT ![s] = d]
    /\ UNCHANGED <<linkVars, maint, via, reply, stream, closer, handler, revoked, agentVars, wireVars, restarts>>

\* maintenance.Open and SetMaintenanceSession; nobody sees the record in between.
OpenMaintenance(s) ==
    /\ open[s] = "created"
    /\ open' = [open EXCEPT ![s] = "prepared"]
    /\ maint' = [maint EXCEPT ![s] = "open"]
    /\ UNCHANGED <<linkVars, state, sdev, via, reply, stream, closer, handler, revoked, agentVars, wireVars, restarts>>

\* Hub.SendAndWait up to its select: the waiter is registered before the write.
SendOpen(s) ==
    /\ open[s] = "prepared"
    /\ IF IsOnline(sdev[s])
       THEN /\ open' = [open EXCEPT ![s] = "waiting"]
            /\ via' = [via EXCEPT ![s] = conns[sdev[s]]]
       ELSE /\ open' = [open EXCEPT ![s] = "failing"]
            /\ UNCHANGED via
    /\ SendMessage(sdev[s], [type |-> "open", s |-> s])
    /\ UNCHANGED <<linkVars, state, sdev, maint, reply, stream, closer, handler, revoked, agentVars, toServer, restarts>>

\* Mutant: the status in the answer is not looked at.
ResumeAnyStatus(s) ==
    /\ open[s] = "waiting" /\ reply[s] # "none"
    /\ open' = [open EXCEPT ![s] = "confirmed"]
    /\ UNCHANGED <<linkVars, state, sdev, maint, via, reply, stream, closer, handler, revoked, agentVars, wireVars, restarts>>

\* The select takes the agent's answer ...
Resume(s) ==
    /\ open[s] = "waiting" /\ reply[s] # "none"
    /\ open' = [open EXCEPT ![s] = IF reply[s] = "ok" THEN "confirmed" ELSE "failing"]
    /\ UNCHANGED <<linkVars, state, sdev, maint, via, reply, stream, closer, handler, revoked, agentVars, wireVars, restarts>>

\* Mutant: the wait ends when the device is offline, not when the time is over.
TimeoutOffline(s) ==
    /\ open[s] = "waiting" /\ ~IsOnline(sdev[s])
    /\ open' = [open EXCEPT ![s] = "failing"]
    /\ UNCHANGED <<linkVars, state, sdev, maint, via, reply, stream, closer, handler, revoked, agentVars, wireVars, restarts>>

\* ... or the timeout, even if the answer is there too.
Timeout(s) ==
    /\ open[s] = "waiting"
    /\ open' = [open EXCEPT ![s] = "failing"]
    /\ UNCHANGED <<linkVars, state, sdev, maint, via, reply, stream, closer, handler, revoked, agentVars, wireVars, restarts>>

\* Mutant: the reason is written into the column of the state.
FailReason(s) ==
    /\ open[s] = "failing"
    /\ open' = [open EXCEPT ![s] = "done"]
    /\ state' = [state EXCEPT ![s] = "agent_unreachable"]
    /\ UNCHANGED <<linkVars, sdev, maint, via, reply, stream, closer, handler, revoked, agentVars, wireVars, restarts>>

\* repo.Close(failed); the maintenance record is not touched.
Fail(s) ==
    /\ open[s] = "failing"
    /\ open' = [open EXCEPT ![s] = "done"]
    /\ state' = [state EXCEPT ![s] = "failed"]
    /\ UNCHANGED <<linkVars, sdev, maint, via, reply, stream, closer, handler, revoked, agentVars, wireVars, restarts>>

\* SetState(active), whatever the row says.
Activate(s) ==
    /\ open[s] = "confirmed"
    /\ open' = [open EXCEPT ![s] = "activated"]
    /\ state' = [state EXCEPT ![s] = "active"]
    /\ UNCHANGED <<linkVars, sdev, maint, via, reply, stream, closer, handler, revoked, agentVars, wireVars, restarts>>

\* broker.Register, only after OpenTerminal has returned.
RegisterStream(s) ==
    /\ open[s] = "activated"
    /\ open' = [open EXCEPT ![s] = "done"]
    /\ stream' = [stream EXCEPT ![s] = "registered"]
    /\ UNCHANGED <<linkVars, state, sdev, maint, via, reply, closer, handler, revoked, agentVars, wireVars, restarts>>

\* The browser gives the request up: its context is cancelled, every statement
\* that is left fails and the handler returns.
ClientGone(s) ==
    /\ open[s] \in {"created", "prepared", "waiting", "confirmed", "failing"}
    /\ open' = [open EXCEPT ![s] = "done"]
    /\ UNCHANGED <<linkVars, state, sdev, maint, via, reply, stream, closer, handler, revoked, agentVars, wireVars, restarts>>

----------------------------------------------------------------------------
(* Closing *)

\* handleCloseSession is called.
AdminCloses(s) ==
    /\ "admin" \in Closer /\ state[s] # "none" /\ closer[s].admin = 0
    /\ \A c \in Conn : Len(toAgent[c]) < MaxInFlight
    /\ closer' = [closer EXCEPT ![s].admin = 1]
    /\ UNCHANGED <<linkVars, state, sdev, maint, open, via, reply, stream, handler, revoked, agentVars, wireVars, restarts>>

\* handleSessionStream finds an active session and its stream.
BrowserAttaches(s) ==
    /\ "browser" \in Closer /\ state[s] = "active" /\ stream[s] = "registered" /\ closer[s].browser = 0
    /\ closer' = [closer EXCEPT ![s].browser = 1]
    /\ UNCHANGED <<linkVars, state, sdev, maint, open, via, reply, stream, handler, revoked, agentVars, wireVars, restarts>>

\* The operation a closer is at; "get" ends the handler unless the row is active.
CloserStep(s, k) ==
    LET n == closer[s][k]
        op == Steps[k][n]
        stop == n = Len(Steps[k]) \/ (op = "get" /\ state[s] # "active")
    IN /\ n > 0
       /\ closer' = [closer EXCEPT ![s][k] = IF stop THEN 0 ELSE n + 1]
       /\ stream' = IF op = "unregister" THEN [stream EXCEPT ![s] = Unregistered(s)] ELSE stream
       /\ IF op = "notify" THEN SendMessage(sdev[s], [type |-> "close", s |-> s]) ELSE UNCHANGED toAgent
       /\ maint' = IF op = "record" THEN [maint EXCEPT ![s] = "completed"] ELSE maint
       /\ state' = IF op = "close" THEN [state EXCEPT ![s] = "closed"] ELSE state
       /\ UNCHANGED <<linkVars, sdev, open, via, reply, handler, revoked, agentVars, toServer, restarts>>

\* The browser gives the DELETE request up: the statements fail, Unregister runs.
AdminGone(s) ==
    /\ "admin" \in Closer /\ closer[s].admin \in 2..4
    /\ closer' = [closer EXCEPT ![s].admin = 5]
    /\ UNCHANGED <<linkVars, state, sdev, maint, open, via, reply, stream, handler, revoked, agentVars, wireVars, restarts>>

----------------------------------------------------------------------------
(* The server's read loop *)

\* The session_close callback runs inside the read loop.
LoopBusy(c) == \E s \in Session : via[s] = c /\ closer[s].agent # 0

CanRead(c) == phase[c] = "live" /\ ~LoopBusy(c) /\ toServer[c] # <<>>

\* tryDeliver by request_id, or a stray result that is ignored.  A session is asked for
\* once, with an id of its own, so the session stands for its request_id.
ReadResult(c) ==
    /\ CanRead(c)
    /\ LET m == Head(toServer[c])
       IN /\ m.type \in {"ok", "err"}
          /\ reply' = IF open[m.s] = "waiting" /\ via[m.s] = c THEN [reply EXCEPT ![m.s] = m.type] ELSE reply
    /\ toServer' = [toServer EXCEPT ![c] = Tail(@)]
    /\ UNCHANGED <<linkVars, state, sdev, maint, open, via, stream, closer, handler, revoked, agentVars, toAgent, restarts>>

\* session_close from the agent: the callback ignores another device's session.
ReadClose(c) ==
    /\ CanRead(c)
    /\ LET m == Head(toServer[c])
       IN /\ m.type = "close"
          /\ closer' = [closer EXCEPT ![m.s].agent = IF sdev[m.s] = dev[c] THEN 1 ELSE 0]
    /\ toServer' = [toServer EXCEPT ![c] = Tail(@)]
    /\ UNCHANGED <<linkVars, state, sdev, maint, open, via, reply, stream, handler, revoked, agentVars, toAgent, restarts>>

----------------------------------------------------------------------------
(* The agent (internal/agentcore) *)

\* Messages are handled one after the other; the answer to session_open is
\* written before the next one is read.
AgentCanRead(c) ==
    agentUp[c] /\ toAgent[c] # <<>> /\ \A s \in owed : via[s] # c

\* openTerminalSession: the terminal runs and its pump is started ...
AgentOpens(c) ==
    /\ AgentCanRead(c) /\ Head(toAgent[c]).type = "open"
    /\ LET s == Head(toAgent[c]).s
       IN /\ term' = [term EXCEPT ![s] = "open"]
          /\ owed' = owed \cup {s}
    /\ toAgent' = [toAgent EXCEPT ![c] = Tail(@)]
    /\ UNCHANGED <<linkVars, serverVars, revoked, agentUp, toServer, restarts>>

\* ... before the success is reported.
AgentReplies(s) ==
    /\ s \in owed
    /\ owed' = owed \ {s}
    /\ toServer' = Put(toServer, via[s], phase[via[s]] = "live", [type |-> "ok", s |-> s])
    /\ UNCHANGED <<linkVars, serverVars, revoked, agentUp, term, toAgent, restarts>>

\* Forbidden by the local policy, or the terminal does not start.
AgentRejects(c) ==
    /\ AgentCanRead(c) /\ Head(toAgent[c]).type = "open"
    /\ toServer' = Put(toServer, c, phase[c] = "live", [type |-> "err", s |-> Head(toAgent[c]).s])
    /\ toAgent' = [toAgent EXCEPT ![c] = Tail(@)]
    /\ UNCHANGED <<linkVars, serverVars, revoked, agentVars, restarts>>

\* handleSessionClose: closes the terminal if this connection has it.
AgentCloses(c) ==
    /\ AgentCanRead(c) /\ Head(toAgent[c]).type = "close"
    /\ LET s == Head(toAgent[c]).s
       IN term' = IF via[s] = c /\ term[s] = "open" THEN [term EXCEPT ![s] = "ended"] ELSE term
    /\ toAgent' = [toAgent EXCEPT ![c] = Tail(@)]
    /\ UNCHANGED <<linkVars, serverVars, revoked, agentUp, owed, toServer, restarts>>

\* The terminal's process exits.
TerminalExits(s) ==
    /\ term[s] = "open"
    /\ term' = [term EXCEPT ![s] = "ended"]
    /\ UNCHANGED <<linkVars, serverVars, revoked, agentUp, owed, wireVars, restarts>>

\* The end of pumpStream: always reported, whoever closed the terminal.
PumpEnds(s) ==
    /\ term[s] = "ended"
    /\ term' = [term EXCEPT ![s] = "gone"]
    /\ toServer' = Put(toServer, via[s], phase[via[s]] = "live", [type |-> "close", s |-> s])
    /\ UNCHANGED <<linkVars, serverVars, revoked, agentUp, owed, toAgent, restarts>>

\* runSession returns and closeAll runs, or the machine dies.
AgentLeaves(c) ==
    /\ agentUp[c]
    /\ agentUp' = [agentUp EXCEPT ![c] = FALSE]
    /\ term' = [s \in Session |-> IF via[s] = c /\ term[s] # "none" THEN "gone" ELSE term[s]]
    /\ owed' = {s \in owed : via[s] # c}
    /\ toAgent' = [toAgent EXCEPT ![c] = <<>>]
    /\ UNCHANGED <<linkVars, serverVars, revoked, toServer, restarts>>

----------------------------------------------------------------------------
(* Connections *)

\* The agent has left its previous connection before it makes the next.
AgentConnects(c, d) ==
    /\ Connect(c, d)
    /\ ~revoked[d] /\ ~agentUp[c]
    /\ \A b \in Conn : dev[b] = d => ~agentUp[b]
    /\ agentUp' = [agentUp EXCEPT ![c] = TRUE]
    /\ UNCHANGED <<serverVars, revoked, term, owed, wireVars, restarts>>

SweeperEvicts(d) ==
    /\ Evict(d)
    /\ UNCHANGED <<serverVars, revoked, agentVars, wireVars, restarts>>

\* What the loop has not read is lost.
LoopEnds(c) ==
    /\ ReadEnds(c) /\ ~LoopBusy(c)
    /\ toServer' = [toServer EXCEPT ![c] = <<>>]
    /\ UNCHANGED <<serverVars, revoked, agentVars, toAgent, restarts>>

LoopUnmaps(c) ==
    /\ Unmap(c)
    /\ UNCHANGED <<serverVars, revoked, agentVars, wireVars, restarts>>

\* InterruptAllForDevice: one UPDATE ... RETURNING.
InterruptAll(c) ==
    /\ phase[c] = "unmapped" /\ ~handler[c].run
    /\ LET hit == {s \in Interruptible : sdev[s] = dev[c]}
       IN /\ state' = [s \in Session |-> IF s \in hit THEN "interrupted" ELSE state[s]]
          /\ handler' = [handler EXCEPT ![c] = [run |-> TRUE, todo |-> {<<s, maint[s] # "none">> : s \in hit}]]
    /\ UNCHANGED <<linkVars, sdev, maint, open, via, reply, stream, closer, revoked, agentVars, wireVars, restarts>>

\* For each returned row: Unregister, and the maintenance record it named.
InterruptNext(c) ==
    /\ \E e \in handler[c].todo :
         /\ stream' = [stream EXCEPT ![e[1]] = Unregistered(e[1])]
         /\ maint' = IF e[2] THEN [maint EXCEPT ![e[1]] = "interrupted"] ELSE maint
         /\ handler' = [handler EXCEPT ![c].todo = @ \ {e}]
    /\ UNCHANGED <<linkVars, state, sdev, open, via, reply, closer, revoked, agentVars, wireVars, restarts>>

\* The call returns; the identity is free once the agent has left it too.
HandlerReturns(c) ==
    /\ Return(c) /\ handler[c].run /\ handler[c].todo = {} /\ ~agentUp[c]
    /\ handler' = [handler EXCEPT ![c] = HandlerIdle]
    /\ via' = [s \in Session |-> IF via[s] = c THEN NoConn ELSE via[s]]
    /\ UNCHANGED <<state, sdev, maint, open, reply, stream, closer, revoked, agentVars, wireVars, restarts>>

\* handleRevokeDevice does nothing to connections or sessions.
RevokeDevice(d) ==
    /\ d \in Revocable /\ ~revoked[d]
    /\ revoked' = [revoked EXCEPT ![d] = TRUE]
    /\ UNCHANGED <<linkVars, serverVars, agentVars, wireVars, restarts>>

\* wr-core stops and NewRouter runs InterruptAllActive before it serves again.
Restart ==
    /\ restarts < MaxRestarts /\ restarts' = restarts + 1
    /\ ServerStop
    /\ state' = [s \in Session |-> IF s \in Interruptible THEN "interrupted" ELSE state[s]]
    /\ maint' = [s \in Session |-> IF s \in Interruptible /\ maint[s] # "none" THEN "interrupted" ELSE maint[s]]
    /\ open' = [s \in Session |-> IF open[s] = "none" THEN "none" ELSE "done"]
    /\ via' = [s \in Session |-> NoConn]
    /\ stream' = [s \in Session |-> Unregistered(s)]
    /\ closer' = [s \in Session |-> [k \in Closer |-> 0]]
    /\ handler' = [c \in Conn |-> HandlerIdle]
    /\ agentUp' = [c \in Conn |-> FALSE]
    /\ term' = [s \in Session |-> IF term[s] = "none" THEN "none" ELSE "gone"]
    /\ owed' = {}
    /\ toAgent' = [c \in Conn |-> <<>>]
    /\ toServer' = [c \in Conn |-> <<>>]
    /\ UNCHANGED <<sdev, reply, revoked>>

----------------------------------------------------------------------------
Opening(s) ==
    \/ OpenMaintenance(s)
    \/ SendOpen(s)
    \/ Resume(s)
    \/ Timeout(s)
    \/ Fail(s)
    \/ Activate(s)
    \/ RegisterStream(s)

ReadLoop(c) == ReadResult(c) \/ ReadClose(c)

Cleanup(c) == LoopUnmaps(c) \/ InterruptAll(c) \/ InterruptNext(c) \/ HandlerReturns(c)

AgentReads(c) == AgentOpens(c) \/ AgentRejects(c) \/ AgentCloses(c)

Next ==
    \/ \E s \in Session : \/ \E d \in Device : CreateSession(s, d)
                          \/ Opening(s)
                          \/ ClientGone(s)
                          \/ AdminCloses(s)
                          \/ BrowserAttaches(s)
                          \/ \E k \in Closer : CloserStep(s, k)
                          \/ AdminGone(s)
                          \/ AgentReplies(s)
                          \/ TerminalExits(s)
                          \/ PumpEnds(s)
    \/ \E c \in Conn : \/ \E d \in Device : AgentConnects(c, d)
                       \/ ReadLoop(c)
                       \/ AgentReads(c)
                       \/ AgentLeaves(c)
                       \/ LoopEnds(c)
                       \/ Cleanup(c)
    \/ \E d \in Device : SweeperEvicts(d) \/ RevokeDevice(d)
    \/ Restart

Spec == Init /\ [][Next]_vars

\* Goroutines on both ends run; the two timeouts (15 s for the answer, the session's
\* expiry for an attached browser) fire; a connection that is closed at one end is
\* noticed at the other (ControlHub: HalfOpenReaped).  No fairness for what users,
\* terminals and the network may or may not do.
Fairness ==
    /\ \A s \in Session : /\ WF_vars(Opening(s))
                          /\ \A k \in Closer : WF_vars(CloserStep(s, k))
                          /\ WF_vars(AgentReplies(s)) /\ WF_vars(PumpEnds(s))
    /\ \A c \in Conn : /\ WF_vars(ReadLoop(c)) /\ WF_vars(AgentReads(c))
                       /\ WF_vars(LoopEnds(c) /\ (~agentUp[c] \/ conns[dev[c]] # c))
                       /\ WF_vars(AgentLeaves(c) /\ phase[c] # "live")
                       /\ WF_vars(Cleanup(c))

FairSpec == Spec /\ Fairness

----------------------------------------------------------------------------
(* What holds *)

MayBecome(old, new) ==
    \/ old = "none" /\ new = "requested"
    \/ old = "requested" /\ new \in {"active", "failed", "interrupted"}
    \/ old = "active" /\ new \in {"closed", "interrupted"}
    \/ old = "interrupted" /\ new \in {"active", "failed", "closed"}

\* A row follows its life cycle: no request is closed before it was active or interrupted,
\* no active session fails, and what is closed or failed stays so, although SetState,
\* Close and the two interrupting UPDATEs write the row from four goroutines without
\* agreeing and only the UPDATEs look at what it says.
RowLifecycle ==
    [][\A s \in Session : state'[s] = state[s] \/ MayBecome(state[s], state'[s])]_vars

\* A row becomes active only for a terminal the agent has started for this very
\* session, whatever answers, late answers and timeouts cross each other.
ActiveWasOpened == \A s \in Session : state[s] = "active" => term[s] # "none"

\* No closed session leaves its maintenance record open: all three closers finish the
\* record before they close the row, and no other handler opens it again.  What result
\* the record has is not said: a disconnect may overwrite one that was completed.
ClosedIsRecorded == \A s \in Session : state[s] = "closed" => maint[s] \notin {"none", "open"}

\* A closed session leaves no terminal running on the device, even when the device
\* reconnected while it was being closed.
ClosedEndsTerminal == \A s \in Session : (state[s] = "closed") ~> (term[s] # "open")

\* The create request is always answered: neither a lost agent nor a lost answer
\* keeps OpenTerminal waiting.
OpenReturns == \A s \in Session : (open[s] = "created") ~> (open[s] = "done")

----------------------------------------------------------------------------
(* What the documents and comments say and the code does not do *)

\* docs/STATE_MACHINES.md 3: no INTERRUPTED session silently becomes ACTIVE again.
InterruptedNeverActive ==
    [][\A s \in Session : state[s] = "interrupted" => state'[s] # "active"]_vars

\* hub.go, TypeSessionClose: the agent's notification is forwarded so that the owning
\* session gets cleaned up on the server too.
AgentCloseCleansUp == \A s \in Session : []<>(~(state[s] = "active" /\ term[s] = "gone"))
=============================================================================
