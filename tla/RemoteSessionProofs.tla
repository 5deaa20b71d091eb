------------------------ MODULE RemoteSessionProofs ------------------------
(***************************************************************************)
(* Proofs about RemoteSession for any number of devices, connections and   *)
(* sessions and any set of closers.                                        *)
(*                                                                         *)
(* The rows are written by goroutines that do not look at what the others  *)
(* wrote, so the argument is about where these goroutines can be: a closer *)
(* gets past its reading of the row only when OpenTerminal has finished,   *)
(* and what OpenTerminal finishes with depends on an answer that exists    *)
(* only once the agent has started the terminal.  A refusal is never about *)
(* a started terminal because session_open is written once and taken once: *)
(* the question in a queue, the refusal and the terminal exclude each      *)
(* other.                                                                  *)
(***************************************************************************)
EXTENDS RemoteSession, TLAPS

\* A created session knows its device.
DeviceKnown == \A s \in Session : open[s] # "none" => sdev[s] \in Device

\* Until OpenTerminal has finished, the row says requested or interrupted.
OpeningRow ==
    \A s \in Session :
        /\ open[s] = "none" => state[s] = "none"
        /\ open[s] \in {"created", "prepared", "waiting", "confirmed", "failing"} =>
             state[s] \in {"requested", "interrupted"}

\* Where a closer reads the row, where it closes it and where it ends.
GetAt(k) == IF k = "browser" THEN 3 ELSE 1
CloseAt(k) == CASE k = "agent" -> 5 [] k = "admin" -> 4 [] OTHER -> 6
EndAt(k) == IF k = "browser" THEN 6 ELSE 5

\* No closer runs past its end.
CloserInSteps == \A s \in Session, k \in Closer : closer[s][k] <= EndAt(k)

\* The closer has read the row and found it active.
PastGet(s, k) == closer[s][k] > GetAt(k)

\* Such a closer exists only after OpenTerminal succeeded.
ClosingRow ==
    \A s \in Session, k \in Closer : PastGet(s, k) =>
        open[s] \in {"activated", "done"} /\ state[s] \in {"active", "interrupted", "closed"}

\* A closer that is about to close the row has finished the maintenance record.
RecordFirst == \A s \in Session, k \in Closer : closer[s][k] = CloseAt(k) => maint[s] \in {"completed", "interrupted"}

\* Whoever acts on a success can do so only after the terminal was started.
SuccessFollowsStart ==
    \A s \in Session :
        s \in owed \/ reply[s] = "ok" \/ open[s] = "confirmed" \/ state[s] = "active" => term[s] # "none"

\* This includes the answers still in flight.
AnswersFollowStart ==
    \A c \in Conn : \A i \in 1..Len(toServer[c]) :
        toServer[c][i].type = "ok" => term[toServer[c][i].s] # "none"

RowInv == OpeningRow /\ ClosingRow /\ RecordFirst /\ ClosedIsRecorded
TermInv == SuccessFollowsStart /\ AnswersFollowStart
IInv == TypeOK /\ DeviceKnown /\ CloserInSteps /\ RowInv /\ TermInv

USE NoConnAssumption, NoDeviceAssumption, CloserAssumption, BoundsAssumption

\* No session, no connection: nothing to show.
LEMMA InitIInv == Init => IInv
  <1> SUFFICES ASSUME Init PROVE IInv
    BY Zenon
  <1>1. TypeOK
    BY DEF Init, TypeOK, LinkInit, LinkTypeOK, Phase, State, Open, HandlerIdle
  <1> QED
    BY <1>1 DEF Init, IInv, DeviceKnown, RowInv, TermInv, OpeningRow, ClosingRow, PastGet, GetAt,
       CloseAt, EndAt, CloserInSteps, RecordFirst, ClosedIsRecorded, SuccessFollowsStart, AnswersFollowStart

\* The connection layer keeps its types.
LEMMA LinkTypes == LinkTypeOK /\ [LinkNext]_linkVars => LinkTypeOK'
  BY DEF LinkTypeOK, LinkNext, linkVars, Phase, Connect, Evict, ReadEnds, Unmap, Return, ServerStop

\* A message put on the wire, or lost, keeps the type of the queues.
LEMMA PutType ==
  ASSUME NEW q \in [Conn -> Seq(Message)], NEW c, NEW up \in BOOLEAN, NEW m \in Message
  PROVE  Put(q, c, up, m) \in [Conn -> Seq(Message)]
  <1>1. \A b \in Conn : Append(q[b], m) \in Seq(Message)
    OBVIOUS
  <1> DEFINE w == IF up THEN Append(q[c], m) ELSE q[c]
  <1>2. c \in Conn => w \in Seq(Message)
    BY <1>1, Zenon
  <1>3. Put(q, c, up, m) = [q EXCEPT ![c] = w]
    BY Zenon DEF Put
  <1> HIDE DEF w
  <1> QED
    BY <1>2, <1>3, Zenon

\* Assigning to one place of a function keeps its type.
LEMMA ExceptType ==
  ASSUME NEW D, NEW R, NEW q \in [D -> R], NEW c, NEW e \in R
  PROVE  [q EXCEPT ![c] = e] \in [D -> R]
  BY Zenon

\* A queue that is emptied is still one.
LEMMA EmptyType ==
  ASSUME NEW q \in [Conn -> Seq(Message)], NEW c
  PROVE  [q EXCEPT ![c] = <<>>] \in [Conn -> Seq(Message)]
  <1>1. <<>> \in Seq(Message)
    OBVIOUS
  <1> QED
    BY <1>1, ExceptType, Zenon

\* SendMessage keeps the type of the queues, whatever the table says.
LEMMA SendType ==
  ASSUME TypeOK, NEW d, NEW m \in Message, SendMessage(d, m)
  PROVE  toAgent' \in [Conn -> Seq(Message)]
  BY PutType, Zenon DEF TypeOK, SendMessage

\* The steps by who takes them: a create request, a closer, a read loop, a disconnect
\* callback, an agent, the connection layer.
CreateStep ==
    \E s \in Session : (\E d \in Device : CreateSession(s, d)) \/ Opening(s) \/ ClientGone(s)
CloseStep ==
    \E s \in Session : AdminCloses(s) \/ BrowserAttaches(s) \/ AdminGone(s) \/ \E k \in Closer : CloserStep(s, k)
LoopStep == \E c \in Conn : ReadResult(c) \/ ReadClose(c)
InterruptStep == \E c \in Conn : InterruptAll(c) \/ InterruptNext(c) \/ HandlerReturns(c)
AgentStep ==
    \/ \E s \in Session : AgentReplies(s) \/ TerminalExits(s) \/ PumpEnds(s)
    \/ \E c \in Conn : AgentOpens(c) \/ AgentRejects(c) \/ AgentCloses(c) \/ AgentLeaves(c)
LinkStep ==
    \/ \E c \in Conn : LoopEnds(c) \/ LoopUnmaps(c) \/ \E d \in Device : AgentConnects(c, d)
    \/ \E d \in Device : SweeperEvicts(d) \/ RevokeDevice(d)

LEMMA StepKinds ==
  [Next]_vars => \/ CreateStep \/ CloseStep \/ LoopStep \/ InterruptStep \/ AgentStep \/ LinkStep \/ Restart
                 \/ UNCHANGED vars
  BY Zenon DEF Next, ReadLoop, Cleanup, AgentReads, CreateStep, CloseStep, LoopStep, InterruptStep, AgentStep, LinkStep

\* What each of them leaves alone.
LEMMA StepFrames ==
  /\ CreateStep => UNCHANGED <<linkVars, reply, closer, handler, revoked, agentVars, toServer, restarts>>
  /\ CloseStep => UNCHANGED <<linkVars, sdev, open, via, reply, handler, revoked, agentVars, toServer, restarts>>
  /\ LoopStep => UNCHANGED <<linkVars, state, sdev, maint, open, via, stream, handler, revoked, agentVars, toAgent, restarts>>
  /\ InterruptStep => UNCHANGED <<sdev, open, reply, closer, revoked, agentVars, wireVars, restarts>>
  /\ AgentStep => UNCHANGED <<linkVars, serverVars, revoked, restarts>>
  /\ LinkStep => UNCHANGED <<serverVars, term, owed, toAgent, restarts>>
  <1>1. CreateStep => UNCHANGED <<linkVars, reply, closer, handler, revoked, agentVars, toServer, restarts>>
    BY Zenon DEF CreateStep, CreateSession, Opening, OpenMaintenance, SendOpen, Resume, Timeout, Fail, Activate,
       RegisterStream, ClientGone, wireVars
  <1>2. CloseStep => UNCHANGED <<linkVars, sdev, open, via, reply, handler, revoked, agentVars, toServer, restarts>>
    BY Zenon DEF CloseStep, AdminCloses, BrowserAttaches, AdminGone, CloserStep, wireVars
  <1>3. LoopStep => UNCHANGED <<linkVars, state, sdev, maint, open, via, stream, handler, revoked, agentVars, toAgent, restarts>>
    BY Zenon DEF LoopStep, ReadResult, ReadClose
  <1>4. InterruptStep => UNCHANGED <<sdev, open, reply, closer, revoked, agentVars, wireVars, restarts>>
    BY Zenon DEF InterruptStep, InterruptAll, InterruptNext, HandlerReturns
  <1>5. AgentStep => UNCHANGED <<linkVars, serverVars, revoked, restarts>>
    BY Zenon DEF AgentStep, AgentReplies, TerminalExits, PumpEnds, AgentOpens, AgentRejects, AgentCloses, AgentLeaves
  <1>6. LinkStep => UNCHANGED <<serverVars, term, owed, toAgent, restarts>>
    BY Zenon DEF LinkStep, LoopEnds, LoopUnmaps, AgentConnects, SweeperEvicts, RevokeDevice, agentVars, wireVars
  <1> QED
    BY <1>1, <1>2, <1>3, <1>4, <1>5, <1>6, Zenon

\* Every step of a session is a step of the connection layer or leaves it alone.
LEMMA StepLink == [Next]_vars => [LinkNext]_linkVars
  <1>1. LinkStep => [LinkNext]_linkVars
    BY Zenon DEF LinkStep, LinkNext, LoopEnds, LoopUnmaps, AgentConnects, SweeperEvicts, RevokeDevice
  <1>2. InterruptStep => [LinkNext]_linkVars
    BY Zenon DEF InterruptStep, LinkNext, InterruptAll, InterruptNext, HandlerReturns
  <1>3. Restart => LinkNext
    BY Zenon DEF Restart, LinkNext
  <1> QED
    BY <1>1, <1>2, <1>3, StepKinds, StepFrames, Zenon DEF vars

\* The positions of the operations in the step sequences of the three closers.
LEMMA StepsShape ==
  ASSUME NEW k \in Closer, NEW n \in 1..EndAt(k)
  PROVE  /\ Len(Steps[k]) = EndAt(k)
         /\ Steps[k][n] = "get" <=> n = GetAt(k)
         /\ Steps[k][n] = "record" <=> n = CloseAt(k) - 1
         /\ Steps[k][n] = "close" <=> n = CloseAt(k)
  <1>1. CASE k = "agent"
    <2>1. n \in 1..5 /\ Steps[k] = <<"get", "unregister", "notify", "record", "close">>
      BY <1>1, Zenon DEF Steps, EndAt
    <2> QED
      BY <1>1, <2>1 DEF EndAt, GetAt, CloseAt
  <1>2. CASE k = "admin"
    <2>1. n \in 1..5 /\ Steps[k] = <<"get", "notify", "record", "close", "unregister">>
      BY <1>2, Zenon DEF Steps, EndAt
    <2> QED
      BY <1>2, <2>1 DEF EndAt, GetAt, CloseAt
  <1>3. CASE k = "browser"
    <2>1. n \in 1..6 /\ Steps[k] = <<"attached", "unregister", "get", "notify", "record", "close">>
      BY <1>3, Zenon DEF Steps, EndAt
    <2> QED
      BY <1>3, <2>1 DEF EndAt, GetAt, CloseAt
  <1> QED
    BY <1>1, <1>2, <1>3, Zenon

\* What one step of a closer does to the rows and to its own progress.
LEMMA CloserEffect ==
  ASSUME TypeOK, CloserInSteps, NEW s \in Session, NEW k \in Closer, CloserStep(s, k),
         NEW n, n = closer[s][k]
  PROVE  /\ n \in 1..EndAt(k)
         /\ \E m \in {0, n + 1} : /\ closer' = [closer EXCEPT ![s][k] = m]
                                  /\ m # 0 => n < EndAt(k) /\ (n = GetAt(k) => state[s] = "active")
         /\ maint' = IF n = CloseAt(k) - 1 THEN [maint EXCEPT ![s] = "completed"] ELSE maint
         /\ state' = IF n = CloseAt(k) THEN [state EXCEPT ![s] = "closed"] ELSE state
  <1>1. n \in 1..EndAt(k)
    BY DEF CloserStep, TypeOK, CloserInSteps, EndAt
  <1>2. /\ Len(Steps[k]) = EndAt(k)
        /\ Steps[k][n] = "get" <=> n = GetAt(k)
        /\ Steps[k][n] = "record" <=> n = CloseAt(k) - 1
        /\ Steps[k][n] = "close" <=> n = CloseAt(k)
    BY <1>1, StepsShape, Zenon
  <1>3. PICK m : m = IF n = EndAt(k) \/ (n = GetAt(k) /\ state[s] # "active") THEN 0 ELSE n + 1
    BY Zenon
  <1>4. closer' = [closer EXCEPT ![s][k] = m]
    BY <1>2, <1>3, Zenon DEF CloserStep
  <1>5. m \in {0, n + 1} /\ (m # 0 => n < EndAt(k) /\ (n = GetAt(k) => state[s] = "active"))
    BY <1>1, <1>3 DEF EndAt
  <1>6. /\ maint' = IF n = CloseAt(k) - 1 THEN [maint EXCEPT ![s] = "completed"] ELSE maint
        /\ state' = IF n = CloseAt(k) THEN [state EXCEPT ![s] = "closed"] ELSE state
    BY <1>2, Zenon DEF CloserStep
  <1> QED
    BY <1>1, <1>4, <1>5, <1>6, Zenon

\* TypeOK in four parts, by who writes the variables.
RowTypes ==
    /\ state \in [Session -> State]
    /\ sdev \in [Session -> Device \cup {NoDevice}]
    /\ maint \in [Session -> {"none", "open", "completed", "interrupted"}]
    /\ open \in [Session -> Open]
    /\ via \in [Session -> Conn \cup {NoConn}]
    /\ reply \in [Session -> {"none", "ok", "err"}]
    /\ stream \in [Session -> {"none", "registered", "closed"}]
HandlerTypes ==
    /\ closer \in [Session -> [Closer -> 0..6]]
    /\ handler \in [Conn -> [run : BOOLEAN, todo : SUBSET (Session \X BOOLEAN)]]
AgentTypes ==
    /\ revoked \in [Device -> BOOLEAN]
    /\ agentUp \in [Conn -> BOOLEAN]
    /\ term \in [Session -> {"none", "open", "ended", "gone"}]
    /\ owed \in SUBSET Session
    /\ restarts \in 0..MaxRestarts
WireTypes ==
    /\ toAgent \in [Conn -> Seq(Message)]
    /\ toServer \in [Conn -> Seq(Message)]

\* The four parts and the connection layer's types make up TypeOK.
LEMMA TypeParts == TypeOK <=> LinkTypeOK /\ RowTypes /\ HandlerTypes /\ AgentTypes /\ WireTypes
  BY Zenon DEF TypeOK, RowTypes, HandlerTypes, AgentTypes, WireTypes

\* The first message of a queue, and what is left.
LEMMA QueueHead ==
  ASSUME NEW q \in [Conn -> Seq(Message)], NEW c \in Conn, q[c] # <<>>
  PROVE  /\ Head(q[c]) \in Message /\ Head(q[c]).s \in Session /\ Tail(q[c]) \in Seq(Message)
         /\ Head(q[c]) = q[c][1] /\ Len(q[c]) \in Nat \ {0}
         /\ Len(Tail(q[c])) = Len(q[c]) - 1
         /\ \A i \in 1..Len(Tail(q[c])) : Tail(q[c])[i] = q[c][i + 1]
  <1>1. q[c] \in Seq(Message)
    BY Zenon
  <1>2. Head(q[c]) \in Message
    BY <1>1
  <1> QED
    BY <1>1, <1>2 DEF Message

\* The steps that put a message on the wire, take one off or empty a queue.
LEMMA StepWireTypes == IInv /\ [Next]_vars => WireTypes'
  <1> SUFFICES ASSUME IInv, [Next]_vars PROVE WireTypes'
    BY Zenon
  <1>0. TypeOK /\ WireTypes
    BY TypeParts, Zenon DEF IInv
  <1> USE DEF WireTypes
  <1>1. ASSUME NEW s \in Session, NEW ty \in {"open", "close", "ok", "err"} PROVE [type |-> ty, s |-> s] \in Message
    BY Zenon DEF Message
  <1>2. ASSUME NEW s \in Session, SendOpen(s) PROVE WireTypes'
    BY <1>0, <1>1, <1>2, SendType, Zenon DEF SendOpen
  <1>3. ASSUME NEW s \in Session, NEW k \in Closer, CloserStep(s, k) PROVE WireTypes'
    BY <1>0, <1>1, <1>3, SendType, Zenon DEF CloserStep
  <1>4. ASSUME NEW c \in Conn, ReadLoop(c) PROVE WireTypes'
    <2>1. Tail(toServer[c]) \in Seq(Message) /\ UNCHANGED toAgent
      BY <1>0, <1>4, QueueHead, Zenon DEF ReadLoop, ReadResult, ReadClose, CanRead
    <2> QED
      BY <1>0, <1>4, <2>1, ZenonT(60) DEF ReadLoop, ReadResult, ReadClose
  <1>5. ASSUME NEW c \in Conn, AgentReads(c) PROVE WireTypes'
    <2>1. Tail(toAgent[c]) \in Seq(Message) /\ Head(toAgent[c]).s \in Session
      BY <1>0, <1>5, QueueHead, Zenon DEF AgentReads, AgentOpens, AgentRejects, AgentCloses, AgentCanRead
    <2>2. toAgent' \in [Conn -> Seq(Message)]
      BY <1>0, <1>5, <2>1, Zenon DEF AgentReads, AgentOpens, AgentRejects, AgentCloses
    <2>3. PICK m \in Message : m = [type |-> "err", s |-> Head(toAgent[c]).s]
      BY <1>1, <2>1, Zenon
    <2>4. PICK up \in BOOLEAN : AgentRejects(c) => toServer' = Put(toServer, c, up, m)
      BY <2>3, Zenon DEF AgentRejects
    <2>5. AgentRejects(c) => toServer' \in [Conn -> Seq(Message)]
      BY <1>0, <2>4, PutType
    <2>6. toServer' \in [Conn -> Seq(Message)]
      BY <1>0, <1>5, <2>5, Zenon DEF AgentReads, AgentOpens, AgentCloses
    <2> QED
      BY <2>2, <2>6, Zenon
  <1>6. ASSUME NEW s \in Session, AgentReplies(s) PROVE WireTypes'
    <2>1. [type |-> "ok", s |-> s] \in Message
      BY <1>1, Zenon
    <2> QED
      BY <1>0, <1>6, <2>1, PutType, Zenon DEF AgentReplies
  <1>7. ASSUME NEW s \in Session, PumpEnds(s) PROVE WireTypes'
    <2>1. [type |-> "close", s |-> s] \in Message
      BY <1>1, Zenon
    <2> QED
      BY <1>0, <1>7, <2>1, PutType, Zenon DEF PumpEnds
  <1>8. ASSUME NEW c \in Conn, AgentLeaves(c) \/ LoopEnds(c) PROVE WireTypes'
    <2>1. AgentLeaves(c) => toAgent' = [toAgent EXCEPT ![c] = <<>>] /\ UNCHANGED toServer
      BY Zenon DEF AgentLeaves
    <2>2. LoopEnds(c) => toServer' = [toServer EXCEPT ![c] = <<>>] /\ UNCHANGED toAgent
      BY Zenon DEF LoopEnds
    <2>3. [toAgent EXCEPT ![c] = <<>>] \in [Conn -> Seq(Message)] /\ [toServer EXCEPT ![c] = <<>>] \in [Conn -> Seq(Message)]
      BY <1>0, EmptyType, Zenon
    <2> QED
      BY <1>0, <1>8, <2>1, <2>2, <2>3, Zenon
  <1>9. CASE Restart
    <2>1. toAgent' = [c \in Conn |-> <<>>] /\ toServer' = [c \in Conn |-> <<>>]
      BY <1>9, Zenon DEF Restart
    <2> QED
      BY <2>1
  <1>10. CASE UNCHANGED wireVars
    BY <1>0, <1>10, Zenon DEF wireVars
  <1> QED
    BY <1>2, <1>3, <1>4, <1>5, <1>6, <1>7, <1>8, <1>9, <1>10, StepKinds, StepFrames, Zenon
       DEF vars, CreateStep, CloseStep, LoopStep, AgentStep, LinkStep, ReadLoop, AgentReads, Opening, CreateSession,
           OpenMaintenance, Resume, Timeout, Fail, Activate, RegisterStream, ClientGone, AdminCloses, BrowserAttaches,
           AdminGone, TerminalExits, AgentConnects, SweeperEvicts, LoopUnmaps, RevokeDevice

\* The columns of the session, its stream and the waiter.
LEMMA StepRowTypes == IInv /\ [Next]_vars => RowTypes'
  <1> SUFFICES ASSUME IInv, [Next]_vars PROVE RowTypes'
    BY Zenon
  <1>0. TypeOK /\ RowTypes /\ LinkTypeOK /\ WireTypes
    BY TypeParts, Zenon DEF IInv
  <1> USE <1>0 DEF RowTypes, State, Open
  <1>1. ASSUME NEW s \in Session, NEW d \in Device, CreateSession(s, d) PROVE RowTypes'
    BY <1>1, Zenon DEF CreateSession
  <1>2. ASSUME NEW s \in Session, SendOpen(s) PROVE RowTypes'
    <2>1. conns[sdev[s]] \in Conn \cup {NoConn}
      BY <1>2, Zenon DEF SendOpen, IInv, DeviceKnown, LinkTypeOK
    <2> QED
      BY <1>2, <2>1 DEF SendOpen
  <1>3. ASSUME NEW s \in Session,
               OpenMaintenance(s) \/ Resume(s) \/ Timeout(s) \/ Fail(s) \/ Activate(s) \/ RegisterStream(s) \/ ClientGone(s)
        PROVE  RowTypes'
    BY <1>3 DEF OpenMaintenance, Resume, Timeout, Fail, Activate, RegisterStream, ClientGone
  <1>4. ASSUME NEW s \in Session, NEW k \in Closer, CloserStep(s, k) PROVE RowTypes'
    BY <1>4, Zenon DEF CloserStep, Unregistered
  <1>5. ASSUME NEW c \in Conn, ReadResult(c) PROVE RowTypes'
    BY <1>5, Zenon DEF ReadResult
  <1>6. ASSUME NEW c \in Conn, InterruptAll(c) PROVE RowTypes'
    BY <1>6, Zenon DEF InterruptAll
  <1>7. ASSUME NEW c \in Conn, InterruptNext(c) PROVE RowTypes'
    <2>1. PICK e \in handler[c].todo :
            /\ stream' = [stream EXCEPT ![e[1]] = Unregistered(e[1])]
            /\ maint' = IF e[2] THEN [maint EXCEPT ![e[1]] = "interrupted"] ELSE maint
      BY <1>7, Zenon DEF InterruptNext
    <2>2. stream' \in [Session -> {"none", "registered", "closed"}]
      BY <2>1, Zenon DEF Unregistered
    <2>3. maint' \in [Session -> {"none", "open", "completed", "interrupted"}]
      BY <2>1, Zenon
    <2> QED
      BY <1>7, <2>2, <2>3, Zenon DEF InterruptNext
  <1>8. ASSUME NEW c \in Conn, HandlerReturns(c) PROVE RowTypes'
    BY <1>8, Zenon DEF HandlerReturns
  <1>9. CASE Restart
    BY <1>9, Zenon DEF Restart, Unregistered
  <1>10. CASE UNCHANGED <<state, sdev, maint, open, via, reply, stream>>
    BY <1>10, Zenon
  <1> QED
    BY <1>1, <1>2, <1>3, <1>4, <1>5, <1>6, <1>7, <1>8, <1>9, <1>10, StepKinds, StepFrames, Zenon
       DEF vars, serverVars, CreateStep, CloseStep, LoopStep, InterruptStep, Opening, ReadClose, AdminCloses,
           BrowserAttaches, AdminGone

\* One closer of one session moves.
LEMMA CloserMoves ==
  ASSUME HandlerTypes, CloserInSteps, NEW s \in Session, NEW k \in Closer, NEW m \in 0..EndAt(k),
         closer' = [closer EXCEPT ![s][k] = m]
  PROVE  closer' \in [Session -> [Closer -> 0..6]] /\ CloserInSteps'
  BY SMTT(30) DEF HandlerTypes, CloserInSteps, EndAt

\* The progress of the closers and of the disconnect callbacks.
LEMMA StepHandlerTypes == IInv /\ [Next]_vars => HandlerTypes' /\ CloserInSteps'
  <1> SUFFICES ASSUME IInv, [Next]_vars PROVE HandlerTypes' /\ CloserInSteps'
    BY Zenon
  <1>0. TypeOK /\ HandlerTypes /\ WireTypes /\ CloserInSteps
    BY TypeParts, Zenon DEF IInv
  <1> USE DEF HandlerTypes, CloserInSteps
  <1>1. ASSUME NEW s \in Session, AdminCloses(s) \/ BrowserAttaches(s) \/ AdminGone(s)
        PROVE  HandlerTypes' /\ CloserInSteps'
    <2>0. 1 \in 0..EndAt("admin") /\ 5 \in 0..EndAt("admin") /\ 1 \in 0..EndAt("browser")
      BY DEF EndAt
    <2>1. CASE AdminCloses(s)
      <3>1. "admin" \in Closer /\ closer' = [closer EXCEPT ![s]["admin"] = 1]
        BY <2>1, Zenon DEF AdminCloses
      <3> QED
        BY <1>0, <2>0, <2>1, <3>1, CloserMoves, Zenon DEF AdminCloses
    <2>2. CASE BrowserAttaches(s)
      <3>1. "browser" \in Closer /\ closer' = [closer EXCEPT ![s]["browser"] = 1]
        BY <2>2, Zenon DEF BrowserAttaches
      <3> QED
        BY <1>0, <2>0, <2>2, <3>1, CloserMoves, Zenon DEF BrowserAttaches
    <2>3. CASE AdminGone(s)
      <3>1. "admin" \in Closer /\ closer' = [closer EXCEPT ![s]["admin"] = 5]
        BY <2>3, Zenon DEF AdminGone
      <3> QED
        BY <1>0, <2>0, <2>3, <3>1, CloserMoves, Zenon DEF AdminGone
    <2> QED
      BY <1>1, <2>1, <2>2, <2>3, Zenon
  <1>2. ASSUME NEW s \in Session, NEW k \in Closer, CloserStep(s, k) PROVE HandlerTypes' /\ CloserInSteps'
    <2>1. PICK m \in 0..EndAt(k) : closer' = [closer EXCEPT ![s][k] = m]
      BY <1>0, <1>2, CloserEffect DEF EndAt
    <2> QED
      BY <1>0, <1>2, <2>1, CloserMoves, Zenon DEF CloserStep
  <1>3. ASSUME NEW c \in Conn, ReadClose(c) PROVE HandlerTypes' /\ CloserInSteps'
    <2>1. Head(toServer[c]).s \in Session
      BY <1>0, <1>3, QueueHead, Zenon DEF ReadClose, CanRead, WireTypes
    <2>2. PICK m \in 0..1 : closer' = [closer EXCEPT ![Head(toServer[c]).s]["agent"] = m]
      <3>1. PICK m \in 0..1 : m = IF sdev[Head(toServer[c]).s] = dev[c] THEN 1 ELSE 0
        OBVIOUS
      <3> QED
        BY <1>3, <3>1, Zenon DEF ReadClose
    <2>3. m \in 0..EndAt("agent")
      BY DEF EndAt
    <2> QED
      BY <1>0, <1>3, <2>1, <2>2, <2>3, CloserMoves, Zenon DEF ReadClose
  <1>4. ASSUME NEW c \in Conn, InterruptAll(c) PROVE HandlerTypes' /\ CloserInSteps'
    <2>1. PICK T \in SUBSET (Session \X BOOLEAN) : handler' = [handler EXCEPT ![c] = [run |-> TRUE, todo |-> T]]
      <3>1. PICK H \in SUBSET Session : H = {s \in Interruptible : sdev[s] = dev[c]}
        BY Zenon DEF Interruptible
      <3>2. {<<s, maint[s] # "none">> : s \in H} \in SUBSET (Session \X BOOLEAN)
        <4> DEFINE linked(s) == maint[s] # "none"
        <4>1. \A s \in H : linked(s) \in BOOLEAN
          BY Zenon
        <4> HIDE DEF linked
        <4>2. \A s \in H : <<s, linked(s)>> \in Session \X BOOLEAN
          BY <4>1, Zenon
        <4>3. {<<s, linked(s)>> : s \in H} \in SUBSET (Session \X BOOLEAN)
          BY <4>2, Zenon
        <4> QED
          BY <4>3, Zenon DEF linked
      <3> QED
        BY <1>4, <3>1, <3>2, Zenon DEF InterruptAll
    <2> QED
      BY <1>0, <1>4, <2>1 DEF InterruptAll
  <1>5. ASSUME NEW c \in Conn, InterruptNext(c) PROVE HandlerTypes' /\ CloserInSteps'
    BY <1>0, <1>5 DEF InterruptNext
  <1>6. ASSUME NEW c \in Conn, HandlerReturns(c) PROVE HandlerTypes' /\ CloserInSteps'
    BY <1>0, <1>6, Zenon DEF HandlerReturns, HandlerIdle
  <1>7. CASE Restart
    BY <1>0, <1>7 DEF Restart, HandlerIdle, EndAt
  <1>8. CASE UNCHANGED <<closer, handler>>
    BY <1>0, <1>8, Zenon
  <1> QED
    BY <1>1, <1>2, <1>3, <1>4, <1>5, <1>6, <1>7, <1>8, StepKinds, StepFrames, Zenon
       DEF vars, serverVars, CloseStep, LoopStep, InterruptStep, ReadResult

\* The agent's side, the credentials and the restart counter.
LEMMA StepAgentTypes == IInv /\ [Next]_vars => AgentTypes'
  <1> SUFFICES ASSUME IInv, [Next]_vars PROVE AgentTypes'
    BY Zenon
  <1>0. AgentTypes /\ WireTypes
    BY TypeParts, Zenon DEF IInv
  <1> USE DEF AgentTypes
  <1>1. ASSUME NEW c \in Conn, AgentReads(c) PROVE AgentTypes'
    <2>1. Head(toAgent[c]).s \in Session
      BY <1>0, <1>1, QueueHead, Zenon DEF AgentReads, AgentOpens, AgentRejects, AgentCloses, AgentCanRead, WireTypes
    <2> QED
      BY <1>0, <1>1, <2>1, Zenon DEF AgentReads, AgentOpens, AgentRejects, AgentCloses, agentVars
  <1>2. ASSUME NEW s \in Session, AgentReplies(s) \/ TerminalExits(s) \/ PumpEnds(s) PROVE AgentTypes'
    BY <1>0, <1>2, Zenon DEF AgentReplies, TerminalExits, PumpEnds
  <1>3. ASSUME NEW c \in Conn, AgentLeaves(c) PROVE AgentTypes'
    BY <1>0, <1>3, Zenon DEF AgentLeaves
  <1>4. ASSUME NEW c \in Conn, NEW d \in Device, AgentConnects(c, d) \/ RevokeDevice(d) PROVE AgentTypes'
    BY <1>0, <1>4, Zenon DEF AgentConnects, RevokeDevice, agentVars
  <1>5. CASE Restart
    BY <1>0, <1>5 DEF Restart
  <1>6. CASE UNCHANGED <<revoked, agentVars, restarts>>
    BY <1>0, <1>6, Zenon DEF agentVars
  <1>7. ASSUME NEW d \in Device, RevokeDevice(d) PROVE AgentTypes'
    BY <1>0, <1>7, Zenon DEF RevokeDevice, agentVars
  <1> QED
    BY <1>1, <1>2, <1>3, <1>4, <1>5, <1>6, <1>7, StepKinds, StepFrames, Zenon
       DEF vars, AgentStep, LinkStep, AgentReads, SweeperEvicts, LoopEnds, LoopUnmaps

\* A session gets its device with its row and keeps it.
LEMMA StepDeviceKnown == IInv /\ [Next]_vars => DeviceKnown'
  <1> SUFFICES ASSUME IInv, [Next]_vars PROVE DeviceKnown'
    BY Zenon
  <1>0. RowTypes /\ DeviceKnown
    BY TypeParts, Zenon DEF IInv
  <1> USE DEF RowTypes, DeviceKnown
  <1>1. ASSUME NEW s \in Session, NEW d \in Device, CreateSession(s, d) PROVE DeviceKnown'
    BY <1>0, <1>1, Zenon DEF CreateSession
  <1>2. ASSUME NEW s \in Session,
               \/ OpenMaintenance(s) \/ SendOpen(s) \/ Resume(s) \/ Timeout(s) \/ Fail(s) \/ Activate(s)
               \/ RegisterStream(s) \/ ClientGone(s)
        PROVE  DeviceKnown'
    BY <1>0, <1>2
       DEF OpenMaintenance, SendOpen, Resume, Timeout, Fail, Activate, RegisterStream, ClientGone
  <1>3. CASE Restart
    BY <1>0, <1>3, Zenon DEF Restart
  <1>4. CASE UNCHANGED <<open, sdev>>
    BY <1>0, <1>4, Zenon
  <1> QED
    BY <1>1, <1>2, <1>3, <1>4, StepKinds, StepFrames, Zenon DEF vars, serverVars, CreateStep, Opening

\* Opening, closing and interrupting keep the agreement between the goroutines'
\* positions and the rows.
LEMMA StepRowInv == IInv /\ [Next]_vars => RowInv'
  <1> SUFFICES ASSUME IInv, [Next]_vars PROVE RowInv'
    BY Zenon
  <1>0. TypeOK /\ RowTypes /\ HandlerTypes /\ WireTypes /\ CloserInSteps /\ RowInv
    BY TypeParts, Zenon DEF IInv
  <1> USE DEF RowTypes, HandlerTypes, RowInv, OpeningRow, ClosingRow, PastGet, RecordFirst, ClosedIsRecorded
  <1>1. ASSUME NEW s \in Session, NEW d \in Device, CreateSession(s, d) PROVE RowInv'
    BY <1>0, <1>1 DEF CreateSession
  <1>2. ASSUME NEW s \in Session, OpenMaintenance(s) PROVE RowInv'
    <2>1. \A k \in Closer : ~PastGet(s, k)
      BY <1>0, <1>2, Zenon DEF OpenMaintenance
    <2>2. \A k \in Closer : closer[s][k] # CloseAt(k)
      BY <1>0, <2>1, SMTT(30) DEF GetAt, CloseAt
    <2> QED
      BY <1>0, <1>2, <2>2 DEF OpenMaintenance
  <1>3. ASSUME NEW s \in Session, SendOpen(s) \/ Resume(s) \/ Timeout(s) \/ Fail(s) \/ Activate(s)
        PROVE  RowInv'
    <2>1. \A k \in Closer : ~PastGet(s, k)
      BY <1>0, <1>3, Zenon DEF SendOpen, Resume, Timeout, Fail, Activate
    <2>2. UNCHANGED <<maint, closer>> /\ \A r \in Session : r # s => open'[r] = open[r] /\ state'[r] = state[r]
      BY <1>0, <1>3 DEF SendOpen, Resume, Timeout, Fail, Activate
    <2>3. /\ open'[s] # "none" /\ state'[s] # "closed"
          /\ open'[s] \in {"created", "prepared", "waiting", "confirmed", "failing"} =>
               state'[s] \in {"requested", "interrupted"}
      BY <1>0, <1>3 DEF SendOpen, Resume, Timeout, Fail, Activate
    <2> QED
      BY <1>0, <2>1, <2>2, <2>3, ZenonT(60)
  <1>4. ASSUME NEW s \in Session, RegisterStream(s) \/ ClientGone(s) PROVE RowInv'
    BY <1>0, <1>4 DEF RegisterStream, ClientGone
  <1>5. ASSUME NEW s \in Session, AdminCloses(s) PROVE RowInv'
    BY <1>0, <1>5 DEF AdminCloses, GetAt, CloseAt
  <1>6. ASSUME NEW s \in Session, BrowserAttaches(s) PROVE RowInv'
    BY <1>0, <1>6 DEF BrowserAttaches, GetAt, CloseAt
  <1>7. ASSUME NEW s \in Session, AdminGone(s) PROVE RowInv'
    BY <1>0, <1>7 DEF AdminGone, GetAt, CloseAt
  <1>8. ASSUME NEW c \in Conn, ReadClose(c) PROVE RowInv'
    BY <1>0, <1>8 DEF ReadClose, GetAt, CloseAt
  <1>9. ASSUME NEW s \in Session, NEW k \in Closer, CloserStep(s, k) PROVE RowInv'
    <2>1. PICK n : n = closer[s][k]
      BY Zenon
    <2>2. /\ n \in 1..EndAt(k)
          /\ \E m \in {0, n + 1} : /\ closer' = [closer EXCEPT ![s][k] = m]
                                   /\ m # 0 => n < EndAt(k) /\ (n = GetAt(k) => state[s] = "active")
          /\ maint' = IF n = CloseAt(k) - 1 THEN [maint EXCEPT ![s] = "completed"] ELSE maint
          /\ state' = IF n = CloseAt(k) THEN [state EXCEPT ![s] = "closed"] ELSE state
          /\ UNCHANGED open
      <3>1. UNCHANGED open
        BY <1>9, Zenon DEF CloserStep
      <3> HIDE DEF RowTypes, HandlerTypes, RowInv
      <3> QED
        BY <1>0, <1>9, <2>1, <3>1, CloserEffect
    <2>3. PICK m \in {0, n + 1} : /\ closer' = [closer EXCEPT ![s][k] = m]
                                  /\ m # 0 => n < EndAt(k) /\ (n = GetAt(k) => state[s] = "active")
      BY <2>2, Zenon
    <2>4. state[s] = "active" => open[s] \in {"activated", "done"}
      BY <1>0 DEF Open
    <2>5. n = CloseAt(k) => PastGet(s, k)
      BY <2>1 DEF GetAt, CloseAt
    <2>6. OpeningRow'
      BY <1>0, <2>2, <2>5
    <2>7. ClosingRow'
      <3> SUFFICES ASSUME NEW r \in Session, NEW j \in Closer, PastGet(r, j)'
                   PROVE  open[r] \in {"activated", "done"} /\ state'[r] \in {"active", "interrupted", "closed"}
        BY <2>2, Zenon
      <3>1. CASE r = s /\ j = k
        <4>1. n >= GetAt(k) /\ (n = GetAt(k) => state[s] = "active")
          BY <1>0, <2>2, <2>3, <3>1 DEF GetAt, EndAt
        <4>2. CASE n > GetAt(k)
          BY <1>0, <2>1, <2>2, <3>1, <4>2, Zenon
        <4>3. CASE n = GetAt(k)
          BY <1>0, <2>2, <2>4, <3>1, <4>1, <4>3
        <4> QED
          BY <2>2, <4>1, <4>2, <4>3 DEF GetAt, EndAt
      <3>2. CASE ~(r = s /\ j = k)
        <4>1. closer'[r][j] = closer[r][j]
          BY <1>0, <2>3, <3>2
        <4> QED
          BY <1>0, <2>2, <4>1, Zenon
      <3> QED
        BY <3>1, <3>2, Zenon
    <2>8. RecordFirst' /\ ClosedIsRecorded'
      BY <1>0, <2>1, <2>2, <2>3 DEF GetAt, CloseAt
    <2> QED
      BY <2>6, <2>7, <2>8, Zenon
  <1>10. ASSUME NEW c \in Conn, InterruptAll(c) PROVE RowInv'
    BY <1>0, <1>10, Zenon DEF InterruptAll, Interruptible
  <1>11. ASSUME NEW c \in Conn, InterruptNext(c) PROVE RowInv'
    BY <1>0, <1>11 DEF InterruptNext
  <1>12. CASE Restart
    BY <1>0, <1>12 DEF Restart, Interruptible, GetAt, CloseAt
  <1>13. CASE UNCHANGED <<state, maint, open, closer>>
    BY <1>0, <1>13, Zenon
  <1> QED
    BY <1>1, <1>2, <1>3, <1>4, <1>5, <1>6, <1>7, <1>8, <1>9, <1>10, <1>11, <1>12, <1>13, StepKinds, StepFrames, Zenon
       DEF vars, serverVars, CreateStep, CloseStep, LoopStep, InterruptStep, Opening, ReadResult, HandlerReturns

\* A queue after a send holds what it held before and at most the new message, at its end.
LEMMA PutContent ==
  ASSUME NEW q \in [Conn -> Seq(Message)], NEW c, NEW up \in BOOLEAN, NEW m \in Message, NEW b \in Conn,
         NEW i \in 1..Len(Put(q, c, up, m)[b])
  PROVE  \/ Put(q, c, up, m)[b][i] = m /\ b = c /\ i = Len(q[b]) + 1
         \/ i \in 1..Len(q[b]) /\ Put(q, c, up, m)[b][i] = q[b][i]
  <1>1. q[b] \in Seq(Message)
    BY Zenon
  <1>2. CASE b = c /\ up
    <2>1. Put(q, c, up, m)[b] = Append(q[b], m)
      BY <1>2, Zenon DEF Put
    <2>2. Len(q[b]) \in Nat /\ i \in 1..Len(q[b]) + 1
      BY <1>1, <2>1
    <2>3. Append(q[b], m)[Len(q[b]) + 1] = m /\ \A j \in 1..Len(q[b]) : Append(q[b], m)[j] = q[b][j]
      BY <1>1
    <2>4. i = Len(q[b]) + 1 \/ i \in 1..Len(q[b])
      BY <2>2
    <2> QED
      BY <1>2, <2>1, <2>3, <2>4, Zenon
  <1>3. CASE ~(b = c /\ up)
    <2>1. Put(q, c, up, m)[b] = q[b]
      BY <1>3, Zenon DEF Put
    <2> QED
      BY <2>1, Zenon
  <1> QED
    BY <1>2, <1>3, Zenon

\* A send of anything but a success, or of a success after the start, is harmless.
LEMMA PutKeepsAnswers ==
  ASSUME IInv, NEW c, NEW up \in BOOLEAN, NEW m \in Message, toServer' = Put(toServer, c, up, m),
         \A s \in Session : term[s] # "none" => term'[s] # "none",
         m.type = "ok" => term'[m.s] # "none"
  PROVE  AnswersFollowStart'
  <1>1. WireTypes /\ AnswersFollowStart
    BY TypeParts, Zenon DEF IInv, TermInv
  <1> SUFFICES ASSUME NEW b \in Conn, NEW i \in 1..Len(toServer'[b]), toServer'[b][i].type = "ok"
               PROVE  term'[toServer'[b][i].s] # "none"
    BY Zenon DEF AnswersFollowStart
  <1>2. toServer'[b][i] = m \/ (i \in 1..Len(toServer[b]) /\ toServer'[b][i] = toServer[b][i])
    <2>1. toServer \in [Conn -> Seq(Message)] /\ i \in 1..Len(Put(toServer, c, up, m)[b])
      BY <1>1, Zenon DEF WireTypes
    <2>2. Put(toServer, c, up, m)[b][i] = m
            \/ (i \in 1..Len(toServer[b]) /\ Put(toServer, c, up, m)[b][i] = toServer[b][i])
      BY <2>1, PutContent
    <2> QED
      BY <2>2, Zenon
  <1>3. CASE toServer'[b][i] = m
    BY <1>3, Zenon
  <1>4. CASE i \in 1..Len(toServer[b]) /\ toServer'[b][i] = toServer[b][i]
    <2>1. toServer[b] \in Seq(Message)
      BY <1>1, Zenon DEF WireTypes
    <2>2. toServer[b][i] \in Message
      BY <1>4, <2>1
    <2>3. toServer[b][i].s \in Session
      BY <2>2, Zenon DEF Message
    <2> QED
      BY <1>1, <1>4, <2>3, Zenon DEF AnswersFollowStart
  <1> QED
    BY <1>2, <1>3, <1>4, Zenon

\* Taking a message off a queue or emptying it is harmless too.
LEMMA LessKeepsAnswers ==
  ASSUME IInv, \A s \in Session : term[s] # "none" => term'[s] # "none",
         \A b \in Conn : toServer'[b] \in {toServer[b], <<>>} \/ (toServer[b] # <<>> /\ toServer'[b] = Tail(toServer[b]))
  PROVE  AnswersFollowStart'
  <1>1. WireTypes /\ AnswersFollowStart
    BY TypeParts, Zenon DEF IInv, TermInv
  <1> SUFFICES ASSUME NEW b \in Conn, NEW i \in 1..Len(toServer'[b]), toServer'[b][i].type = "ok"
               PROVE  term'[toServer'[b][i].s] # "none"
    BY Zenon DEF AnswersFollowStart
  <1>2. toServer[b] \in Seq(Message)
    BY <1>1, Zenon DEF WireTypes
  <1>3. \E j \in 1..Len(toServer[b]) : toServer'[b][i] = toServer[b][j]
    <2>1. CASE toServer'[b] = toServer[b]
      BY <2>1, Zenon
    <2>2. CASE toServer'[b] = <<>>
      BY <2>2
    <2>3. CASE toServer[b] # <<>> /\ toServer'[b] = Tail(toServer[b])
      <3>1. /\ Len(toServer[b]) \in Nat \ {0} /\ Len(toServer'[b]) = Len(toServer[b]) - 1
            /\ toServer'[b][i] = toServer[b][i + 1]
        BY <1>1, <2>3, QueueHead DEF WireTypes
      <3>2. i + 1 \in 1..Len(toServer[b])
        BY <3>1
      <3> QED
        BY <3>1, <3>2, Zenon
    <2> QED
      BY <2>1, <2>2, <2>3, Zenon
  <1>4. PICK j \in 1..Len(toServer[b]) : toServer'[b][i] = toServer[b][j]
    BY <1>3, Zenon
  <1>5. toServer[b][j] \in Message
    BY <1>2
  <1>6. toServer[b][j].s \in Session
    BY <1>5, Zenon DEF Message
  <1> QED
    BY <1>1, <1>4, <1>6 DEF AnswersFollowStart

\* No step takes back that a terminal was started, and every success rests on it.
LEMMA StepTermInv == IInv /\ [Next]_vars => TermInv'
  <1> SUFFICES ASSUME IInv, [Next]_vars PROVE TermInv'
    BY Zenon
  <1>0. RowTypes /\ AgentTypes /\ WireTypes /\ SuccessFollowsStart /\ AnswersFollowStart /\ CloserInSteps /\ TypeOK
    BY TypeParts, Zenon DEF IInv, TermInv
  <1> USE DEF RowTypes, AgentTypes, SuccessFollowsStart, TermInv
  <1>1. ASSUME UNCHANGED <<term, toServer>>,
               \A s \in Session : s \in owed' \/ reply'[s] = "ok" \/ open'[s] = "confirmed" \/ state'[s] = "active" =>
                                  s \in owed \/ reply[s] = "ok" \/ open[s] = "confirmed" \/ state[s] = "active"
        PROVE  TermInv'
    <2>1. SuccessFollowsStart'
      BY <1>0, <1>1, Zenon
    <2>2. AnswersFollowStart'
      BY <1>0, <1>1 DEF AnswersFollowStart
    <2> QED
      BY <2>1, <2>2, Zenon
  <1>2. ASSUME NEW s \in Session, NEW d \in Device, CreateSession(s, d) PROVE TermInv'
    BY <1>0, <1>1, <1>2, Zenon DEF CreateSession, agentVars, wireVars
  <1>3. ASSUME NEW s \in Session, Opening(s) \/ ClientGone(s) PROVE TermInv'
    <2>1. CASE OpenMaintenance(s) \/ Timeout(s) \/ RegisterStream(s) \/ ClientGone(s)
      BY <1>0, <1>1, <2>1, SMTT(30) DEF OpenMaintenance, Timeout, RegisterStream, ClientGone, agentVars, wireVars
    <2>2. CASE SendOpen(s)
      BY <1>0, <1>1, <2>2, ZenonT(30) DEF SendOpen, agentVars
    <2>3. CASE Resume(s)
      BY <1>0, <1>1, <2>3, Zenon DEF Resume, agentVars, wireVars
    <2>4. CASE Fail(s)
      BY <1>0, <1>1, <2>4, Zenon DEF Fail, agentVars, wireVars
    <2>5. CASE Activate(s)
      BY <1>0, <1>1, <2>5, Zenon DEF Activate, agentVars, wireVars
    <2> QED
      BY <1>3, <2>1, <2>2, <2>3, <2>4, <2>5, Zenon DEF Opening
  <1>4. ASSUME NEW s \in Session, NEW k \in Closer, CloserStep(s, k) PROVE TermInv'
    BY <1>0, <1>1, <1>4, Zenon DEF CloserStep, agentVars
  <1>5. ASSUME NEW c \in Conn, ReadResult(c) PROVE TermInv'
    <2>1. /\ Head(toServer[c]) = toServer[c][1] /\ Len(toServer[c]) \in Nat \ {0}
          /\ Head(toServer[c]).s \in Session /\ toServer[c] # <<>>
      BY <1>0, <1>5, QueueHead, ZenonT(60) DEF ReadResult, CanRead, WireTypes
    <2>2. Head(toServer[c]).type = "ok" => term[Head(toServer[c]).s] # "none"
      BY <1>0, <2>1 DEF AnswersFollowStart
    <2>3. SuccessFollowsStart'
      BY <1>0, <1>5, <2>1, <2>2, SMTT(30) DEF ReadResult, agentVars
    <2>4. AnswersFollowStart'
      BY <1>0, <1>5, <2>1, LessKeepsAnswers, Zenon DEF ReadResult, agentVars, WireTypes
    <2> QED
      BY <2>3, <2>4, Zenon
  <1>6. ASSUME NEW c \in Conn, ReadClose(c) PROVE TermInv'
    <2>1. SuccessFollowsStart'
      BY <1>0, <1>6, Zenon DEF ReadClose, agentVars
    <2>2. AnswersFollowStart'
      BY <1>0, <1>6, LessKeepsAnswers, Zenon DEF ReadClose, CanRead, agentVars, WireTypes
    <2> QED
      BY <2>1, <2>2, Zenon
  <1>7. ASSUME NEW c \in Conn, AgentOpens(c) PROVE TermInv'
    <2>1. \A s \in Session : term[s] # "none" => term'[s] # "none"
      BY <1>0, <1>7, Zenon DEF AgentOpens
    <2>2. Head(toAgent[c]).s \in Session
      BY <1>0, <1>7, QueueHead, Zenon DEF AgentOpens, AgentCanRead, WireTypes
    <2>3. SuccessFollowsStart'
      BY <1>0, <1>7, <2>1, <2>2 DEF AgentOpens, serverVars
    <2>4. AnswersFollowStart'
      BY <1>0, <1>7, <2>1, LessKeepsAnswers, Zenon DEF AgentOpens
    <2> QED
      BY <2>3, <2>4, Zenon
  <1>8. ASSUME NEW s \in Session, AgentReplies(s) PROVE TermInv'
    <2>0. PICK m \in Message : m = [type |-> "ok", s |-> s]
      BY Zenon DEF Message
    <2>1. PICK up \in BOOLEAN : toServer' = Put(toServer, via[s], up, m)
      BY <1>8, <2>0, Zenon DEF AgentReplies
    <2>2. term[s] # "none" /\ UNCHANGED term
      BY <1>0, <1>8, Zenon DEF AgentReplies
    <2>3. AnswersFollowStart'
      BY <2>0, <2>1, <2>2, PutKeepsAnswers, Zenon
    <2>4. SuccessFollowsStart'
      BY <1>0, <1>8, Zenon DEF AgentReplies, serverVars
    <2> QED
      BY <2>3, <2>4, Zenon
  <1>9. ASSUME NEW c \in Conn, AgentRejects(c) PROVE TermInv'
    <2>1. Head(toAgent[c]).s \in Session
      BY <1>0, <1>9, QueueHead, Zenon DEF AgentRejects, AgentCanRead, WireTypes
    <2>0. PICK m \in Message : m = [type |-> "err", s |-> Head(toAgent[c]).s]
      BY <2>1, Zenon DEF Message
    <2>2. PICK up \in BOOLEAN : toServer' = Put(toServer, c, up, m)
      BY <1>9, <2>0, Zenon DEF AgentRejects
    <2>3. UNCHANGED term
      BY <1>9, Zenon DEF AgentRejects, agentVars
    <2>4. AnswersFollowStart'
      BY <2>0, <2>2, <2>3, PutKeepsAnswers, Zenon
    <2>5. SuccessFollowsStart'
      BY <1>0, <1>9, Zenon DEF AgentRejects, agentVars, serverVars
    <2> QED
      BY <2>4, <2>5, Zenon
  <1>10. ASSUME NEW s \in Session, PumpEnds(s) PROVE TermInv'
    <2>0. PICK m \in Message : m = [type |-> "close", s |-> s]
      BY ZenonT(30) DEF Message
    <2>1. PICK up \in BOOLEAN : toServer' = Put(toServer, via[s], up, m)
      BY <1>10, <2>0, Zenon DEF PumpEnds
    <2>2. \A r \in Session : term[r] # "none" => term'[r] # "none"
      BY <1>0, <1>10, Zenon DEF PumpEnds
    <2>3. AnswersFollowStart'
      BY <2>0, <2>1, <2>2, PutKeepsAnswers, Zenon
    <2>4. SuccessFollowsStart'
      BY <1>0, <1>10, <2>2, Zenon DEF PumpEnds, serverVars
    <2> QED
      BY <2>3, <2>4, Zenon
  <1>11. ASSUME \A s \in Session : term[s] # "none" => term'[s] # "none",
                UNCHANGED <<state, open, reply>>, owed' \subseteq owed,
                \A b \in Conn : toServer'[b] \in {toServer[b], <<>>}
         PROVE  TermInv'
    <2>1. AnswersFollowStart'
      BY <1>11, LessKeepsAnswers, Zenon
    <2>2. SuccessFollowsStart'
      BY <1>0, <1>11, Zenon
    <2> QED
      BY <2>1, <2>2, Zenon
  <1>12. ASSUME NEW s \in Session, TerminalExits(s) PROVE TermInv'
    BY <1>0, <1>11, <1>12, Zenon DEF TerminalExits, serverVars, wireVars
  <1>13. ASSUME NEW c \in Conn, AgentCloses(c) \/ AgentLeaves(c) \/ LoopEnds(c) PROVE TermInv'
    <2>1. \A s \in Session : term[s] # "none" => term'[s] # "none"
      BY <1>0, <1>13, SMTT(30) DEF AgentCloses, AgentLeaves, LoopEnds, agentVars
    <2>2. UNCHANGED <<state, open, reply>> /\ owed' \subseteq owed
      BY <1>13, ZenonT(30) DEF AgentCloses, AgentLeaves, LoopEnds, serverVars, agentVars
    <2>3. \A b \in Conn : toServer'[b] \in {toServer[b], <<>>}
      BY <1>0, <1>13, ZenonT(30) DEF AgentCloses, AgentLeaves, LoopEnds, WireTypes
    <2> QED
      BY <1>11, <2>1, <2>2, <2>3, Zenon
  <1>14. ASSUME NEW c \in Conn, InterruptAll(c) PROVE TermInv'
    BY <1>0, <1>1, <1>14, Zenon DEF InterruptAll, agentVars, wireVars
  <1>15. CASE Restart
    <2>1. \A s \in Session : term[s] # "none" => term'[s] # "none"
      BY <1>0, <1>15, Zenon DEF Restart
    <2>2. AnswersFollowStart'
      BY <1>15 DEF Restart, AnswersFollowStart
    <2>3. SuccessFollowsStart'
      BY <1>0, <1>15, <2>1, Zenon DEF Restart, Interruptible
    <2> QED
      BY <2>2, <2>3, Zenon
  <1>16. CASE UNCHANGED <<state, open, reply, agentVars, toServer>>
    BY <1>1, <1>16, Zenon DEF agentVars
  <1>17. CASE UNCHANGED <<state, open, reply, term, owed, toServer>>
    BY <1>1, <1>17, Zenon
  <1> QED
    BY <1>2, <1>3, <1>4, <1>5, <1>6, <1>7, <1>8, <1>9, <1>10, <1>12, <1>13, <1>14, <1>15, <1>16, <1>17,
       StepKinds, StepFrames, Zenon
       DEF vars, serverVars, wireVars, CreateStep, CloseStep, LoopStep, InterruptStep, AgentStep, LinkStep, AdminCloses,
           BrowserAttaches, AdminGone, AgentConnects, SweeperEvicts, LoopUnmaps, InterruptNext, HandlerReturns,
           RevokeDevice

----------------------------------------------------------------------------
\* The strengthened invariant holds in every reachable state.
THEOREM Invariance == Spec => []IInv
  <1>1. IInv /\ [Next]_vars => IInv'
    <2> SUFFICES ASSUME IInv, [Next]_vars PROVE IInv'
      BY Zenon
    <2>1. LinkTypeOK'
      BY LinkTypes, StepLink, TypeParts, Zenon DEF IInv
    <2>2. TypeOK'
      BY <2>1, TypeParts, StepRowTypes, StepHandlerTypes, StepAgentTypes, StepWireTypes, Zenon DEF TypeOK, RowTypes,
         HandlerTypes, AgentTypes, WireTypes
    <2> QED
      BY <2>2, StepDeviceKnown, StepHandlerTypes, StepRowInv, StepTermInv, Zenon DEF IInv
  <1> QED
    BY InitIInv, <1>1, PTL DEF Spec

\* Whatever handlers and agents do, the connections behave as HubLink says the hub's do:
\* a session step registers, replaces, unmaps or ends a connection as the hub would, or
\* leaves them alone.
THEOREM SessionsUseLink == Spec => LinkSpec
  <1>1. Init => LinkInit
    BY Zenon DEF Init
  <1> QED
    BY <1>1, StepLink, PTL DEF Spec, LinkSpec

\* Type correctness of the rows, the handlers, the agents and the wires.
THEOREM TypeCorrect == Spec => []TypeOK
  BY Invariance, PTL DEF IInv

\* A row is active only for a terminal that the agent has started.
THEOREM ActiveFollowsStart == Spec => []ActiveWasOpened
  <1>1. IInv => ActiveWasOpened
    BY Zenon DEF IInv, TermInv, SuccessFollowsStart, ActiveWasOpened
  <1> QED
    BY <1>1, Invariance, PTL

\* A closed session has a finished maintenance record.
THEOREM ClosedHasRecord == Spec => []ClosedIsRecorded
  BY Invariance, PTL DEF IInv, RowInv

\* Every write of a row is a move of its life cycle; closed and failed sessions stay so.
THEOREM RowsFollowLifecycle == Spec => RowLifecycle
  <1>1. IInv /\ [Next]_vars => [\A s \in Session : state'[s] = state[s] \/ MayBecome(state[s], state'[s])]_vars
    <2> DEFINE Moves(r) == state'[r] = state[r] \/ MayBecome(state[r], state'[r])
    <2> SUFFICES ASSUME IInv, Next, NEW r \in Session PROVE Moves(r)
      BY Zenon
    <2>0. RowTypes /\ OpeningRow /\ ClosingRow /\ TypeOK /\ CloserInSteps
      BY TypeParts, Zenon DEF IInv, RowInv
    <2>1. ASSUME NEW s \in Session, NEW d \in Device, CreateSession(s, d) PROVE Moves(r)
      BY <2>0, <2>1, Zenon DEF CreateSession, OpeningRow, RowTypes, MayBecome
    <2>2. ASSUME NEW s \in Session, Fail(s) \/ Activate(s) PROVE Moves(r)
      BY <2>0, <2>2, Zenon DEF Fail, Activate, OpeningRow, RowTypes, MayBecome
    <2>3. ASSUME NEW s \in Session, NEW k \in Closer, CloserStep(s, k) PROVE Moves(r)
      <3>1. PICK n : n = closer[s][k]
        BY Zenon
      <3>2. state' = IF n = CloseAt(k) THEN [state EXCEPT ![s] = "closed"] ELSE state
        BY <2>0, <2>3, <3>1, CloserEffect
      <3>3. n = CloseAt(k) => PastGet(s, k)
        BY <3>1 DEF PastGet, GetAt, CloseAt
      <3>4. PastGet(s, k) => state[s] \in {"active", "interrupted", "closed"}
        BY <2>0, Zenon DEF ClosingRow
      <3> QED
        BY <2>0, <3>2, <3>3, <3>4, Zenon DEF RowTypes, MayBecome
    <2>4. ASSUME NEW c \in Conn, InterruptAll(c) PROVE Moves(r)
      BY <2>4, Zenon DEF InterruptAll, Interruptible, MayBecome
    <2>5. CASE Restart
      BY <2>5, Zenon DEF Restart, Interruptible, MayBecome
    <2>6. CASE UNCHANGED state
      BY <2>6, Zenon
    <2> HIDE DEF Moves
    <2> QED
      BY <2>1, <2>2, <2>3, <2>4, <2>5, <2>6, StepKinds, StepFrames, Zenon
         DEF vars, serverVars, CreateStep, CloseStep, InterruptStep, Opening, OpenMaintenance, SendOpen, Resume, Timeout,
             RegisterStream, ClientGone, AdminCloses, BrowserAttaches, AdminGone, InterruptNext, HandlerReturns
  <1> QED
    BY <1>1, Invariance, PTL DEF Spec, RowLifecycle

----------------------------------------------------------------------------
(* Answers *)

\* session_open has not been written.
Early(s) == open[s] \in {"none", "created", "prepared"}

\* The i-th message to the agent on the connection is the session's session_open.
Asked(s, c, i) == i \in 1..Len(toAgent[c]) /\ toAgent[c][i].type = "open" /\ toAgent[c][i].s = s

\* The agent refused to open the session: its answer is in flight or was delivered.
Rejected(s) ==
    \/ reply[s] = "err"
    \/ \E c \in Conn : \E i \in 1..Len(toServer[c]) : toServer[c][i].type = "err" /\ toServer[c][i].s = s

\* A session is asked for once, on one connection, and the question, the refusal and
\* the terminal exclude one another.
Once(s) ==
    /\ Early(s) => term[s] = "none" /\ ~Rejected(s) /\ \A c \in Conn : \A i \in Nat : ~Asked(s, c, i)
    /\ Rejected(s) => term[s] = "none"
    /\ \A c \in Conn : \A i \in Nat : Asked(s, c, i) =>
         /\ term[s] = "none" /\ ~Rejected(s)
         /\ \A b \in Conn : \A j \in Nat : Asked(s, b, j) => b = c /\ j = i

AskedOnce == \A s \in Session : Once(s)

\* A connection's questions after a step are those before it, moved up by one if the
\* first message was taken.
Moved(c, k) == \A s \in Session : \A i \in Nat : Asked(s, c, i)' => Asked(s, c, i + k)

\* Taking the first message moves the others up.
LEMMA TakeMoves ==
  ASSUME TypeOK, NEW c \in Conn, toAgent[c] # <<>>, toAgent'[c] = Tail(toAgent[c])
  PROVE  Moved(c, 1)
  <1>1. /\ Len(toAgent[c]) \in Nat \ {0} /\ Len(toAgent'[c]) = Len(toAgent[c]) - 1
        /\ \A i \in 1..Len(toAgent'[c]) : toAgent'[c][i] = toAgent[c][i + 1]
    BY QueueHead DEF TypeOK
  <1>2. \A i \in 1..Len(toAgent'[c]) : i + 1 \in 1..Len(toAgent[c])
    BY <1>1
  <1> QED
    BY <1>1, <1>2, Zenon DEF Moved, Asked

\* A queue that stays, is emptied or loses its first message gets no new question.
LEMMA LessMoves ==
  ASSUME TypeOK, NEW c \in Conn,
         toAgent'[c] \in {toAgent[c], <<>>} \/ (toAgent[c] # <<>> /\ toAgent'[c] = Tail(toAgent[c]))
  PROVE  \E k \in {0, 1} : Moved(c, k)
  <1>1. toAgent \in [Conn -> Seq(Message)]
    BY Zenon DEF TypeOK
  <1>2. CASE toAgent'[c] = toAgent[c]
    <2>1. Moved(c, 0)
      BY <1>2 DEF Moved, Asked
    <2> QED
      BY <2>1, Zenon
  <1>3. CASE toAgent'[c] = <<>>
    <2>1. Moved(c, 0)
      BY <1>3 DEF Moved, Asked
    <2> QED
      BY <2>1, Zenon
  <1>4. CASE toAgent[c] # <<>> /\ toAgent'[c] = Tail(toAgent[c])
    <2>1. Moved(c, 1)
      BY <1>4, TakeMoves, Zenon
    <2> QED
      BY <2>1, Zenon
  <1> QED
    BY <1>2, <1>3, <1>4, Zenon

\* What SendMessage leaves in the queues.
LEMMA SendContent ==
  ASSUME TypeOK, NEW d, NEW m \in Message, SendMessage(d, m), NEW b \in Conn, NEW i \in 1..Len(toAgent'[b])
  PROVE  \/ toAgent'[b][i] = m /\ b = conns[d] /\ i = Len(toAgent[b]) + 1
         \/ i \in 1..Len(toAgent[b]) /\ toAgent'[b][i] = toAgent[b][i]
  <1>1. toAgent \in [Conn -> Seq(Message)]
    BY Zenon DEF TypeOK
  <1>2. CASE ~IsOnline(d)
    BY <1>2, Zenon DEF SendMessage
  <1>3. CASE IsOnline(d)
    <2>1. PICK up \in BOOLEAN : toAgent' = Put(toAgent, conns[d], up, m)
      BY <1>3, Zenon DEF SendMessage
    <2> QED
      BY <1>1, <2>1, PutContent
  <1> QED
    BY <1>2, <1>3, Zenon

\* A session_close is no question.
LEMMA CloseMoves ==
  ASSUME TypeOK, NEW d, NEW m \in Message, m.type # "open", SendMessage(d, m), NEW c \in Conn
  PROVE  Moved(c, 0)
  <1> SUFFICES ASSUME NEW s \in Session, NEW i \in Nat, Asked(s, c, i)' PROVE Asked(s, c, i)
    BY DEF Moved
  <1>1. i \in 1..Len(toAgent'[c]) /\ toAgent'[c][i] # m
    BY Zenon DEF Asked
  <1>2. i \in 1..Len(toAgent[c]) /\ toAgent'[c][i] = toAgent[c][i]
    BY <1>1, SendContent
  <1> QED
    BY <1>2, Zenon DEF Asked

\* OpenTerminal does not go back.
LEMMA StepEarly ==
  ASSUME TypeOK, [Next]_vars, NEW s \in Session, Early(s)'
  PROVE  Early(s)
  <1>0. RowTypes
    BY TypeParts, Zenon
  <1> USE DEF Early, RowTypes
  <1>1. ASSUME NEW r \in Session, NEW d \in Device, CreateSession(r, d) PROVE Early(s)
    BY <1>0, <1>1, Zenon DEF CreateSession
  <1>2. ASSUME NEW r \in Session, Opening(r) \/ ClientGone(r) PROVE Early(s)
    BY <1>0, <1>2, ZenonT(30) DEF Opening, OpenMaintenance, SendOpen, Resume, Timeout, Fail, Activate, RegisterStream, ClientGone
  <1>3. CASE Restart
    BY <1>3, Zenon DEF Restart
  <1>4. CASE UNCHANGED open
    BY <1>4, Zenon
  <1> QED
    BY <1>1, <1>2, <1>3, <1>4, StepKinds, StepFrames, Zenon DEF vars, serverVars, CreateStep

\* Only openTerminalSession starts a terminal, and the one it was asked for.
LEMMA StepTerm ==
  ASSUME TypeOK, [Next]_vars, NEW s \in Session, term[s] = "none", \A c \in Conn : ~(AgentOpens(c) /\ Asked(s, c, 1))
  PROVE  term'[s] = "none"
  <1>0. AgentTypes
    BY TypeParts, Zenon
  <1> USE DEF AgentTypes
  <1>5. ASSUME NEW c \in Conn, AgentOpens(c) PROVE term'[s] = "none"
    <2>1. /\ Head(toAgent[c]).type = "open" /\ term' = [term EXCEPT ![Head(toAgent[c]).s] = "open"]
      BY <1>5, Zenon DEF AgentOpens
    <2>2. Head(toAgent[c]) = toAgent[c][1] /\ Len(toAgent[c]) \in Nat \ {0}
      BY <1>5, QueueHead, SMTT(30) DEF AgentOpens, AgentCanRead, TypeOK
    <2>2a. 1 \in 1..Len(toAgent[c])
      BY <2>2
    <2>3. Head(toAgent[c]).s # s
      BY <1>5, <2>1, <2>2, <2>2a, Zenon DEF Asked
    <2> QED
      BY <1>0, <2>1, <2>3, ZenonT(30)
  <1>1. ASSUME NEW r \in Session, TerminalExits(r) \/ PumpEnds(r) PROVE term'[s] = "none"
    BY <1>0, <1>1, Zenon DEF TerminalExits, PumpEnds
  <1>2. ASSUME NEW c \in Conn, AgentCloses(c) \/ AgentLeaves(c) PROVE term'[s] = "none"
    BY <1>0, <1>2, Zenon DEF AgentCloses, AgentLeaves
  <1>3. CASE Restart
    BY <1>3, Zenon DEF Restart
  <1>4. CASE UNCHANGED term
    BY <1>4, Zenon
  <1> QED
    BY <1>1, <1>2, <1>3, <1>4, <1>5, StepKinds, StepFrames, Zenon
       DEF vars, agentVars, AgentStep, AgentReplies, AgentRejects

\* Only SendAndWait of OpenTerminal puts a question into a queue.
LEMMA StepMoves ==
  ASSUME TypeOK, [Next]_vars, \A s \in Session : ~SendOpen(s), NEW c \in Conn
  PROVE  \E k \in {0, 1} : Moved(c, k)
  <1>0. toAgent \in [Conn -> Seq(Message)]
    BY Zenon DEF TypeOK
  <1>1. ASSUME NEW b \in Conn, AgentReads(b) PROVE \E k \in {0, 1} : Moved(c, k)
    <2>1. toAgent[b] # <<>> /\ toAgent' = [toAgent EXCEPT ![b] = Tail(toAgent[b])]
      BY <1>0, <1>1, Zenon DEF AgentReads, AgentOpens, AgentRejects, AgentCloses, AgentCanRead
    <2>2. toAgent'[c] \in {toAgent[c], <<>>} \/ (toAgent[c] # <<>> /\ toAgent'[c] = Tail(toAgent[c]))
      BY <1>0, <2>1, Zenon
    <2> QED
      BY <2>2, LessMoves, Zenon
  <1>2. ASSUME NEW b \in Conn, AgentLeaves(b) PROVE \E k \in {0, 1} : Moved(c, k)
    <2>1. toAgent'[c] \in {toAgent[c], <<>>}
      BY <1>0, <1>2, Zenon DEF AgentLeaves
    <2> QED
      BY <2>1, LessMoves, Zenon
  <1>3. CASE Restart
    <2>1. toAgent'[c] \in {toAgent[c], <<>>}
      BY <1>3, Zenon DEF Restart
    <2> QED
      BY <2>1, LessMoves, Zenon
  <1>4. CASE UNCHANGED toAgent
    <2>1. toAgent'[c] \in {toAgent[c], <<>>}
      BY <1>4, Zenon
    <2> QED
      BY <2>1, LessMoves, Zenon
  <1>5. ASSUME NEW s \in Session, NEW k \in Closer, CloserStep(s, k) PROVE \E n \in {0, 1} : Moved(c, n)
    <2>1. PICK m \in Message : m = [type |-> "close", s |-> s]
      BY Zenon DEF Message
    <2>2. UNCHANGED toAgent \/ SendMessage(sdev[s], m)
      BY <1>5, <2>1, Zenon DEF CloserStep
    <2>3. CASE SendMessage(sdev[s], m)
      <3>1. Moved(c, 0)
        BY <2>1, <2>3, CloseMoves, Zenon
      <3> QED
        BY <3>1, Zenon
    <2> QED
      BY <1>4, <2>2, <2>3, Zenon
  <1> QED
    BY <1>1, <1>2, <1>3, <1>4, <1>5, StepKinds, StepFrames, Zenon
       DEF vars, wireVars, CreateStep, CloseStep, AgentStep, AgentReads, Opening, CreateSession, OpenMaintenance,
           Resume, Timeout, Fail, Activate, RegisterStream, ClientGone, AdminCloses, BrowserAttaches, AdminGone,
           AgentReplies, TerminalExits, PumpEnds

\* The queues to the server that stay, are emptied or lose their first message hold no
\* new refusal.
LEMMA LessRejects ==
  ASSUME TypeOK, NEW s \in Session, reply'[s] = "err" => Rejected(s), Rejected(s)',
         \A b \in Conn : toServer'[b] \in {toServer[b], <<>>} \/ (toServer[b] # <<>> /\ toServer'[b] = Tail(toServer[b]))
  PROVE  Rejected(s)
  <1>1. toServer \in [Conn -> Seq(Message)]
    BY Zenon DEF TypeOK
  <1>2. CASE reply'[s] = "err"
    BY <1>2, Zenon
  <1>3. ASSUME NEW b \in Conn, NEW i \in 1..Len(toServer'[b]), toServer'[b][i].type = "err", toServer'[b][i].s = s
        PROVE  Rejected(s)
    <2>1. CASE toServer'[b] = toServer[b]
      BY <1>3, <2>1, Zenon DEF Rejected
    <2>2. CASE toServer'[b] = <<>>
      BY <1>3, <2>2
    <2>3. CASE toServer[b] # <<>> /\ toServer'[b] = Tail(toServer[b])
      <3>1. /\ Len(toServer[b]) \in Nat \ {0} /\ Len(toServer'[b]) = Len(toServer[b]) - 1
            /\ toServer'[b][i] = toServer[b][i + 1]
        BY <1>1, <1>3, <2>3, QueueHead, SMTT(30)
      <3>2. i + 1 \in 1..Len(toServer[b])
        BY <1>3, <3>1
      <3> QED
        BY <1>3, <3>1, <3>2, Zenon DEF Rejected
    <2> QED
      BY <2>1, <2>2, <2>3, Zenon
  <1> QED
    BY <1>2, <1>3, Zenon DEF Rejected

\* A send of anything but the session's refusal adds none.
LEMMA PutRejects ==
  ASSUME TypeOK, NEW s \in Session, NEW c, NEW up \in BOOLEAN, NEW m \in Message, toServer' = Put(toServer, c, up, m),
         reply' = reply, Rejected(s)'
  PROVE  Rejected(s) \/ (m.type = "err" /\ m.s = s)
  <1>1. toServer \in [Conn -> Seq(Message)]
    BY Zenon DEF TypeOK
  <1>2. ASSUME NEW b \in Conn, NEW i \in 1..Len(toServer'[b]), toServer'[b][i].type = "err", toServer'[b][i].s = s,
               toServer'[b][i] # m
        PROVE  Rejected(s)
    <2>0. i \in 1..Len(Put(toServer, c, up, m)[b]) /\ Put(toServer, c, up, m)[b][i] # m
      BY <1>2, Zenon
    <2>1. i \in 1..Len(toServer[b]) /\ Put(toServer, c, up, m)[b][i] = toServer[b][i]
      BY <1>1, <2>0, PutContent
    <2> QED
      BY <1>2, <2>1, Zenon DEF Rejected
  <1> QED
    BY <1>2, Zenon DEF Rejected

\* Only the agent's handler of session_open refuses, and its refusal is delivered to the
\* session that was asked for.
LEMMA StepRejected ==
  ASSUME TypeOK, [Next]_vars, NEW s \in Session, Rejected(s)'
  PROVE  Rejected(s) \/ \E c \in Conn : AgentRejects(c) /\ Asked(s, c, 1)
  <1> DEFINE Goal == Rejected(s) \/ \E c \in Conn : AgentRejects(c) /\ Asked(s, c, 1)
  <1>0. toServer \in [Conn -> Seq(Message)] /\ toAgent \in [Conn -> Seq(Message)] /\ reply \in [Session -> {"none", "ok", "err"}]
    BY Zenon DEF TypeOK
  <1>1. ASSUME NEW c \in Conn, ReadResult(c) \/ ReadClose(c) PROVE Goal
    <2>1. toServer[c] # <<>> /\ toServer' = [toServer EXCEPT ![c] = Tail(toServer[c])]
      BY <1>0, <1>1, Zenon DEF ReadResult, ReadClose, CanRead
    <2>2. \A b \in Conn : toServer'[b] \in {toServer[b], <<>>} \/ (toServer[b] # <<>> /\ toServer'[b] = Tail(toServer[b]))
      BY <1>0, <2>1, Zenon
    <2>3. ASSUME reply'[s] = "err", reply[s] # "err" PROVE Rejected(s)
      <3>1. Head(toServer[c]).type = "err" /\ Head(toServer[c]).s = s
        BY <1>0, <1>1, <2>3, Zenon DEF ReadResult, ReadClose
      <3>2. Head(toServer[c]) = toServer[c][1] /\ Len(toServer[c]) \in Nat \ {0}
        BY <1>0, <2>1, QueueHead, Zenon
      <3>3. 1 \in 1..Len(toServer[c])
        BY <3>2
      <3> QED
        BY <3>1, <3>2, <3>3, Zenon DEF Rejected
    <2>4. reply'[s] = "err" => Rejected(s)
      BY <2>3, Zenon DEF Rejected
    <2> QED
      BY <2>2, <2>4, LessRejects, Zenon
  <1>2. ASSUME NEW r \in Session, AgentReplies(r) \/ PumpEnds(r) PROVE Goal
    <2>1. PICK m \in Message, up \in BOOLEAN : m.type # "err" /\ toServer' = Put(toServer, via[r], up, m)
      <3>1. [type |-> "ok", s |-> r] \in Message /\ [type |-> "close", s |-> r] \in Message
        BY Zenon DEF Message
      <3> QED
        BY <1>2, <3>1, Zenon DEF AgentReplies, PumpEnds
    <2>2. reply' = reply
      BY <1>2, Zenon DEF AgentReplies, PumpEnds, serverVars
    <2> QED
      BY <2>1, <2>2, PutRejects, SMTT(30)
  <1>3. ASSUME NEW c \in Conn, AgentRejects(c) PROVE Goal
    <2>1. /\ Head(toAgent[c]).s \in Session /\ Head(toAgent[c]).type = "open"
          /\ Head(toAgent[c]) = toAgent[c][1] /\ Len(toAgent[c]) \in Nat \ {0}
      BY <1>0, <1>3, QueueHead, Zenon DEF AgentRejects, AgentCanRead
    <2>2. PICK m \in Message : m = [type |-> "err", s |-> Head(toAgent[c]).s]
      BY <2>1, Zenon DEF Message
    <2>3. PICK up \in BOOLEAN : toServer' = Put(toServer, c, up, m)
      BY <1>3, <2>2, ZenonT(30) DEF AgentRejects
    <2>4. reply' = reply
      BY <1>3, Zenon DEF AgentRejects, serverVars
    <2>5. Rejected(s) \/ m.s = s
      BY <2>3, <2>4, PutRejects, Zenon
    <2>6. m.s = s => Asked(s, c, 1)
      BY <2>1, <2>2, SMTT(30) DEF Asked
    <2> QED
      BY <1>3, <2>5, <2>6, Zenon
  <1>4. ASSUME reply' = reply, \A b \in Conn : toServer'[b] \in {toServer[b], <<>>} PROVE Goal
    BY <1>4, LessRejects, Zenon DEF Rejected
  <1>5. ASSUME NEW c \in Conn, LoopEnds(c) PROVE Goal
    BY <1>0, <1>4, <1>5, Zenon DEF LoopEnds, serverVars
  <1>6. CASE Restart
    BY <1>4, <1>6, Zenon DEF Restart
  <1>7. CASE UNCHANGED <<reply, toServer>>
    BY <1>4, <1>7, Zenon
  <1> QED
    BY <1>1, <1>2, <1>3, <1>5, <1>6, <1>7, StepKinds, StepFrames, Zenon
       DEF vars, serverVars, wireVars, LoopStep, AgentStep, LinkStep, TerminalExits, AgentOpens, AgentCloses,
           AgentLeaves, LoopUnmaps, AgentConnects, SweeperEvicts, RevokeDevice

\* Once the agent has taken the question, it is in no queue.
LEMMA TakenOnce ==
  ASSUME TypeOK, AskedOnce, NEW s \in Session, NEW b \in Conn, AgentOpens(b) \/ AgentRejects(b), Asked(s, b, 1),
         NEW c \in Conn, NEW i \in Nat
  PROVE  ~Asked(s, c, i)'
  <1> SUFFICES ASSUME Asked(s, c, i)' PROVE FALSE
    BY Zenon
  <1>1. toAgent \in [Conn -> Seq(Message)]
    BY Zenon DEF TypeOK
  <1>2. toAgent[b] # <<>> /\ toAgent' = [toAgent EXCEPT ![b] = Tail(toAgent[b])]
    BY <1>1, ZenonT(30) DEF AgentOpens, AgentRejects, AgentCanRead
  <1>3. i # 0
    BY DEF Asked
  <1>4. CASE c = b
    <2>1. toAgent'[c] = Tail(toAgent[c])
      BY <1>1, <1>2, <1>4, Zenon
    <2>2. Moved(c, 1)
      BY <1>2, <1>4, <2>1, TakeMoves, Zenon
    <2>3. Asked(s, c, i + 1)
      BY <2>2, Zenon DEF Moved
    <2>4. i + 1 \in Nat /\ 1 \in Nat /\ i + 1 # 1
      BY <1>3
    <2> QED
      BY <1>4, <2>3, <2>4, Zenon DEF AskedOnce, Once
  <1>5. CASE c # b
    <2>1. toAgent'[c] = toAgent[c]
      BY <1>1, <1>2, <1>5, Zenon
    <2>2. Asked(s, c, i)
      BY <2>1, Zenon DEF Asked
    <2>3. 1 \in Nat
      BY Zenon
    <2> QED
      BY <1>5, <2>2, <2>3, Zenon DEF AskedOnce, Once
  <1> QED
    BY <1>4, <1>5, Zenon

\* Moving the questions up keeps each of them the only one.
LEMMA MovedOnce ==
  ASSUME AskedOnce, \A b \in Conn : \E k \in {0, 1} : Moved(b, k),
         NEW s \in Session, NEW c \in Conn, NEW i \in Nat, Asked(s, c, i)'
  PROVE  /\ \E j \in Nat : Asked(s, c, j)
         /\ \A b \in Conn : \A j \in Nat : Asked(s, b, j)' => b = c /\ j = i
  <1>1. PICK k \in {0, 1} : Moved(c, k)
    BY Zenon
  <1>2. i + k \in Nat
    OBVIOUS
  <1>3. Asked(s, c, i + k)
    BY <1>1, Zenon DEF Moved
  <1>4. ASSUME NEW b \in Conn, NEW j \in Nat, Asked(s, b, j)' PROVE b = c /\ j = i
    <2>1. PICK n \in {0, 1} : Moved(b, n)
      BY Zenon
    <2>2. Asked(s, b, j + n) /\ j + n \in Nat
      BY <1>4, <2>1 DEF Moved
    <2>3. b = c
      BY <1>2, <1>3, <2>2, Zenon DEF AskedOnce, Once
    <2>4. Asked(s, c, j + k) /\ j + k \in Nat
      BY <1>1, <1>4, <2>3 DEF Moved
    <2>5. j + k = i + k
      BY <1>2, <1>3, <2>4, Zenon DEF AskedOnce, Once
    <2>6. j = i
      BY <2>5
    <2> QED
      BY <2>3, <2>6, Zenon
  <1> QED
    BY <1>2, <1>3, <1>4, Zenon

\* SendAndWait of OpenTerminal: the session was not asked for before.
LEMMA SendAskedOnce ==
  ASSUME TypeOK, AskedOnce, NEW r \in Session, SendOpen(r)
  PROVE  AskedOnce'
  <1>1. toAgent \in [Conn -> Seq(Message)] /\ open \in [Session -> Open]
    BY Zenon DEF TypeOK
  <1>2. UNCHANGED <<term, reply, toServer>>
    BY Zenon DEF SendOpen, agentVars
  <1>3. Early(r) /\ ~Early(r)' /\ \A s \in Session : Early(s)' => Early(s)
    BY <1>1, Zenon DEF SendOpen, Early
  <1>4. PICK m \in Message : m = [type |-> "open", s |-> r]
    BY Zenon DEF Message
  <1>5. SendMessage(sdev[r], m)
    BY <1>4, Zenon DEF SendOpen
  <1>6. ASSUME NEW s \in Session, NEW c \in Conn, NEW i \in Nat, Asked(s, c, i)'
        PROVE  IF s = r THEN c = conns[sdev[r]] /\ i = Len(toAgent[c]) + 1 ELSE Asked(s, c, i)
    <2>1. i \in 1..Len(toAgent'[c]) /\ toAgent'[c][i].type = "open" /\ toAgent'[c][i].s = s
      BY <1>6, Zenon DEF Asked
    <2>2. \/ toAgent'[c][i] = m /\ c = conns[sdev[r]] /\ i = Len(toAgent[c]) + 1
          \/ i \in 1..Len(toAgent[c]) /\ toAgent'[c][i] = toAgent[c][i]
      BY <1>5, <2>1, SendContent, SMTT(30)
    <2>3. CASE toAgent'[c][i] = m /\ c = conns[sdev[r]] /\ i = Len(toAgent[c]) + 1
      BY <1>4, <2>1, <2>3
    <2>4. CASE i \in 1..Len(toAgent[c]) /\ toAgent'[c][i] = toAgent[c][i]
      <3>1. Asked(s, c, i)
        BY <2>1, <2>4, Zenon DEF Asked
      <3>2. s # r
        BY <1>3, <3>1, Zenon DEF AskedOnce, Once
      <3> QED
        BY <3>1, <3>2, Zenon
    <2> QED
      BY <2>2, <2>3, <2>4, Zenon
  <1>7. \A s \in Session : Rejected(s)' <=> Rejected(s)
    BY <1>2, Zenon DEF Rejected
  <1> SUFFICES ASSUME NEW s \in Session PROVE Once(s)'
    BY Zenon DEF AskedOnce
  <1>8. CASE s = r
    <2>1. term'[s] = "none" /\ ~Rejected(s)'
      BY <1>2, <1>3, <1>7, <1>8, Zenon DEF AskedOnce, Once
    <2> QED
      BY <1>3, <1>6, <1>8, <2>1, Zenon DEF Once
  <1>9. CASE s # r
    <2>1. \A c \in Conn : \A i \in Nat : Asked(s, c, i)' => Asked(s, c, i)
      BY <1>6, <1>9, Zenon
    <2> QED
      BY <1>2, <1>3, <1>7, <1>9, <2>1 DEF AskedOnce, Once
  <1> QED
    BY <1>8, <1>9, Zenon

\* No step asks for a session again or lets a refused one start.
LEMMA StepAskedOnce == IInv /\ AskedOnce /\ [Next]_vars => AskedOnce'
  <1> SUFFICES ASSUME IInv, AskedOnce, [Next]_vars PROVE AskedOnce'
    BY Zenon
  <1>0. TypeOK
    BY Zenon DEF IInv
  <1>1. ASSUME NEW r \in Session, SendOpen(r) PROVE AskedOnce'
    BY <1>0, <1>1, SendAskedOnce, Zenon
  <1>2. ASSUME \A r \in Session : ~SendOpen(r) PROVE AskedOnce'
    <2>1. \A b \in Conn : \E k \in {0, 1} : Moved(b, k)
      BY <1>0, <1>2, StepMoves, Zenon
    <2> SUFFICES ASSUME NEW s \in Session PROVE Once(s)'
      BY Zenon DEF AskedOnce
    <2>2. Once(s) /\ 1 \in Nat
      BY Zenon DEF AskedOnce
    <2>3. ASSUME \A c \in Conn : \A i \in Nat : ~Asked(s, c, i)
          PROVE  /\ Rejected(s)' => Rejected(s)
                 /\ term[s] = "none" => term'[s] = "none"
                 /\ \A c \in Conn : \A i \in Nat : ~Asked(s, c, i)'
      <3>1. \A c \in Conn : ~Asked(s, c, 1)
        BY <2>2, <2>3, Zenon
      <3> QED
        BY <1>0, <2>1, <2>3, <3>1, StepRejected, StepTerm, MovedOnce, Zenon
    <2>4. ASSUME \A c \in Conn : \A i \in Nat : ~Asked(s, c, i) PROVE Once(s)'
      <3>1. Early(s)' => Early(s)
        BY <1>0, StepEarly, Zenon
      <3> QED
        BY <2>2, <2>3, <2>4, <3>1, Zenon DEF Once
    <2>5. ASSUME NEW b \in Conn, NEW n \in Nat, Asked(s, b, n) PROVE Once(s)'
      <3>1. term[s] = "none" /\ ~Rejected(s) /\ ~Early(s)
        BY <2>2, <2>5, Zenon DEF Once
      <3>2. ~Early(s)'
        BY <1>0, <3>1, StepEarly, Zenon
      <3>3. ASSUME NEW c \in Conn, AgentRejects(c), Asked(s, c, 1) PROVE Once(s)'
        <4>1. \A a \in Conn : \A i \in Nat : ~Asked(s, a, i)'
          BY <1>0, <3>3, TakenOnce, Zenon
        <4>2. term' = term
          BY <3>3, Zenon DEF AgentRejects, agentVars
        <4> QED
          BY <3>1, <3>2, <4>1, <4>2, Zenon DEF Once
      <3>4. ASSUME NEW c \in Conn, AgentOpens(c), Asked(s, c, 1) PROVE Once(s)'
        <4>1. \A a \in Conn : \A i \in Nat : ~Asked(s, a, i)'
          BY <1>0, <3>4, TakenOnce, Zenon
        <4>2. UNCHANGED <<reply, toServer>>
          BY <3>4, Zenon DEF AgentOpens, serverVars
        <4>3. ~Rejected(s)'
          BY <3>1, <4>2, Zenon DEF Rejected
        <4> QED
          BY <3>2, <4>1, <4>3, Zenon DEF Once
      <3>5. ASSUME \A c \in Conn : Asked(s, c, 1) => ~AgentRejects(c) /\ ~AgentOpens(c) PROVE Once(s)'
        <4>1. term'[s] = "none" /\ ~Rejected(s)'
          BY <1>0, <3>1, <3>5, StepTerm, StepRejected, Zenon
        <4>2. ASSUME NEW c \in Conn, NEW i \in Nat, Asked(s, c, i)'
              PROVE  \A a \in Conn : \A j \in Nat : Asked(s, a, j)' => a = c /\ j = i
          BY <2>1, <4>2, MovedOnce, Zenon
        <4> QED
          BY <3>2, <4>1, <4>2, Zenon DEF Once
      <3> QED
        BY <3>3, <3>4, <3>5, Zenon
    <2> QED
      BY <2>4, <2>5, Zenon
  <1> QED
    BY <1>1, <1>2, Zenon

\* In every reachable state a session was asked for at most once.
LEMMA AskedOnceHolds == Spec => []AskedOnce
  <1>1. Init => AskedOnce
    BY SMTT(30) DEF Init, AskedOnce, Once, Early, Rejected, Asked
  <1> QED
    BY <1>1, Invariance, StepAskedOnce, PTL DEF Spec

\* What a waiting create request was told agrees with what the agent did.
AnswersMatch ==
    \A s \in Session : /\ reply[s] = "ok" => term[s] # "none"
                       /\ reply[s] = "err" => term[s] = "none"

\* openTerminalSession and SendAndWait: with any number of sessions asked for over the
\* same connection, a create request is told of a success only if its terminal was
\* started and of a refusal only if it never was, however late and in
\* whatever order the answers come.
THEOREM AnswersAreRight == Spec => []AnswersMatch
  <1>1. IInv /\ AskedOnce => AnswersMatch
    BY Zenon DEF IInv, TermInv, SuccessFollowsStart, AskedOnce, Once, Rejected, AnswersMatch
  <1> QED
    BY <1>1, Invariance, AskedOnceHolds, PTL
=============================================================================
