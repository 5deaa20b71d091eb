-------------------------- MODULE ControlHubProofs --------------------------
(***************************************************************************)
(* Proofs about ControlHub for any number of devices and connections.      *)
(*                                                                         *)
(* MapSound and SinglePrimary are not inductive alone: Register indexes    *)
(* Hub.conns by the device of a connection and closeConn by the sweeper's  *)
(* local, so both must be known to be devices.  IInv adds this.            *)
(***************************************************************************)
EXTENDS ControlHub, TLAPS

\* A call that has begun knows its device.
DevKnown == \A c \in Conn : pc[c] # "idle" => dev[c] \in Device

\* The sweeper works on a device whenever it is about to write.
SweepKnown == sweep.at \in {"offline", "close", "lost"} => sweep.d \in Device

IInv == TypeOK /\ DevKnown /\ SweepKnown /\ MapSound /\ SinglePrimary

USE HubNoConnAssumption, HubNoDeviceAssumption, TimingAssumption

\* The age of last_seen_at stays within the horizon when it is reset or advanced.
LEMMA HorizonNat == Horizon \in Nat /\ 0 \in Never..Horizon /\ Never \in Never..Horizon
  BY SMT DEF Horizon, Never

\* The initial rows and the empty connection table satisfy the invariant.
LEMMA InitIInv == Init => IInv
  BY HorizonNat DEF Init, IInv, TypeOK, DevKnown, SweepKnown, MapSound, SinglePrimary, SweepIdle,
     Status, Step, Socket, SweepStep

\* Both statements on the row keep the columns' types.
LEMMA RowUpdates ==
  ASSUME TypeOK, NEW d, NEW s \in Status
  PROVE  /\ UpdateStatusOnly(d, s) => status' \in [Device -> Status]
         /\ UpdateConnectivity(d, s) => status' \in [Device -> Status] /\ age' \in [Device -> Never..Horizon]
  BY HorizonNat, SMTT(30) DEF TypeOK, UpdateStatusOnly, UpdateConnectivity

\* Every step of the hub, its sweeper and its environment keeps TypeOK.
LEMMA StepTypeOK == IInv /\ [Next]_vars => TypeOK'
  <1> SUFFICES ASSUME IInv, [Next]_vars PROVE TypeOK'
    OBVIOUS
  <1> USE DEF IInv, TypeOK, Status, Step, Socket, SweepStep, rowVars, connVars
  <1>1. ASSUME NEW c \in Conn, NEW d \in Device, Dial(c, d) PROVE TypeOK'
    BY <1>1 DEF Dial
  <1>2. ASSUME NEW c \in Conn, AgentDrops(c) \/ AgentSeesClose(c) PROVE TypeOK'
    BY <1>2 DEF AgentDrops, AgentSeesClose
  <1>3. ASSUME NEW c \in Conn, Handshake(c) \/ HandshakeFails(c) \/ Return(c) PROVE TypeOK'
    BY <1>3, ZenonT(60) DEF Handshake, HandshakeFails, Return, Free
  <1>4. ASSUME NEW c \in Conn, Register(c) PROVE TypeOK'
    BY <1>4, Zenon DEF Register
  <1>5. ASSUME NEW c \in Conn, MarkOnline(c) \/ Heartbeat(c) PROVE TypeOK'
    BY <1>5, RowUpdates DEF MarkOnline, Heartbeat
  <1>6. ASSUME NEW c \in Conn, ReadEnds(c) \/ Unmap(c) PROVE TypeOK'
    BY <1>6 DEF ReadEnds, Unmap
  <1>7. ASSUME NEW c \in Conn, MarkLost(c) PROVE TypeOK'
    BY <1>7, RowUpdates DEF MarkLost
  <1>8. CASE SweepStart \/ SweepEnd
    BY <1>8 DEF SweepStart, SweepEnd, SweepIdle
  <1>9. ASSUME NEW d \in Device, SweepRead(d) PROVE TypeOK'
    BY <1>9, Zenon DEF SweepRead, SweepVerdict
  <1>10. CASE SweepMarkOffline \/ SweepMarkLost
    BY <1>10, RowUpdates DEF SweepMarkOffline, SweepMarkLost
  <1>11. CASE SweepClose
    BY <1>11, Zenon DEF SweepClose, SweepKnown
  <1>12. CASE SweepCancel
    BY <1>12, ZenonT(30) DEF SweepCancel
  <1>13. ASSUME NEW d \in Device, Revoke(d) \/ Delete(d) PROVE TypeOK'
    BY <1>13 DEF Revoke, Delete
  <1>14. CASE Tick
    BY <1>14, HorizonNat, SMT DEF Tick, Never
  <1>15. CASE ServerStop
    BY <1>15 DEF ServerStop, SweepIdle
  <1>16. CASE UNCHANGED vars
    BY <1>16 DEF vars
  <1> QED
    BY <1>1, <1>2, <1>3, <1>4, <1>5, <1>6, <1>7, <1>8, <1>9, <1>10, <1>11, <1>12, <1>13, <1>14, <1>15, <1>16, Zenon
       DEF Next, Serve, Sweeper

\* A call keeps its device until it returns, and only a call that has not begun or
\* is over has none.
LEMMA StepDevKnown == IInv /\ [Next]_vars => DevKnown'
  <1> SUFFICES ASSUME IInv, [Next]_vars, NEW b \in Conn, pc'[b] # "idle" PROVE dev'[b] \in Device
    BY DEF DevKnown
  <1> USE DEF IInv, TypeOK, DevKnown, rowVars, connVars
  <1>1. ASSUME NEW c \in Conn, NEW d \in Device, Dial(c, d) PROVE dev'[b] \in Device
    BY <1>1 DEF Dial
  <1>2. ASSUME NEW c \in Conn, HandshakeFails(c) \/ Return(c) PROVE dev'[b] \in Device
    BY <1>2 DEF HandshakeFails, Return, Free
  <1>3. ASSUME NEW c \in Conn, pc[c] # "idle", UNCHANGED dev, \A a \in Conn : a # c => pc'[a] = pc[a]
        PROVE  dev'[b] \in Device
    BY <1>3
  <1>4. ASSUME NEW c \in Conn, Serve(c) PROVE dev'[b] \in Device
    BY <1>2, <1>3, <1>4
       DEF Serve, Handshake, Register, MarkOnline, Heartbeat, ReadEnds, Unmap, MarkLost
  <1>5. CASE ServerStop
    BY <1>5 DEF ServerStop
  <1>6. CASE UNCHANGED <<pc, dev>>
    BY <1>6
  <1> QED
    BY <1>1, <1>4, <1>5, <1>6, Zenon
       DEF Next, AgentDrops, AgentSeesClose, Sweeper, SweepStart, SweepRead, SweepMarkOffline,
           SweepClose, SweepCancel, SweepMarkLost, SweepEnd, Revoke, Delete, Tick, vars

\* The sweeper decides on a device it has just taken from its list.
LEMMA StepSweepKnown == IInv /\ [Next]_vars => SweepKnown'
  <1> SUFFICES ASSUME IInv, [Next]_vars PROVE SweepKnown'
    OBVIOUS
  <1> USE DEF IInv, TypeOK, SweepKnown
  <1>1. CASE UNCHANGED sweep
    BY <1>1
  <1>2. CASE SweepStart \/ SweepEnd \/ ServerStop
    BY <1>2 DEF SweepStart, SweepEnd, ServerStop, SweepIdle
  <1>3. ASSUME NEW d \in Device, SweepRead(d) PROVE SweepKnown'
    BY <1>3 DEF SweepRead
  <1>4. CASE SweepMarkOffline \/ SweepClose \/ SweepCancel \/ SweepMarkLost
    BY <1>4, Zenon DEF SweepMarkOffline, SweepClose, SweepCancel, SweepMarkLost
  <1> QED
    BY <1>1, <1>2, <1>3, <1>4
       DEF Next, Serve, Dial, AgentDrops, AgentSeesClose, Handshake, HandshakeFails, Register,
           MarkOnline, Heartbeat, ReadEnds, Unmap, MarkLost, Return, Sweeper, Revoke, Delete, Tick, vars

\* Register, Unmap and closeConn are the only steps that touch the table, and a call
\* that is entered leaves the entered phases only through Unmap.
LEMMA StepMapSound == IInv /\ [Next]_vars => MapSound'
  <1> SUFFICES ASSUME IInv, [Next]_vars PROVE MapSound'
    OBVIOUS
  <1> USE DEF IInv, TypeOK, MapSound, rowVars, connVars
  <1>1. ASSUME NEW c \in Conn, NEW d \in Device, Dial(c, d) PROVE MapSound'
    BY <1>1 DEF Dial
  <1>2. ASSUME NEW c \in Conn, Handshake(c) PROVE MapSound'
    BY <1>2 DEF Handshake
  <1>3. ASSUME NEW c \in Conn, HandshakeFails(c) \/ Return(c) PROVE MapSound'
    BY <1>3 DEF HandshakeFails, Return, Free
  <1>4. ASSUME NEW c \in Conn, Register(c) PROVE MapSound'
    BY <1>4 DEF Register, DevKnown
  <1>5. ASSUME NEW c \in Conn, MarkOnline(c) \/ ReadEnds(c) PROVE MapSound'
    BY <1>5 DEF MarkOnline, ReadEnds
  <1>6. ASSUME NEW c \in Conn, Unmap(c) PROVE MapSound'
    BY <1>6 DEF Unmap, DevKnown
  <1>7. ASSUME NEW c \in Conn, MarkLost(c) PROVE MapSound'
    BY <1>7 DEF MarkLost
  <1>8. CASE SweepClose
    BY <1>8 DEF SweepClose
  <1>9. CASE ServerStop
    BY <1>9 DEF ServerStop
  <1>10. CASE UNCHANGED <<conns, pc, dev>>
    BY <1>10, SMTT(30)
  <1> QED
    BY <1>1, <1>2, <1>3, <1>4, <1>5, <1>6, <1>7, <1>8, <1>9, <1>10, Zenon
       DEF Next, Serve, Heartbeat, AgentDrops, AgentSeesClose, Sweeper, SweepStart, SweepRead,
           SweepMarkOffline, SweepCancel, SweepMarkLost, SweepEnd, Revoke, Delete, Tick, vars

\* A registered connection loses its entry to Register, which cancels it in the same
\* critical section, or to closeConn, which holds it until it has cancelled it.
LEMMA StepSinglePrimary == IInv /\ [Next]_vars => SinglePrimary'
  <1> SUFFICES ASSUME IInv, [Next]_vars PROVE SinglePrimary'
    OBVIOUS
  <1> USE DEF IInv, TypeOK, SinglePrimary, rowVars, connVars
  <1>1. ASSUME NEW c \in Conn, NEW d \in Device, Dial(c, d) PROVE SinglePrimary'
    BY <1>1 DEF Dial
  <1>2. ASSUME NEW c \in Conn, Handshake(c) PROVE SinglePrimary'
    BY <1>2 DEF Handshake
  <1>3. ASSUME NEW c \in Conn, HandshakeFails(c) \/ Return(c) PROVE SinglePrimary'
    BY <1>3 DEF HandshakeFails, Return, Free
  <1>4. ASSUME NEW c \in Conn, Register(c) PROVE SinglePrimary'
    BY <1>4, ZenonT(30) DEF Register, DevKnown
  <1>5. ASSUME NEW c \in Conn, MarkOnline(c) \/ ReadEnds(c) PROVE SinglePrimary'
    BY <1>5 DEF MarkOnline, ReadEnds
  <1>6. ASSUME NEW c \in Conn, Unmap(c) PROVE SinglePrimary'
    BY <1>6 DEF Unmap, DevKnown
  <1>7. ASSUME NEW c \in Conn, MarkLost(c) PROVE SinglePrimary'
    BY <1>7 DEF MarkLost
  <1>8. CASE SweepClose
    BY <1>8 DEF SweepClose, SweepKnown
  <1>9. CASE SweepCancel
    BY <1>9, Zenon DEF SweepCancel
  <1>10. CASE ServerStop
    BY <1>10 DEF ServerStop
  <1>11. CASE UNCHANGED <<conns, pc, dev, cancelled>> /\ (sweep.at = "cancel" => UNCHANGED sweep)
    BY <1>11
  <1> QED
    BY <1>1, <1>2, <1>3, <1>4, <1>5, <1>6, <1>7, <1>8, <1>9, <1>10, <1>11, Zenon
       DEF Next, Serve, Heartbeat, AgentDrops, AgentSeesClose, Sweeper, SweepStart, SweepRead,
           SweepMarkOffline, SweepMarkLost, SweepEnd, Revoke, Delete, Tick, vars

\* The strengthened invariant holds in every reachable state, over any number of
\* server restarts.
THEOREM Invariance == Spec => []IInv
  <1>1. IInv /\ [Next]_vars => IInv'
    BY StepTypeOK, StepDevKnown, StepSweepKnown, StepMapSound, StepSinglePrimary DEF IInv
  <1> QED
    BY InitIInv, <1>1, PTL DEF Spec

\* Type correctness of the rows, the connection table, the calls and the sweeper.
THEOREM TypeCorrect == Spec => []TypeOK
  BY Invariance, PTL DEF IInv

\* Hub.conns routes a device's messages only to a connection of that device whose
\* ServeAgentWS call has not done its cleanup.
THEOREM RoutingSound == Spec => []MapSound
  BY Invariance, PTL DEF IInv

\* Of all connections a device has open, at most the registered one is served and
\* not cancelled.
THEOREM OnePrimary == Spec => []SinglePrimary
  BY Invariance, PTL DEF IInv

----------------------------------------------------------------------------
\* The calls that can have written online are the ones that still have connection_lost
\* to write, until the server stops.
LEMMA StepServed ==
  ASSUME IInv, [Next]_vars, ~ServerStop, NEW e \in Device, Served(e)
  PROVE  Served(e)'
  <1> SUFFICES ASSUME status'[e] = "online"
               PROVE  \E c \in Conn : dev'[c] = e /\ pc'[c] \in {"reading", "ended", "unmapped"}
    BY DEF Served
  <1> DEFINE Goal == \E c \in Conn : dev'[c] = e /\ pc'[c] \in {"reading", "ended", "unmapped"}
  <1> USE DEF IInv, TypeOK, Served, rowVars, connVars
  <1>1. ASSUME NEW c \in Conn, NEW d \in Device, Dial(c, d) PROVE Goal
    BY <1>1 DEF Dial
  <1>2. ASSUME NEW c \in Conn, Handshake(c) \/ Register(c) PROVE Goal
    BY <1>2 DEF Handshake, Register
  <1>3. ASSUME NEW c \in Conn, HandshakeFails(c) \/ Return(c) PROVE Goal
    BY <1>3 DEF HandshakeFails, Return, Free
  <1>4. ASSUME NEW c \in Conn, MarkOnline(c) PROVE Goal
    BY <1>4 DEF MarkOnline, UpdateConnectivity, UpdateStatusOnly, DevKnown
  <1>5. ASSUME NEW c \in Conn, Heartbeat(c) PROVE Goal
    BY <1>5 DEF Heartbeat, UpdateConnectivity, UpdateStatusOnly, DevKnown
  <1>6. ASSUME NEW c \in Conn, ReadEnds(c) \/ Unmap(c) PROVE Goal
    BY <1>6 DEF ReadEnds, Unmap
  <1>7. ASSUME NEW c \in Conn, MarkLost(c) PROVE Goal
    BY <1>7 DEF MarkLost, UpdateStatusOnly, DevKnown
  <1>8. CASE SweepMarkOffline \/ SweepMarkLost
    BY <1>8 DEF SweepMarkOffline, SweepMarkLost, UpdateStatusOnly
  <1>9. ASSUME NEW d \in Device, Revoke(d) \/ Delete(d) PROVE Goal
    BY <1>9 DEF Revoke, Delete
  <1>10. CASE UNCHANGED <<status, pc, dev>>
    BY <1>10
  <1> QED
    BY <1>1, <1>2, <1>3, <1>4, <1>5, <1>6, <1>7, <1>8, <1>9, <1>10, Zenon
       DEF Next, Serve, AgentDrops, AgentSeesClose, Sweeper, SweepStart, SweepRead, SweepClose,
           SweepCancel, SweepEnd, Tick, vars

\* However calls, the sweeper and administrators interleave, only a stop of the server
\* leaves a row online that no call is going to correct.
THEOREM OnlineIsServed == Spec => OnlineMeansServed
  <1>1. IInv /\ [Next]_vars => [\A d \in Device : Served(d) => Served(d)' \/ ServerStop]_vars
    BY StepServed, Zenon
  <1> QED
    BY <1>1, Invariance, PTL DEF Spec, OnlineMeansServed

----------------------------------------------------------------------------
\* The initial state of the hub is the initial state of the connection layer.
LEMMA LinkInitially == Init => Hub!LinkInit
  BY SMTT(30) DEF Init, Hub!LinkInit

\* Every step of the hub is a step of the connection layer or leaves it alone.
LEMMA LinkStep == IInv /\ [Next]_vars => [Hub!LinkNext]_Hub!linkVars
  <1> SUFFICES ASSUME IInv, [Next]_vars PROVE Hub!LinkNext \/ UNCHANGED Hub!linkVars
    OBVIOUS
  <1> USE DEF IInv, TypeOK, Step, rowVars, connVars
  <1>1. ASSUME NEW c \in Conn, NEW d \in Device, Dial(c, d) PROVE UNCHANGED Hub!linkVars
    BY <1>1 DEF Dial, Hub!linkVars
  <1>2. ASSUME NEW c \in Conn, Handshake(c) \/ HandshakeFails(c) \/ MarkOnline(c) \/ MarkLost(c)
        PROVE  UNCHANGED Hub!linkVars
    BY <1>2 DEF Handshake, HandshakeFails, Free, MarkOnline, MarkLost, Hub!linkVars
  <1>3. ASSUME NEW c \in Conn, NEW d \in Device, d = dev[c], Register(c) PROVE Hub!Connect(c, d)
    BY <1>3, Zenon DEF Register, DevKnown, Hub!Connect
  <1>4. ASSUME NEW c \in Conn, ReadEnds(c) PROVE Hub!ReadEnds(c)
    BY <1>4, Zenon DEF ReadEnds, Hub!ReadEnds
  <1>5. ASSUME NEW c \in Conn, Unmap(c) PROVE Hub!Unmap(c)
    BY <1>5, ZenonT(60) DEF Unmap, DevKnown, Hub!Unmap
  <1>6. ASSUME NEW c \in Conn, Return(c) PROVE Hub!Return(c)
    BY <1>6, Zenon DEF Return, Free, Hub!Return
  <1>7. CASE SweepClose
    <2>1. sweep.d \in Device
      BY <1>7 DEF SweepClose, SweepKnown
    <2>2. CASE conns[sweep.d] = NoConn
      BY <1>7, <2>1, <2>2 DEF SweepClose, Hub!linkVars
    <2>3. CASE conns[sweep.d] # NoConn
      <3>1. Hub!Evict(sweep.d)
        BY <1>7, <2>1, <2>3 DEF SweepClose, Hub!Evict, Hub!IsOnline
      <3> QED
        BY <2>1, <3>1 DEF Hub!LinkNext
    <2> QED
      BY <2>2, <2>3
  <1>8. CASE ServerStop
    BY <1>8 DEF ServerStop, Hub!ServerStop, Hub!LinkNext
  <1>9. CASE UNCHANGED <<conns, pc, dev>>
    BY <1>9 DEF Hub!linkVars
  <1>10. ASSUME NEW c \in Conn, Serve(c) PROVE Hub!LinkNext \/ UNCHANGED Hub!linkVars
    <2>1. CASE Register(c)
      <3>1. PICK d \in Device : d = dev[c]
        BY <2>1 DEF Register, DevKnown
      <3> QED
        BY <1>3, <2>1, <3>1 DEF Hub!LinkNext
    <2>2. CASE ReadEnds(c) \/ Unmap(c) \/ Return(c)
      BY <1>4, <1>5, <1>6, <2>2 DEF Hub!LinkNext
    <2>3. CASE Heartbeat(c)
      BY <1>9, <2>3 DEF Heartbeat
    <2> QED
      BY <1>2, <1>10, <2>1, <2>2, <2>3 DEF Serve
  <1> QED
    BY <1>1, <1>7, <1>8, <1>9, <1>10, Zenon
       DEF Next, AgentDrops, AgentSeesClose, Sweeper, SweepStart, SweepRead, SweepMarkOffline,
           SweepCancel, SweepMarkLost, SweepEnd, Revoke, Delete, Tick, vars

\* The hub implements the connection layer that RemoteSession is built on.
THEOREM HubImplementsLink == Spec => ImplementsHubLink
  BY LinkInitially, LinkStep, Invariance, PTL DEF Spec, ImplementsHubLink, Hub!LinkSpec
=============================================================================
