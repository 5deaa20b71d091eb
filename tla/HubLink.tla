------------------------------ MODULE HubLink ------------------------------
(***************************************************************************)
(* What the control hub promises to the code built on it: which connection *)
(* a message to a device is written to, and when the disconnect callback   *)
(* of a connection runs.  A connection is the life of one ServeAgentWS     *)
(* call:                                                                   *)
(*                                                                         *)
(*   idle      not (or not yet) entered in Hub.conns                       *)
(*   live      entered in Hub.conns once; its read loop runs               *)
(*   ended     its read loop has returned                                  *)
(*   unmapped  its own entry, if still there, is deleted; the disconnect   *)
(*             callback is about to run or running                         *)
(*                                                                         *)
(* A connection identity is used again once its call has returned, so the  *)
(* number of reconnects is not bounded, only the number of calls that are  *)
(* in progress at the same time (the size of Conn).                        *)
(*                                                                         *)
(* ControlHub implements this specification (its ImplementsHubLink);       *)
(* RemoteSession is built on it.                                           *)
(***************************************************************************)
CONSTANTS
    Device,     \* devices that are enrolled
    Conn,       \* identities for calls of ServeAgentWS in progress
    NoConn,     \* no entry for the device in Hub.conns
    NoDevice    \* the call has not authenticated a device

ASSUME NoConnAssumption == NoConn \notin Conn
ASSUME NoDeviceAssumption == NoDevice \notin Device

VARIABLES
    conns,      \* Hub.conns: the connection registered for each device
    phase,      \* progress of each ServeAgentWS call
    dev         \* connection.deviceID

linkVars == <<conns, phase, dev>>

Phase == {"idle", "live", "ended", "unmapped"}

LinkTypeOK ==
    /\ conns \in [Device -> Conn \cup {NoConn}]
    /\ phase \in [Conn -> Phase]
    /\ dev \in [Conn -> Device \cup {NoDevice}]

LinkInit ==
    /\ conns = [d \in Device |-> NoConn]
    /\ phase = [c \in Conn |-> "idle"]
    /\ dev = [c \in Conn |-> NoDevice]

----------------------------------------------------------------------------
\* Hub.IsOnline
IsOnline(d) == conns[d] # NoConn

\* The connection is entered for its device; an older entry is replaced.
Connect(c, d) ==
    /\ phase[c] = "idle"
    /\ phase' = [phase EXCEPT ![c] = "live"]
    /\ dev' = [dev EXCEPT ![c] = d]
    /\ conns' = [conns EXCEPT ![d] = c]

\* Hub.closeConn: the sweeper removes whatever entry the device has.
Evict(d) ==
    /\ IsOnline(d)
    /\ conns' = [conns EXCEPT ![d] = NoConn]
    /\ UNCHANGED <<phase, dev>>

\* The read loop returns: the peer closed, or the connection was cancelled.
ReadEnds(c) ==
    /\ phase[c] = "live"
    /\ phase' = [phase EXCEPT ![c] = "ended"]
    /\ UNCHANGED <<conns, dev>>

\* The entry is deleted only if it is still this connection's own.
Unmap(c) ==
    /\ phase[c] = "ended"
    /\ phase' = [phase EXCEPT ![c] = "unmapped"]
    /\ conns' = [d \in Device |-> IF d = dev[c] /\ conns[d] = c THEN NoConn ELSE conns[d]]
    /\ UNCHANGED dev

\* The disconnect callback has run and ServeAgentWS returns.
Return(c) ==
    /\ phase[c] = "unmapped"
    /\ phase' = [phase EXCEPT ![c] = "idle"]
    /\ dev' = [dev EXCEPT ![c] = NoDevice]
    /\ UNCHANGED conns

\* The server process stops; none of the calls reaches its cleanup.
ServerStop ==
    /\ conns' = [d \in Device |-> NoConn]
    /\ phase' = [c \in Conn |-> "idle"]
    /\ dev' = [c \in Conn |-> NoDevice]

LinkNext ==
    \/ \E c \in Conn : \/ \E d \in Device : Connect(c, d)
                       \/ ReadEnds(c)
                       \/ Unmap(c)
                       \/ Return(c)
    \/ \E d \in Device : Evict(d)
    \/ ServerStop

LinkSpec == LinkInit /\ [][LinkNext]_linkVars
=============================================================================
