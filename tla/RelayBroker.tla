---------------------------- MODULE RelayBroker ----------------------------
(***************************************************************************)
(* The relay (internal/relay/broker.go): binary frames from the agents'    *)
(* connections to the browsers.  Three kinds of goroutine meet here: the   *)
(* read loop of each device's connection, the WebSocket handlers that      *)
(* forward a stream to a browser, and whoever calls Unregister.            *)
(*                                                                         *)
(* Broker.mu protects the table only.  handleInbound sends, and Unregister *)
(* closes the channel, after the unlock, so each is two actions.           *)
(* A frame is the device it came from and its number; the stream's kind is *)
(* compared together with its device and is not kept apart from it.        *)
(***************************************************************************)
EXTENDS Naturals, Sequences

CONSTANTS
    Stream,     \* stream ids; each is registered at most once (uuid.New)
    Device,     \* devices with a connection
    Reader,     \* calls of handleSessionStream / handleTunnelStream
    NoDevice,   \* the id is not in Broker.streams
    NoStream,   \* a goroutine is not busy with a stream
    Capacity,   \* of Stream.toBrowser
    MaxFrames   \* bound: frames a device sends on a stream

ASSUME NoneAssumption == NoDevice \notin Device /\ NoStream \notin Stream
ASSUME CapacityAssumption == Capacity \in Nat \ {0} /\ MaxFrames \in Nat

VARIABLES
    streams,    \* Broker.streams: the device of each registered stream
    owner,      \* the device each stream was registered for, kept when it is unregistered
    toBrowser,  \* the channels: buffered frames, and whether closed
    taken,      \* Unregister calls between the deletion and close(toBrowser)
    loop,       \* each read loop between the lookup and the send
    sent,       \* frames each device has sent on each stream
    reader,     \* the forwarding handlers
    got         \* frames each of them has received

vars == <<streams, owner, toBrowser, taken, loop, sent, reader, got>>

Frame == [from : Device, n : 1..MaxFrames]

TypeOK ==
    /\ streams \in [Stream -> Device \cup {NoDevice}]
    /\ owner \in [Stream -> Device \cup {NoDevice}]
    /\ toBrowser \in [Stream -> [buf : Seq(Frame), closed : BOOLEAN]]
    /\ \A s \in Stream : Len(toBrowser[s].buf) <= Capacity
    /\ taken \in [Stream -> Nat]
    /\ loop \in [Device -> [at : {"read", "send", "panic"}, s : Stream \cup {NoStream}, n : 0..MaxFrames]]
    /\ sent \in [Device -> [Stream -> 0..MaxFrames]]
    /\ reader \in [Reader -> [at : {"none", "reading", "leaving", "done"}, s : Stream \cup {NoStream}]]
    /\ got \in [Reader -> Seq(Frame)]

LoopIdle == [at |-> "read", s |-> NoStream, n |-> 0]

Init ==
    /\ streams = [s \in Stream |-> NoDevice]
    /\ owner = [s \in Stream |-> NoDevice]
    /\ toBrowser = [s \in Stream |-> [buf |-> <<>>, closed |-> FALSE]]
    /\ taken = [s \in Stream |-> 0]
    /\ loop = [d \in Device |-> LoopIdle]
    /\ sent = [d \in Device |-> [s \in Stream |-> 0]]
    /\ reader = [r \in Reader |-> [at |-> "none", s |-> NoStream]]
    /\ got = [r \in Reader |-> <<>>]

----------------------------------------------------------------------------
Register(s, d) ==
    /\ owner[s] = NoDevice
    /\ owner' = [owner EXCEPT ![s] = d]
    /\ streams' = [streams EXCEPT ![s] = d]
    /\ UNCHANGED <<toBrowser, taken, loop, sent, reader, got>>

\* Mutant: the entry stays in the table.
TakeKeepsEntry(s) ==
    /\ taken' = IF streams[s] = NoDevice THEN taken ELSE [taken EXCEPT ![s] = @ + 1]
    /\ UNCHANGED streams

\* Unregister, the critical section: only one caller finds the entry.
Take(s) ==
    /\ taken' = IF streams[s] = NoDevice THEN taken ELSE [taken EXCEPT ![s] = @ + 1]
    /\ streams' = [streams EXCEPT ![s] = NoDevice]

\* A close request, the agent's session_close or its disconnect calls Unregister.
Unregister(s) ==
    /\ streams[s] # NoDevice
    /\ Take(s)
    /\ UNCHANGED <<owner, toBrowser, loop, sent, reader, got>>

\* Mutant: nobody closes the channel.
CloseNothing(s) ==
    /\ taken[s] > 0
    /\ taken' = [taken EXCEPT ![s] = @ - 1]
    /\ UNCHANGED <<streams, owner, toBrowser, loop, sent, reader, got>>

\* Unregister, after the unlock.
CloseChannel(s) ==
    /\ taken[s] > 0
    /\ taken' = [taken EXCEPT ![s] = @ - 1]
    /\ toBrowser' = [toBrowser EXCEPT ![s].closed = TRUE]
    /\ UNCHANGED <<streams, owner, loop, sent, reader, got>>

----------------------------------------------------------------------------
(* handleInbound, called by the read loop for each binary frame *)

\* Mutant: the stream's device is not compared.
InboundLookupAnyDevice(d, s) ==
    /\ loop[d].at = "read" /\ sent[d][s] < MaxFrames
    /\ sent' = [sent EXCEPT ![d][s] = @ + 1]
    /\ loop' = IF streams[s] # NoDevice
               THEN [loop EXCEPT ![d] = [at |-> "send", s |-> s, n |-> sent[d][s] + 1]]
               ELSE loop
    /\ UNCHANGED <<streams, owner, toBrowser, taken, reader, got>>

\* The lookup; frames of an unknown stream or another device's are dropped.
InboundLookup(d, s) ==
    /\ loop[d].at = "read" /\ sent[d][s] < MaxFrames
    /\ sent' = [sent EXCEPT ![d][s] = @ + 1]
    /\ loop' = IF streams[s] = d
               THEN [loop EXCEPT ![d] = [at |-> "send", s |-> s, n |-> sent[d][s] + 1]]
               ELSE loop
    /\ UNCHANGED <<streams, owner, toBrowser, taken, reader, got>>

\* Mutant: a full channel blocks the read loop.
InboundSendBlocks(d) ==
    LET s == loop[d].s
    IN /\ loop[d].at = "send"
       /\ toBrowser[s].closed \/ Len(toBrowser[s].buf) < Capacity
       /\ toBrowser' = IF toBrowser[s].closed THEN toBrowser
                       ELSE [toBrowser EXCEPT ![s].buf = Append(@, [from |-> d, n |-> loop[d].n])]
       /\ loop' = [loop EXCEPT ![d] = IF toBrowser[s].closed THEN [LoopIdle EXCEPT !.at = "panic"] ELSE LoopIdle]
       /\ UNCHANGED <<streams, owner, taken, sent, reader, got>>

\* Mutant: a send that succeeded is repeated.
InboundSendRepeats(d) ==
    LET s == loop[d].s
        full == Len(toBrowser[s].buf) = Capacity
    IN /\ loop[d].at = "send" /\ ~toBrowser[s].closed
       /\ toBrowser' = IF full THEN toBrowser
                       ELSE [toBrowser EXCEPT ![s].buf = Append(@, [from |-> d, n |-> loop[d].n])]
       /\ loop' = IF full THEN [loop EXCEPT ![d] = LoopIdle] ELSE loop
       /\ UNCHANGED <<streams, owner, taken, sent, reader, got>>

\* Mutant: the capacity is compared with the wrong bound.
InboundSendOneMore(d) ==
    LET s == loop[d].s
    IN /\ loop[d].at = "send" /\ ~toBrowser[s].closed
       /\ toBrowser' = IF Len(toBrowser[s].buf) > Capacity THEN toBrowser
                       ELSE [toBrowser EXCEPT ![s].buf = Append(@, [from |-> d, n |-> loop[d].n])]
       /\ loop' = [loop EXCEPT ![d] = LoopIdle]
       /\ UNCHANGED <<streams, owner, taken, sent, reader, got>>

\* The select with a default: a full channel drops the frame, a closed one panics,
\* which ends the ServeAgentWS call without its cleanup.
InboundSend(d) ==
    LET s == loop[d].s
    IN /\ loop[d].at = "send"
       /\ toBrowser' = IF toBrowser[s].closed \/ Len(toBrowser[s].buf) = Capacity THEN toBrowser
                       ELSE [toBrowser EXCEPT ![s].buf = Append(@, [from |-> d, n |-> loop[d].n])]
       /\ loop' = [loop EXCEPT ![d] = IF toBrowser[s].closed THEN [LoopIdle EXCEPT !.at = "panic"] ELSE LoopIdle]
       /\ UNCHANGED <<streams, owner, taken, sent, reader, got>>

----------------------------------------------------------------------------
(* handleSessionStream and handleTunnelStream *)

\* broker.Get succeeds; nothing keeps two browsers off the same stream.
Attach(r, s) ==
    /\ reader[r].at = "none" /\ streams[s] # NoDevice
    /\ reader' = [reader EXCEPT ![r] = [at |-> "reading", s |-> s]]
    /\ UNCHANGED <<streams, owner, toBrowser, taken, loop, sent, got>>

Receive(r) ==
    LET s == reader[r].s
    IN /\ reader[r].at = "reading" /\ toBrowser[s].buf # <<>>
       /\ got' = [got EXCEPT ![r] = Append(@, Head(toBrowser[s].buf))]
       /\ toBrowser' = [toBrowser EXCEPT ![s].buf = Tail(@)]
       /\ UNCHANGED <<streams, owner, taken, loop, sent, reader>>

\* The channel is closed and drained.
SeesClose(r) ==
    LET s == reader[r].s
    IN /\ reader[r].at = "reading" /\ toBrowser[s].buf = <<>> /\ toBrowser[s].closed
       /\ reader' = [reader EXCEPT ![r].at = "leaving"]
       /\ UNCHANGED <<streams, owner, toBrowser, taken, loop, sent, got>>

\* The browser disconnects or the session's deadline passes.
Leave(r) ==
    /\ reader[r].at = "reading"
    /\ reader' = [reader EXCEPT ![r].at = "leaving"]
    /\ UNCHANGED <<streams, owner, toBrowser, taken, loop, sent, got>>

\* Both goroutines of the handler are done: Unregister.
Finish(r) ==
    /\ reader[r].at = "leaving"
    /\ reader' = [reader EXCEPT ![r].at = "done"]
    /\ Take(reader[r].s)
    /\ UNCHANGED <<owner, toBrowser, loop, sent, got>>

----------------------------------------------------------------------------
Next ==
    \/ \E s \in Stream : \/ \E d \in Device : Register(s, d) \/ InboundLookup(d, s)
                         \/ Unregister(s)
                         \/ CloseChannel(s)
                         \/ \E r \in Reader : Attach(r, s)
    \/ \E d \in Device : InboundSend(d)
    \/ \E r \in Reader : Receive(r) \/ SeesClose(r) \/ Leave(r) \/ Finish(r)

\* Goroutines that can run do run; agents, browsers and administrators need not act.
Fairness ==
    /\ \A s \in Stream : WF_vars(CloseChannel(s))
    /\ \A d \in Device : WF_vars(InboundSend(d))
    /\ \A r \in Reader : WF_vars(Receive(r)) /\ WF_vars(SeesClose(r)) /\ WF_vars(Finish(r))

Spec == Init /\ [][Next]_vars
FairSpec == Spec /\ Fairness

----------------------------------------------------------------------------
(* What holds *)

\* A second close of toBrowser would panic: however Unregister calls overlap, a
\* channel is closed once (Unregister deletes the entry under the lock).
ClosedOnce == \A s \in Stream : taken[s] + (IF toBrowser[s].closed THEN 1 ELSE 0) <= 1

\* A browser gets a stream's frames in the order the agent sent them and none twice,
\* and no two browsers get the same one, whatever is dropped on the way.
DeliveredInOrder ==
    \A r \in Reader : \A i, j \in 1..Len(got[r]) :
        /\ i < j => got[r][i].n < got[r][j].n
        /\ \A q \in Reader \ {r} : reader[q].s = reader[r].s => \A k \in 1..Len(got[q]) : got[r][i] # got[q][k]

\* A browser gets only frames of the device its stream was registered for, although the
\* read loops of all devices look up the same table, the send follows the unlock, and the
\* entry may be gone by then.
OneDevicePerStream ==
    \A r \in Reader : \A i \in 1..Len(got[r]) : got[r][i].from = owner[reader[r].s]

\* A slow or absent browser does not block the read loop that all of a device's
\* streams and its heartbeats share.
LoopNeverBlocked == \A d \in Device : []<>(loop[d].at # "send")

\* A browser attached to a stream that somebody else unregisters is told: its
\* handler ends.
ReaderEnds ==
    \A r \in Reader, s \in Stream :
        []<>~(reader[r].s = s /\ reader[r].at \in {"reading", "leaving"} /\ streams[s] = NoDevice)

----------------------------------------------------------------------------
(* What a comment says and the code does not do *)

\* broker.go, Unregister: removes a stream and stops routing frames to it; so no
\* read loop is about to send on a channel that is closed.
StopsRouting == \A d \in Device : loop[d].at = "send" => ~toBrowser[loop[d].s].closed
=============================================================================
