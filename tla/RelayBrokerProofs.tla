------------------------ MODULE RelayBrokerProofs -------------------------
(***************************************************************************)
(* Channels are closed once, and a browser gets one device's frames, in    *)
(* order and none twice, for any number of streams, devices, browsers and  *)
(* frames and any capacity.                                                *)
(*                                                                         *)
(* A stream that was registered belongs to one device, whose one read loop *)
(* alone appends to its channel; its frames' numbers grow from what the    *)
(* browsers have, over what is buffered, to what the loop is about to send.*)
(*                                                                         *)
(* Tickets.  A redemption leaves the ticket's row in a state from which    *)
(* only IssueTicket could make it ticket_issued again, and the request     *)
(* that issued it is past that step for good, since the ticket has been    *)
(* shown.                                                                  *)
(***************************************************************************)
EXTENDS Integers, RelayBroker, TunnelTicket, TLAPS

Buf(s) == toBrowser[s].buf
Sending(d, s) == loop[d].at = "send" /\ loop[d].s = s

\* A stream id that was not used is nowhere.
FreshUnused ==
    \A s \in Stream : owner[s] = NoDevice =>
        /\ streams[s] = NoDevice /\ taken[s] = 0 /\ ~toBrowser[s].closed /\ Buf(s) = <<>>
        /\ \A d \in Device : ~Sending(d, s)
        /\ \A r \in Reader : reader[r].s # s

\* Goroutines that are busy with a stream know which.
Busy ==
    /\ \A d \in Device : loop[d].at = "send" => loop[d].s \in Stream /\ loop[d].n >= 1
    /\ \A r \in Reader : IF reader[r].at = "none" THEN reader[r].s = NoStream /\ got[r] = <<>>
                         ELSE reader[r].s \in Stream

\* Whoever finds the entry is the first to close the channel.
EntryIsOpen == \A s \in Stream : streams[s] # NoDevice => taken[s] = 0 /\ ~toBrowser[s].closed

\* The stream was registered for device d and everything on it is from d.
Owned(s, d) ==
    /\ owner[s] = d
    /\ streams[s] \in {d, NoDevice}
    /\ \A e \in Device : Sending(e, s) => e = d
    /\ \A i \in 1..Len(Buf(s)) : Buf(s)[i].from = d
    /\ \A r \in Reader : reader[r].s = s => \A i \in 1..Len(got[r]) : got[r][i].from = d
OneOwner == \A s \in Stream : owner[s] # NoDevice => \E d \in Device : Owned(s, d)

\* No frame is numbered beyond those its device has sent.
WithinSent ==
    \A s \in Stream :
        /\ \A d \in Device : Sending(d, s) => loop[d].n <= sent[d][s]
        /\ \A i \in 1..Len(Buf(s)) : Buf(s)[i].n <= sent[Buf(s)[i].from][s]
        /\ \A r \in Reader : reader[r].s = s =>
              \A i \in 1..Len(got[r]) : got[r][i].n <= sent[got[r][i].from][s]

\* What is buffered is in order, after what was received and before what is sent.
BufferOrdered ==
    \A s \in Stream : \A j \in 1..Len(Buf(s)) :
        /\ \A i \in 1..Len(Buf(s)) : i < j => Buf(s)[i].n < Buf(s)[j].n
        /\ \A r \in Reader : reader[r].s = s => \A i \in 1..Len(got[r]) : got[r][i].n < Buf(s)[j].n
        /\ \A d \in Device : Sending(d, s) => Buf(s)[j].n < loop[d].n
ReceivedFirst ==
    \A d \in Device : loop[d].at = "send" =>
        \A r \in Reader : reader[r].s = loop[d].s => \A i \in 1..Len(got[r]) : got[r][i].n < loop[d].n

Table == TypeOK /\ FreshUnused /\ Busy /\ EntryIsOpen /\ ClosedOnce
Frames == OneOwner /\ WithinSent /\ BufferOrdered /\ ReceivedFirst /\ DeliveredInOrder
RelayInv == Table /\ Frames

\* Nothing is registered at first.
LEMMA RelayInitially == Init => RelayInv
  <1> SUFFICES ASSUME Init PROVE RelayInv BY Zenon
  <1> USE NoneAssumption, CapacityAssumption DEF Init, LoopIdle, Buf, Sending
  <1>1. TypeOK BY DEF TypeOK
  <1>2. FreshUnused /\ Busy /\ EntryIsOpen /\ ClosedOnce BY DEF FreshUnused, Busy, EntryIsOpen, ClosedOnce
  <1>3. OneOwner /\ WithinSent /\ BufferOrdered /\ ReceivedFirst
    BY DEF OneOwner, WithinSent, BufferOrdered, ReceivedFirst
  <1>4. DeliveredInOrder BY DEF DeliveredInOrder
  <1> QED BY <1>1, <1>2, <1>3, <1>4, Zenon DEF RelayInv, Table, Frames

\* Frames come from devices and are numbered.
LEMMA FrameTypes ==
    ASSUME TypeOK
    PROVE  /\ \A s \in Stream : \A i \in 1..Len(Buf(s)) : Buf(s)[i].from \in Device /\ Buf(s)[i].n \in Nat
           /\ \A r \in Reader : \A i \in 1..Len(got[r]) : got[r][i].from \in Device /\ got[r][i].n \in Nat
           /\ \A d \in Device : loop[d].n \in Nat
  <1>1. \A s \in Stream : \A i \in 1..Len(Buf(s)) : Buf(s)[i] \in Frame BY DEF TypeOK, Buf
  <1>2. \A r \in Reader : \A i \in 1..Len(got[r]) : got[r][i] \in Frame BY DEF TypeOK
  <1> QED BY <1>1, <1>2, CapacityAssumption DEF Frame, TypeOK

----------------------------------------------------------------------------
(* Steps that move no frame *)

\* If neither the channels' frames nor the loops, readers and counters change, and the
\* table only loses entries, what is said of frames stays.
LEMMA FramesStay ==
    ASSUME Frames, TypeOK, UNCHANGED <<loop, sent, got>>,
           \A s \in Stream : Buf(s)' = Buf(s),
           \A r \in Reader : reader'[r].s = reader[r].s,
           owner' = owner,
           \A s \in Stream : streams'[s] \in {streams[s], NoDevice}
    PROVE  Frames'
  <1> USE DEF Frames, Sending
  <1>1. OneOwner'
    <2> SUFFICES ASSUME NEW s \in Stream, owner[s] # NoDevice PROVE \E d \in Device : Owned(s, d)' BY Zenon DEF OneOwner
    <2>1. s \in Stream BY Zenon DEF TypeOK
    <2>2. PICK d \in Device : Owned(s, d) BY Zenon DEF OneOwner
    <2>3. Owned(s, d)' BY <2>1, <2>2, Zenon DEF Owned
    <2> QED BY <2>3, Zenon
  <1>2. WithinSent' BY DEF WithinSent
  <1>3. BufferOrdered' BY DEF BufferOrdered
  <1>4. ReceivedFirst' BY DEF ReceivedFirst
  <1>5. DeliveredInOrder' BY DEF DeliveredInOrder
  <1> QED BY <1>1, <1>2, <1>3, <1>4, <1>5, Zenon

\* Register: the id is fresh, so the stream starts with nothing but its device.
LEMMA RegisterPreserves ==
    ASSUME RelayInv, NEW s \in Stream, NEW d \in Device, Register(s, d)
    PROVE  RelayInv'
  <1> USE NoneAssumption DEF RelayInv, Table, Register, Buf, Sending
  <1>1. TypeOK' BY Zenon DEF TypeOK
  <1>2. (FreshUnused /\ Busy)' BY DEF TypeOK, FreshUnused, Busy
  <1>3. (EntryIsOpen /\ ClosedOnce)' BY Zenon DEF TypeOK, FreshUnused, EntryIsOpen, ClosedOnce
  <1>4. OneOwner'
    <2> SUFFICES ASSUME NEW q \in Stream, owner'[q] # NoDevice PROVE \E e \in Device : Owned(q, e)' BY Zenon DEF OneOwner
    <2>1. CASE q = s
      <3>1. Owned(s, d)' BY DEF TypeOK, FreshUnused, Owned
      <3> QED BY <2>1, <3>1, Zenon
    <2>2. CASE q # s
      <3>0. owner'[q] = owner[q] BY <2>2 DEF TypeOK
      <3>1. PICK e \in Device : Owned(q, e) BY <3>0, Zenon DEF Frames, OneOwner
      <3>2. Owned(q, e)' BY <2>2, <3>1 DEF TypeOK, Owned
      <3> QED BY <3>2, Zenon
    <2> QED BY <2>1, <2>2, Zenon
  <1>5. (WithinSent /\ BufferOrdered /\ ReceivedFirst /\ DeliveredInOrder)'
    BY DEF Frames, WithinSent, BufferOrdered, ReceivedFirst, DeliveredInOrder
  <1> QED BY <1>1, <1>2, <1>3, <1>4, <1>5, Zenon DEF Frames

\* The critical section of Unregister, alone or at the end of a browser's handler.
LEMMA TakePreserves ==
    ASSUME RelayInv, NEW s \in Stream, Unregister(s) \/ \E r \in Reader : reader[r].s = s /\ Finish(r)
    PROVE  RelayInv'
  <1> USE NoneAssumption DEF RelayInv, Table, Buf, Sending
  <1>1. /\ taken' = IF streams[s] = NoDevice THEN taken ELSE [taken EXCEPT ![s] = @ + 1]
        /\ streams' = [streams EXCEPT ![s] = NoDevice]
        /\ UNCHANGED <<owner, toBrowser, loop, sent, got>>
    BY Zenon DEF Unregister, Finish, Take
  <1>2. /\ reader' \in [Reader -> [at : {"none", "reading", "leaving", "done"}, s : Stream \cup {NoStream}]]
        /\ \A r \in Reader : reader'[r].s = reader[r].s /\ (reader'[r].at = "none" <=> reader[r].at = "none")
    <2>1. CASE Unregister(s) BY <2>1, Zenon DEF Unregister, TypeOK
    <2>2. ASSUME NEW r \in Reader, Finish(r) PROVE <1>2
      <3>1. reader' = [reader EXCEPT ![r].at = "done"] /\ reader[r].at = "leaving" BY <2>2, Zenon DEF Finish
      <3> QED BY <3>1, Zenon DEF TypeOK
    <2> QED BY <2>1, <2>2, Zenon
  <1>3. TypeOK' BY <1>1, <1>2 DEF TypeOK
  <1>4. (FreshUnused /\ Busy)' BY <1>1, <1>2 DEF TypeOK, FreshUnused, Busy
  <1>5. (EntryIsOpen /\ ClosedOnce)' BY <1>1 DEF TypeOK, EntryIsOpen, ClosedOnce
  <1>6. Frames' BY <1>1, <1>2, FramesStay, Zenon DEF TypeOK
  <1> QED BY <1>3, <1>4, <1>5, <1>6, Zenon

\* Unregister after the unlock.
LEMMA ClosePreserves ==
    ASSUME RelayInv, NEW s \in Stream, CloseChannel(s)
    PROVE  RelayInv'
  <1> USE DEF RelayInv, Table, CloseChannel, Buf, Sending
  <1>1. /\ toBrowser' \in [Stream -> [buf : Seq(Frame), closed : BOOLEAN]]
        /\ \A q \in Stream : toBrowser'[q].buf = toBrowser[q].buf
        /\ \A q \in Stream \ {s} : toBrowser'[q] = toBrowser[q]
        /\ taken[s] = 1 /\ ~toBrowser[s].closed
    <2>1. toBrowser' = [toBrowser EXCEPT ![s].closed = TRUE] BY Zenon
    <2>2. taken[s] = 1 /\ ~toBrowser[s].closed BY DEF TypeOK, ClosedOnce
    <2>3. toBrowser \in [Stream -> [buf : Seq(Frame), closed : BOOLEAN]] BY Zenon DEF TypeOK
    <2> QED BY <2>1, <2>2, <2>3, ZenonT(30)
  <1>2. TypeOK' BY <1>1 DEF TypeOK
  <1>3. (FreshUnused /\ Busy)' BY <1>1 DEF TypeOK, FreshUnused, Busy
  <1>4. (EntryIsOpen /\ ClosedOnce)' BY <1>1 DEF TypeOK, EntryIsOpen, ClosedOnce
  <1>5. Frames' BY <1>1, FramesStay, Zenon DEF TypeOK
  <1> QED BY <1>2, <1>3, <1>4, <1>5, Zenon

\* A browser attaches to a registered stream, with nothing received yet.
LEMMA AttachPreserves ==
    ASSUME RelayInv, NEW s \in Stream, NEW r \in Reader, Attach(r, s)
    PROVE  RelayInv'
  <1> USE NoneAssumption DEF RelayInv, Table, Attach, Buf, Sending
  <1>1. /\ owner[s] # NoDevice /\ got[r] = <<>>
        /\ reader' = [reader EXCEPT ![r] = [at |-> "reading", s |-> s]]
    BY Zenon DEF FreshUnused, Busy
  <1>2. /\ reader'[r].s = s /\ reader'[r].at = "reading"
        /\ \A q \in Reader \ {r} : reader'[q] = reader[q]
    BY <1>1 DEF TypeOK
  <1>3. TypeOK' BY <1>1 DEF TypeOK
  <1>4. (FreshUnused /\ Busy)' BY <1>1, <1>2 DEF FreshUnused, Busy
  <1>5. (EntryIsOpen /\ ClosedOnce)' BY Zenon DEF EntryIsOpen, ClosedOnce
  <1>6. OneOwner'
    <2> SUFFICES ASSUME NEW q \in Stream, owner[q] # NoDevice PROVE \E e \in Device : Owned(q, e)' BY Zenon DEF OneOwner
    <2>1. PICK e \in Device : Owned(q, e) BY Zenon DEF Frames, OneOwner
    <2>2. Owned(q, e)' BY <1>1, <1>2, <2>1 DEF Owned
    <2> QED BY <2>2, Zenon
  <1>7. (WithinSent /\ BufferOrdered)' BY <1>1, <1>2 DEF Frames, WithinSent, BufferOrdered
  <1>8. (ReceivedFirst /\ DeliveredInOrder)' BY <1>1, <1>2 DEF Frames, ReceivedFirst, DeliveredInOrder
  <1> QED BY <1>3, <1>4, <1>5, <1>6, <1>7, <1>8, Zenon DEF Frames

\* The end of a browser's loops.
LEMMA LeavePreserves ==
    ASSUME RelayInv, NEW r \in Reader, SeesClose(r) \/ Leave(r)
    PROVE  RelayInv'
  <1> USE DEF RelayInv, Table, Buf, Sending
  <1>1. /\ reader' = [reader EXCEPT ![r].at = "leaving"] /\ reader[r].at = "reading"
        /\ UNCHANGED <<streams, owner, toBrowser, taken, loop, sent, got>>
    BY Zenon DEF SeesClose, Leave
  <1>2. /\ reader' \in [Reader -> [at : {"none", "reading", "leaving", "done"}, s : Stream \cup {NoStream}]]
        /\ \A q \in Reader : reader'[q].s = reader[q].s /\ (reader'[q].at = "none" <=> reader[q].at = "none")
    BY <1>1, Zenon DEF TypeOK
  <1>3. TypeOK' BY <1>1, <1>2, Zenon DEF TypeOK
  <1>4. (FreshUnused /\ Busy)' BY <1>1, <1>2 DEF FreshUnused, Busy
  <1>5. (EntryIsOpen /\ ClosedOnce)' BY <1>1, Zenon DEF EntryIsOpen, ClosedOnce
  <1>6. Frames' BY <1>1, <1>2, FramesStay, Zenon
  <1> QED BY <1>3, <1>4, <1>5, <1>6, Zenon

----------------------------------------------------------------------------
(* Steps that move a frame *)

\* Append puts one element behind the others.
LEMMA AppendFacts ==
    ASSUME NEW S, NEW b \in Seq(S), NEW e \in S
    PROVE  /\ Append(b, e) \in Seq(S) /\ Len(b) \in Nat /\ Len(Append(b, e)) = Len(b) + 1
           /\ Append(b, e)[Len(b) + 1] = e
           /\ \A i \in 1..Len(b) : Append(b, e)[i] = b[i]
  OBVIOUS

\* The lookup in handleInbound: the loop takes up a frame of its own device, with a
\* number above all that the device has sent on the stream.
LEMMA LookupPreserves ==
    ASSUME RelayInv, NEW d \in Device, NEW s \in Stream, InboundLookup(d, s)
    PROVE  RelayInv'
  <1> USE NoneAssumption, CapacityAssumption DEF RelayInv, Table, Buf
  <1> DEFINE n == sent[d][s] + 1
  <1>1. /\ loop[d].at = "read" /\ sent[d][s] < MaxFrames
        /\ sent' = [sent EXCEPT ![d][s] = n]
        /\ loop' = IF streams[s] = d THEN [loop EXCEPT ![d] = [at |-> "send", s |-> s, n |-> n]] ELSE loop
        /\ UNCHANGED <<streams, owner, toBrowser, taken, reader, got>>
    BY Zenon DEF InboundLookup
  <1>2. /\ sent[d][s] \in Nat /\ n \in 0..MaxFrames /\ n > sent[d][s]
        /\ sent'[d][s] = n
        /\ \A e \in Device, q \in Stream : sent'[e][q] \in Nat /\ sent[e][q] \in Nat /\ sent[e][q] <= sent'[e][q]
    BY <1>1 DEF TypeOK
  <1> HIDE DEF n
  <1>3. TypeOK'
    <2>1. sent' \in [Device -> [Stream -> 0..MaxFrames]] BY <1>1, <1>2, Zenon DEF TypeOK
    <2>2. loop' \in [Device -> [at : {"read", "send", "panic"}, s : Stream \cup {NoStream}, n : 0..MaxFrames]]
      BY <1>1, <1>2, Zenon DEF TypeOK
    <2> QED BY <1>1, <2>1, <2>2, Zenon DEF TypeOK
  <1>4. \A e \in Device, q \in Stream : Sending(e, q)' =>
           \/ e # d /\ Sending(e, q) /\ loop'[e] = loop[e]
           \/ e = d /\ q = s /\ streams[s] = d /\ loop'[e].n = n
    BY <1>1, Zenon DEF TypeOK, Sending
  <1>5. streams[s] = d => owner[s] # NoDevice /\ Owned(s, d)
    <2> SUFFICES ASSUME streams[s] = d PROVE owner[s] # NoDevice /\ Owned(s, d) BY Zenon
    <2>1. owner[s] # NoDevice BY DEF FreshUnused
    <2>2. PICK e \in Device : Owned(s, e) BY <2>1, Zenon DEF Frames, OneOwner
    <2> QED BY <2>1, <2>2, Zenon DEF Owned
  <1>6. (FreshUnused /\ EntryIsOpen /\ ClosedOnce)'
    BY <1>1, <1>4, <1>5 DEF FreshUnused, EntryIsOpen, ClosedOnce
  <1>7. Busy'
    <2>1. \A e \in Device : loop'[e].at = "send" => loop'[e].s \in Stream /\ loop'[e].n >= 1
      BY <1>1, <1>2 DEF TypeOK, Busy
    <2> QED BY <1>1, <2>1, Zenon DEF Busy
  <1>8. OneOwner'
    <2> SUFFICES ASSUME NEW q \in Stream, owner[q] # NoDevice PROVE \E e \in Device : Owned(q, e)' BY <1>1, Zenon DEF OneOwner
    <2>1. q \in Stream BY Zenon DEF TypeOK
    <2>2. PICK e \in Device : Owned(q, e) BY Zenon DEF Frames, OneOwner
    <2>3. \A f \in Device : Sending(f, q)' => f = e BY <1>4, <2>1, <2>2, NoneAssumption DEF Owned
    <2>4. Owned(q, e)' BY <1>1, <2>2, <2>3, Zenon DEF Owned
    <2> QED BY <2>4, Zenon
  <1>9. WithinSent'
    <2> SUFFICES ASSUME NEW q \in Stream
                 PROVE  /\ \A e \in Device : Sending(e, q)' => loop'[e].n <= sent'[e][q]
                        /\ \A i \in 1..Len(Buf(q)) : Buf(q)[i].n <= sent'[Buf(q)[i].from][q]
                        /\ \A r \in Reader : reader[r].s = q =>
                              \A i \in 1..Len(got[r]) : got[r][i].n <= sent'[got[r][i].from][q]
      BY <1>1, Zenon DEF WithinSent
    <2>1. ASSUME NEW e \in Device, Sending(e, q)' PROVE loop'[e].n <= sent'[e][q]
      <3>1. CASE e = d BY <1>2, <1>4, <2>1, <3>1
      <3>2. CASE e # d
        <4>1. loop[e].n <= sent[e][q] /\ loop'[e] = loop[e] BY <1>4, <2>1, <3>2, Zenon DEF Frames, WithinSent
        <4> QED BY <1>2, <4>1, FrameTypes
      <3> QED BY <3>1, <3>2, Zenon
    <2>4. ASSUME NEW i \in 1..Len(Buf(q)) PROVE Buf(q)[i].n <= sent'[Buf(q)[i].from][q]
      <3>1. Buf(q)[i].n <= sent[Buf(q)[i].from][q] BY Zenon DEF Frames, WithinSent
      <3>2. Buf(q)[i].from \in Device /\ Buf(q)[i].n \in Nat BY FrameTypes, Zenon
      <3> QED BY <1>2, <3>1, <3>2, SMTT(30)
    <2>5. ASSUME NEW r \in Reader, reader[r].s = q, NEW i \in 1..Len(got[r])
          PROVE  got[r][i].n <= sent'[got[r][i].from][q]
      <3>1. got[r][i].n <= sent[got[r][i].from][q] BY <2>5, Zenon DEF Frames, WithinSent
      <3>2. got[r][i].from \in Device /\ got[r][i].n \in Nat BY FrameTypes, Zenon
      <3> QED BY <1>2, <3>1, <3>2
    <2> QED BY <2>1, <2>4, <2>5, Zenon
  <1>10. streams[s] = d => /\ \A i \in 1..Len(Buf(s)) : Buf(s)[i].n < n
                           /\ \A r \in Reader : reader[r].s = s => \A i \in 1..Len(got[r]) : got[r][i].n < n
    <2> SUFFICES ASSUME streams[s] = d
                 PROVE  /\ \A i \in 1..Len(Buf(s)) : Buf(s)[i].n < n
                        /\ \A r \in Reader : reader[r].s = s => \A i \in 1..Len(got[r]) : got[r][i].n < n
      BY Zenon
    <2>1. ASSUME NEW i \in 1..Len(Buf(s)) PROVE Buf(s)[i].n < n
      <3>1. Buf(s)[i].n <= sent[Buf(s)[i].from][s] BY Zenon DEF Frames, WithinSent
      <3>2. Buf(s)[i].from = d BY <1>5, Zenon DEF Owned
      <3>3. Buf(s)[i].n \in Nat BY FrameTypes, Zenon
      <3> QED BY <1>2, <3>1, <3>2, <3>3 DEF n
    <2>2. ASSUME NEW r \in Reader, reader[r].s = s, NEW i \in 1..Len(got[r]) PROVE got[r][i].n < n
      <3>1. got[r][i].n <= sent[got[r][i].from][s] BY <2>2, Zenon DEF Frames, WithinSent
      <3>2. got[r][i].from = d BY <1>5, <2>2, Zenon DEF Owned
      <3>3. got[r][i].n \in Nat BY FrameTypes, Zenon
      <3> QED BY <1>2, <3>1, <3>2, <3>3 DEF n
    <2> QED BY <2>1, <2>2, Zenon
  <1>11. BufferOrdered' BY <1>1, <1>4, <1>10 DEF Frames, BufferOrdered
  <1>12. ReceivedFirst'
    <2>1. \A e \in Device : loop'[e].at = "send" =>
             \/ loop'[e] = loop[e]
             \/ loop'[e].s = s /\ loop'[e].n = n /\ streams[s] = d
      BY <1>1, Zenon DEF TypeOK
    <2> QED BY <1>1, <1>10, <2>1 DEF Frames, ReceivedFirst
  <1>13. DeliveredInOrder' BY <1>1 DEF Frames, DeliveredInOrder
  <1> QED BY <1>3, <1>6, <1>7, <1>8, <1>9, <1>11, <1>12, <1>13, Zenon DEF Frames

\* The send in handleInbound, when the channel is closed or full: the frame is dropped.
LEMMA DropPreserves ==
    ASSUME RelayInv, NEW d \in Device, InboundSend(d), toBrowser' = toBrowser
    PROVE  RelayInv'
  <1> USE NoneAssumption, CapacityAssumption DEF RelayInv, Table, Buf
  <1>1. /\ UNCHANGED <<streams, owner, taken, sent, reader, got>>
        /\ loop' \in [Device -> [at : {"read", "send", "panic"}, s : Stream \cup {NoStream}, n : 0..MaxFrames]]
        /\ loop'[d].at # "send" /\ \A e \in Device \ {d} : loop'[e] = loop[e]
    <2>1. UNCHANGED <<streams, owner, taken, sent, reader, got>> BY Zenon DEF InboundSend
    <2>2. [LoopIdle EXCEPT !.at = "panic"] = [at |-> "panic", s |-> NoStream, n |-> 0] BY DEF LoopIdle
    <2>3. PICK a \in {"read", "panic"} : loop' = [loop EXCEPT ![d] = [at |-> a, s |-> NoStream, n |-> 0]]
      BY <2>2, Zenon DEF InboundSend, LoopIdle
    <2> QED BY <2>1, <2>3 DEF TypeOK
  <1>2. \A e \in Device : loop'[e].at = "send" => loop'[e] = loop[e] BY <1>1, Zenon
  <1>3. TypeOK' BY <1>1, Zenon DEF TypeOK
  <1>4. (FreshUnused /\ Busy /\ EntryIsOpen /\ ClosedOnce)'
    BY <1>1, <1>2 DEF FreshUnused, Busy, EntryIsOpen, ClosedOnce, Sending
  <1>5. OneOwner'
    <2> SUFFICES ASSUME NEW q \in Stream, owner[q] # NoDevice PROVE \E e \in Device : Owned(q, e)' BY <1>1, Zenon DEF OneOwner
    <2>1. PICK e \in Device : Owned(q, e) BY Zenon DEF Frames, OneOwner
    <2>2. Owned(q, e)' BY <1>1, <1>2, <2>1, Zenon DEF Owned, Sending
    <2> QED BY <2>2, Zenon
  <1>6. (WithinSent /\ BufferOrdered)' BY <1>1, <1>2 DEF Frames, WithinSent, BufferOrdered, Sending
  <1>7. (ReceivedFirst /\ DeliveredInOrder)' BY <1>1, <1>2 DEF Frames, ReceivedFirst, DeliveredInOrder
  <1> QED BY <1>3, <1>4, <1>5, <1>6, <1>7, Zenon DEF Frames

\* The send in handleInbound, when there is room: the frame goes behind all others of
\* its stream.
LEMMA SendPreserves ==
    ASSUME RelayInv, NEW d \in Device, InboundSend(d),
           ~toBrowser[loop[d].s].closed, Len(toBrowser[loop[d].s].buf) # Capacity
    PROVE  RelayInv'
  <1> USE NoneAssumption, CapacityAssumption DEF RelayInv, Table
  <1>0. loop[d].at = "send" /\ loop[d].s \in Stream /\ loop[d].n \in 1..MaxFrames
    BY DEF InboundSend, Busy, TypeOK
  <1>s. PICK s \in Stream : s = loop[d].s BY <1>0, Zenon
  <1>f. PICK f \in Frame : f = [from |-> d, n |-> loop[d].n] BY <1>0, Zenon DEF Frame
  <1>1. /\ loop' = [loop EXCEPT ![d] = LoopIdle]
        /\ toBrowser' = [toBrowser EXCEPT ![s].buf = Append(toBrowser[s].buf, f)]
        /\ UNCHANGED <<streams, owner, taken, sent, reader, got>>
    BY <1>s, <1>f, Zenon DEF InboundSend
  <1>2. /\ loop'[d].at # "send" /\ \A e \in Device \ {d} : loop'[e] = loop[e]
        /\ loop' \in [Device -> [at : {"read", "send", "panic"}, s : Stream \cup {NoStream}, n : 0..MaxFrames]]
    <2>1. LoopIdle \in [at : {"read", "send", "panic"}, s : Stream \cup {NoStream}, n : 0..MaxFrames]
      BY DEF LoopIdle
    <2>2. LoopIdle.at # "send" BY Zenon DEF LoopIdle
    <2> QED BY <1>1, <2>1, <2>2, Zenon DEF TypeOK
  <1>3. /\ Buf(s) \in Seq(Frame) /\ Len(Buf(s)) \in Nat /\ Len(Buf(s)) < Capacity
        /\ Buf(s)' = Append(Buf(s), f)
        /\ \A q \in Stream \ {s} : Buf(q)' = Buf(q)
        /\ \A q \in Stream : toBrowser'[q].closed = toBrowser[q].closed
        /\ toBrowser' \in [Stream -> [buf : Seq(Frame), closed : BOOLEAN]]
    <2>1. Buf(s) \in Seq(Frame) /\ Len(Buf(s)) <= Capacity /\ Len(Buf(s)) # Capacity
      BY <1>s, Zenon DEF TypeOK, Buf
    <2>2. Append(Buf(s), f) \in Seq(Frame) /\ Len(Buf(s)) \in Nat BY <1>1, <2>1, AppendFacts, Zenon
    <2>b. PICK b \in Seq(Frame) : b = Append(Buf(s), f) BY <2>2, Zenon
    <2>3. toBrowser' = [toBrowser EXCEPT ![s].buf = b] BY <1>1, <2>b, Zenon DEF Buf
    <2>4. toBrowser \in [Stream -> [buf : Seq(Frame), closed : BOOLEAN]] BY Zenon DEF TypeOK
    <2>5. /\ toBrowser' \in [Stream -> [buf : Seq(Frame), closed : BOOLEAN]]
          /\ toBrowser'[s].buf = b
          /\ \A q \in Stream \ {s} : toBrowser'[q] = toBrowser[q]
          /\ \A q \in Stream : toBrowser'[q].closed = toBrowser[q].closed
      BY <2>3, <2>4, Zenon
    <2> QED BY <2>1, <2>2, <2>b, <2>5 DEF Buf
  <1>4. /\ Len(Buf(s)') = Len(Buf(s)) + 1 /\ Buf(s)'[Len(Buf(s)) + 1] = f
        /\ \A i \in 1..Len(Buf(s)) : Buf(s)'[i] = Buf(s)[i]
        /\ Buf(s)' \in Seq(Frame)
    BY <1>1, <1>3, AppendFacts
  <1>5. \A q \in Stream : \A i \in 1..Len(Buf(q)') :
           \/ i \in 1..Len(Buf(q)) /\ Buf(q)'[i] = Buf(q)[i]
           \/ q = s /\ i = Len(Buf(s)) + 1 /\ Buf(q)'[i] = f
    <2> SUFFICES ASSUME NEW q \in Stream, NEW i \in 1..Len(Buf(q)')
                 PROVE  \/ i \in 1..Len(Buf(q)) /\ Buf(q)'[i] = Buf(q)[i]
                        \/ q = s /\ i = Len(Buf(s)) + 1 /\ Buf(q)'[i] = f
      BY Zenon
    <2>1. CASE q # s BY <1>3, <2>1, Zenon
    <2>2. CASE q = s /\ i = Len(Buf(s)) + 1 BY <1>4, <2>2, Zenon
    <2>3. CASE q = s /\ i # Len(Buf(s)) + 1
      <3>1. i \in 1..Len(Buf(s)) BY <1>3, <1>4, <2>3
      <3> QED BY <1>4, <2>3, <3>1, Zenon
    <2> QED BY <2>1, <2>2, <2>3, Zenon
  <1>6. \A e \in Device, q \in Stream : Sending(e, q)' => Sending(e, q) /\ e # d /\ loop'[e] = loop[e]
    BY <1>2, Zenon DEF Sending
  <1>7. owner[s] # NoDevice /\ Owned(s, d)
    <2>1. owner[s] # NoDevice BY <1>0, <1>s, Zenon DEF FreshUnused, Sending
    <2>2. PICK e \in Device : Owned(s, e) BY <2>1, Zenon DEF Frames, OneOwner
    <2> QED BY <1>0, <1>s, <2>1, <2>2, Zenon DEF Owned, Sending
  <1>8. TypeOK'
    <2>1. \A q \in Stream : Len(toBrowser'[q].buf) <= Capacity
      <3>1. Len(toBrowser'[s].buf) <= Capacity BY <1>3, <1>4 DEF Buf
      <3>2. \A q \in Stream \ {s} : Len(toBrowser'[q].buf) <= Capacity BY <1>3, Zenon DEF Buf, TypeOK
      <3> QED BY <3>1, <3>2, Zenon
    <2> QED BY <1>1, <1>2, <1>3, <2>1, Zenon DEF TypeOK
  <1>9. (FreshUnused /\ EntryIsOpen /\ ClosedOnce)'
    BY <1>1, <1>3, <1>6, <1>7 DEF FreshUnused, EntryIsOpen, ClosedOnce
  <1>10. Busy' BY <1>1, <1>2, Zenon DEF Busy
  <1>11. OneOwner'
    <2> SUFFICES ASSUME NEW q \in Stream, owner[q] # NoDevice PROVE \E e \in Device : Owned(q, e)' BY <1>1, Zenon DEF OneOwner
    <2>1. q \in Stream BY Zenon DEF TypeOK
    <2>2. PICK e \in Device : Owned(q, e) /\ (q = s => e = d) BY <1>7, Zenon DEF Frames, OneOwner
    <2>3. \A i \in 1..Len(Buf(q)') : Buf(q)'[i].from = e BY <1>f, <1>5, <2>1, <2>2 DEF Owned
    <2>4. Owned(q, e)' BY <1>1, <1>6, <2>1, <2>2, <2>3 DEF Owned
    <2> QED BY <2>4, Zenon
  <1>12. WithinSent'
    <2> SUFFICES ASSUME NEW q \in Stream
                 PROVE  /\ \A e \in Device : Sending(e, q)' => loop'[e].n <= sent[e][q]
                        /\ \A i \in 1..Len(Buf(q)') : Buf(q)'[i].n <= sent[Buf(q)'[i].from][q]
                        /\ \A r \in Reader : reader[r].s = q =>
                              \A i \in 1..Len(got[r]) : got[r][i].n <= sent[got[r][i].from][q]
      BY <1>1, Zenon DEF WithinSent
    <2>1. f.n <= sent[f.from][s] BY <1>0, <1>s, <1>f, Zenon DEF Frames, WithinSent, Sending
    <2>2. \A i \in 1..Len(Buf(q)') : Buf(q)'[i].n <= sent[Buf(q)'[i].from][q]
      BY <1>5, <2>1, Zenon DEF Frames, WithinSent
    <2> QED BY <1>6, <2>2, Zenon DEF Frames, WithinSent
  <1>13. BufferOrdered'
    <2> SUFFICES ASSUME NEW q \in Stream, NEW j \in 1..Len(Buf(q)')
                 PROVE  /\ \A i \in 1..Len(Buf(q)') : i < j => Buf(q)'[i].n < Buf(q)'[j].n
                        /\ \A r \in Reader : reader[r].s = q => \A i \in 1..Len(got[r]) : got[r][i].n < Buf(q)'[j].n
                        /\ \A e \in Device : Sending(e, q)' => Buf(q)'[j].n < loop'[e].n
      BY <1>1, Zenon DEF BufferOrdered
    <2>1. CASE j \in 1..Len(Buf(q)) /\ Buf(q)'[j] = Buf(q)[j]
      <3>1. \A i \in 1..Len(Buf(q)') : i < j => i \in 1..Len(Buf(q)) /\ Buf(q)'[i] = Buf(q)[i]
        <4> SUFFICES ASSUME NEW i \in 1..Len(Buf(q)'), i < j
                     PROVE  i \in 1..Len(Buf(q)) /\ Buf(q)'[i] = Buf(q)[i]
          BY Zenon
        <4>1. ~(q = s /\ i = Len(Buf(s)) + 1) BY <1>3, <2>1
        <4> QED BY <1>5, <4>1, Zenon
      <3> QED BY <1>6, <2>1, <3>1, Zenon DEF Frames, BufferOrdered
    <2>2. CASE q = s /\ j = Len(Buf(s)) + 1 /\ Buf(q)'[j] = f
      <3>1. \A i \in 1..Len(Buf(q)') : i < j => i \in 1..Len(Buf(q)) /\ Buf(q)'[i] = Buf(q)[i]
        <4> SUFFICES ASSUME NEW i \in 1..Len(Buf(q)'), i < j
                     PROVE  i \in 1..Len(Buf(q)) /\ Buf(q)'[i] = Buf(q)[i]
          BY Zenon
        <4>1. i # Len(Buf(s)) + 1 BY <1>3, <2>2
        <4> QED BY <1>5, <2>2, <4>1, Zenon
      <3>2. \A i \in 1..Len(Buf(s)) : Buf(s)[i].n < f.n
        BY <1>0, <1>s, <1>f, Zenon DEF Frames, BufferOrdered, Sending
      <3>3. \A r \in Reader : reader[r].s = s => \A i \in 1..Len(got[r]) : got[r][i].n < f.n
        BY <1>0, <1>s, <1>f, Zenon DEF Frames, ReceivedFirst
      <3>4. \A e \in Device : ~Sending(e, q)' BY <1>6, <1>7, <2>2, Zenon DEF Owned
      <3> QED BY <2>2, <3>1, <3>2, <3>3, <3>4, Zenon
    <2> QED BY <1>5, <2>1, <2>2, Zenon
  <1>14. (ReceivedFirst /\ DeliveredInOrder)' BY <1>1, <1>2 DEF Frames, ReceivedFirst, DeliveredInOrder
  <1> QED BY <1>8, <1>9, <1>10, <1>11, <1>12, <1>13, <1>14, Zenon DEF Frames

\* The rest of a sequence that has a head.
LEMMA TailFacts ==
    ASSUME NEW S, NEW b \in Seq(S), b # <<>>
    PROVE  /\ Head(b) = b[1] /\ Head(b) \in S /\ 1 \in 1..Len(b) /\ Len(b) \in Nat
           /\ Tail(b) \in Seq(S) /\ Len(Tail(b)) = Len(b) - 1
           /\ \A i \in 1..Len(Tail(b)) : i + 1 \in 1..Len(b) /\ Tail(b)[i] = b[i + 1]
  OBVIOUS

\* A browser's handler takes the first frame: it comes after all that were received on
\* the stream, by this browser or another, and before all that remain.
LEMMA ReceivePreserves ==
    ASSUME RelayInv, NEW r \in Reader, Receive(r)
    PROVE  RelayInv'
  <1> USE NoneAssumption, CapacityAssumption DEF RelayInv, Table
  <1>0. reader[r].at = "reading" /\ reader[r].s \in Stream BY Zenon DEF Receive, Busy
  <1>s. PICK s \in Stream : s = reader[r].s BY <1>0, Zenon
  <1>1. Buf(s) \in Seq(Frame) /\ Buf(s) # <<>> BY <1>s, Zenon DEF Receive, TypeOK, Buf
  <1>2. /\ Head(Buf(s)) = Buf(s)[1] /\ Head(Buf(s)) \in Frame /\ 1 \in 1..Len(Buf(s)) /\ Len(Buf(s)) \in Nat
        /\ Tail(Buf(s)) \in Seq(Frame) /\ Len(Tail(Buf(s))) = Len(Buf(s)) - 1
        /\ \A i \in 1..Len(Tail(Buf(s))) : i + 1 \in 1..Len(Buf(s)) /\ Tail(Buf(s))[i] = Buf(s)[i + 1]
    BY <1>1, TailFacts, Zenon
  <1>h. PICK h \in Frame : h = Buf(s)[1] BY <1>2, Zenon
  <1>b. PICK b \in Seq(Frame) : b = Tail(Buf(s)) BY <1>2, Zenon
  <1>3. /\ got' = [got EXCEPT ![r] = Append(got[r], h)]
        /\ toBrowser' = [toBrowser EXCEPT ![s].buf = b]
        /\ UNCHANGED <<streams, owner, taken, loop, sent, reader>>
    BY <1>s, <1>2, <1>h, <1>b, Zenon DEF Receive, Buf
  <1>4. /\ toBrowser' \in [Stream -> [buf : Seq(Frame), closed : BOOLEAN]]
        /\ Buf(s)' = b /\ \A q \in Stream \ {s} : Buf(q)' = Buf(q)
        /\ \A q \in Stream : toBrowser'[q].closed = toBrowser[q].closed
    <2>1. toBrowser \in [Stream -> [buf : Seq(Frame), closed : BOOLEAN]] BY Zenon DEF TypeOK
    <2> QED BY <1>3, <2>1, Zenon DEF Buf
  <1>5. got[r] \in Seq(Frame) /\ got \in [Reader -> Seq(Frame)] BY Zenon DEF TypeOK
  <1>g. PICK g \in Seq(Frame) : g = Append(got[r], h) BY <1>5, AppendFacts, Zenon
  <1>6. /\ Len(got[r]) \in Nat /\ Len(g) = Len(got[r]) + 1 /\ g[Len(got[r]) + 1] = h
        /\ \A i \in 1..Len(got[r]) : g[i] = got[r][i]
    BY <1>5, <1>g, AppendFacts
  <1>7. got' \in [Reader -> Seq(Frame)] /\ got'[r] = g /\ \A q \in Reader \ {r} : got'[q] = got[q]
    BY <1>3, <1>5, <1>g, Zenon
  <1>8. \A q \in Reader : \A i \in 1..Len(got'[q]) :
           \/ i \in 1..Len(got[q]) /\ got'[q][i] = got[q][i]
           \/ q = r /\ i = Len(got[r]) + 1 /\ got'[q][i] = h
    <2> SUFFICES ASSUME NEW q \in Reader, NEW i \in 1..Len(got'[q])
                 PROVE  \/ i \in 1..Len(got[q]) /\ got'[q][i] = got[q][i]
                        \/ q = r /\ i = Len(got[r]) + 1 /\ got'[q][i] = h
      BY Zenon
    <2>1. CASE q # r BY <1>7, <2>1, Zenon
    <2>2. CASE q = r /\ i = Len(got[r]) + 1 BY <1>6, <1>7, <2>2, Zenon
    <2>3. CASE q = r /\ i # Len(got[r]) + 1
      <3>1. i \in 1..Len(got[r]) BY <1>6, <1>7, <2>3
      <3> QED BY <1>6, <1>7, <2>3, <3>1, Zenon
    <2> QED BY <2>1, <2>2, <2>3, Zenon
  <1>9. \A q \in Stream : \A i \in 1..Len(Buf(q)') :
           \/ q # s /\ i \in 1..Len(Buf(q)) /\ Buf(q)'[i] = Buf(q)[i]
           \/ q = s /\ i + 1 \in 1..Len(Buf(s)) /\ Buf(q)'[i] = Buf(s)[i + 1]
    BY <1>2, <1>b, <1>4, Zenon
  <1>10. \A q \in Reader : reader[q].s = s => \A i \in 1..Len(got[q]) : got[q][i].n < h.n
    BY <1>2, <1>h, Zenon DEF Frames, BufferOrdered
  <1>11. TypeOK'
    <2>1. \A q \in Stream : Len(toBrowser'[q].buf) <= Capacity
      <3>1. Len(Buf(s)) <= Capacity BY Zenon DEF TypeOK, Buf
      <3>2. Len(toBrowser'[s].buf) <= Capacity BY <1>2, <1>b, <1>4, <3>1 DEF Buf
      <3>3. \A q \in Stream \ {s} : Len(toBrowser'[q].buf) <= Capacity BY <1>4, Zenon DEF Buf, TypeOK
      <3> QED BY <3>2, <3>3, Zenon
    <2> QED BY <1>3, <1>4, <1>7, <2>1, Zenon DEF TypeOK
  <1>12. owner[s] # NoDevice BY <1>s, Zenon DEF FreshUnused
  <1>13. (FreshUnused /\ EntryIsOpen /\ ClosedOnce)'
    BY <1>3, <1>4, <1>12 DEF FreshUnused, EntryIsOpen, ClosedOnce, Sending
  <1>14. Busy' BY <1>0, <1>3, <1>7, Zenon DEF Busy
  <1>15. OneOwner'
    <2> SUFFICES ASSUME NEW q \in Stream, owner[q] # NoDevice PROVE \E e \in Device : Owned(q, e)' BY <1>3, Zenon DEF OneOwner
    <2>1. q \in Stream BY Zenon DEF TypeOK
    <2>2. PICK e \in Device : Owned(q, e) BY Zenon DEF Frames, OneOwner
    <2>3. \A i \in 1..Len(Buf(q)') : Buf(q)'[i].from = e BY <1>9, <2>1, <2>2, SMTT(30) DEF Owned
    <2>4. q = s => h.from = e BY <1>2, <1>h, <2>2, Zenon DEF Owned
    <2>5. \A p \in Reader : reader[p].s = q => \A i \in 1..Len(got'[p]) : got'[p][i].from = e
      BY <1>s, <1>8, <2>2, <2>4, SMTT(30) DEF Owned
    <2>6. Owned(q, e)' BY <1>3, <2>2, <2>3, <2>5, Zenon DEF Owned, Sending
    <2> QED BY <2>6, Zenon
  <1>16. WithinSent'
    <2> SUFFICES ASSUME NEW q \in Stream
                 PROVE  /\ \A e \in Device : Sending(e, q) => loop[e].n <= sent[e][q]
                        /\ \A i \in 1..Len(Buf(q)') : Buf(q)'[i].n <= sent[Buf(q)'[i].from][q]
                        /\ \A p \in Reader : reader[p].s = q =>
                              \A i \in 1..Len(got'[p]) : got'[p][i].n <= sent[got'[p][i].from][q]
      BY <1>3, Zenon DEF WithinSent, Sending
    <2>1. \A i \in 1..Len(Buf(q)') : Buf(q)'[i].n <= sent[Buf(q)'[i].from][q] BY <1>9, Zenon DEF Frames, WithinSent
    <2>2. h.n <= sent[h.from][s] BY <1>2, <1>h, Zenon DEF Frames, WithinSent
    <2>3. \A p \in Reader : reader[p].s = q => \A i \in 1..Len(got'[p]) : got'[p][i].n <= sent[got'[p][i].from][q]
      BY <1>s, <1>8, <2>2, Zenon DEF Frames, WithinSent
    <2> QED BY <2>1, <2>3, Zenon DEF Frames, WithinSent
  <1>17. BufferOrdered'
    <2> SUFFICES ASSUME NEW q \in Stream, NEW j \in 1..Len(Buf(q)')
                 PROVE  /\ \A i \in 1..Len(Buf(q)') : i < j => Buf(q)'[i].n < Buf(q)'[j].n
                        /\ \A p \in Reader : reader[p].s = q => \A i \in 1..Len(got'[p]) : got'[p][i].n < Buf(q)'[j].n
                        /\ \A e \in Device : Sending(e, q) => Buf(q)'[j].n < loop[e].n
      BY <1>3, Zenon DEF BufferOrdered, Sending
    <2>1. CASE q # s
      <3>1. \A p \in Reader : reader[p].s = q => got'[p] = got[p] BY <1>s, <1>7, <2>1, Zenon
      <3> QED BY <1>4, <2>1, <3>1, Zenon DEF Frames, BufferOrdered
    <2>2. CASE q = s
      <3>1. j + 1 \in 1..Len(Buf(s)) /\ Buf(q)'[j] = Buf(s)[j + 1] BY <1>9, <2>2, Zenon
      <3>2. \A i \in 1..Len(Buf(q)') : i < j => Buf(q)'[i].n < Buf(q)'[j].n
        <4> SUFFICES ASSUME NEW i \in 1..Len(Buf(q)'), i < j PROVE Buf(q)'[i].n < Buf(q)'[j].n BY Zenon
        <4>1. i + 1 \in 1..Len(Buf(s)) /\ Buf(q)'[i] = Buf(s)[i + 1] /\ i + 1 < j + 1 BY <1>9, <2>2, <3>1, SMTT(30)
        <4> QED BY <3>1, <4>1, Zenon DEF Frames, BufferOrdered
      <3>3. h.n < Buf(s)[j + 1].n
        <4>1. 1 < j + 1 BY <3>1
        <4> QED BY <1>2, <1>h, <3>1, <4>1, Zenon DEF Frames, BufferOrdered
      <3>4. \A p \in Reader : reader[p].s = q => \A i \in 1..Len(got'[p]) : got'[p][i].n < Buf(q)'[j].n
        BY <1>8, <2>2, <3>1, <3>3, Zenon DEF Frames, BufferOrdered
      <3> QED BY <2>2, <3>1, <3>2, <3>4, Zenon DEF Frames, BufferOrdered
    <2> QED BY <2>1, <2>2, Zenon
  <1>18. ReceivedFirst'
    <2>1. \A d \in Device : Sending(d, s) => h.n < loop[d].n BY <1>2, <1>h, Zenon DEF Frames, BufferOrdered
    <2> QED BY <1>s, <1>3, <1>8, <2>1, ZenonT(30) DEF Frames, ReceivedFirst, Sending
  <1>19. DeliveredInOrder'
    <2>1. ASSUME NEW p \in Reader, NEW i \in 1..Len(got'[p]), NEW j \in 1..Len(got'[p]), i < j
          PROVE  got'[p][i].n < got'[p][j].n
      <3>1. i \in 1..Len(got[p]) /\ got'[p][i] = got[p][i]
        <4>1. ~(p = r /\ i = Len(got[r]) + 1) BY <1>6, <1>7, <2>1
        <4> QED BY <1>8, <4>1, Zenon
      <3>2. CASE j \in 1..Len(got[p]) /\ got'[p][j] = got[p][j] BY <2>1, <3>1, <3>2, Zenon DEF Frames, DeliveredInOrder
      <3>3. CASE p = r /\ got'[p][j] = h BY <1>s, <1>10, <3>1, <3>3, Zenon
      <3> QED BY <1>8, <3>2, <3>3, Zenon
    <2>2. ASSUME NEW p \in Reader, NEW q \in Reader \ {p}, reader[q].s = reader[p].s,
                 NEW i \in 1..Len(got'[p]), NEW k \in 1..Len(got'[q])
          PROVE  got'[p][i] # got'[q][k]
      <3>1. \A x \in Reader : reader[x].s = s => \A y \in 1..Len(got[x]) : got[x][y] # h
        <4> SUFFICES ASSUME NEW x \in Reader, reader[x].s = s, NEW y \in 1..Len(got[x]), got[x][y] = h PROVE FALSE
          BY Zenon
        <4>1. h.n < h.n BY <1>10, Zenon
        <4>2. h.n \in Nat BY DEF Frame
        <4> QED BY <4>1, <4>2
      <3>2. CASE p = r /\ got'[p][i] = h BY <1>s, <1>8, <2>2, <3>1, <3>2, ZenonT(30)
      <3>3. CASE q = r /\ got'[q][k] = h BY <1>s, <1>8, <2>2, <3>1, <3>3, ZenonT(30)
      <3>4. CASE i \in 1..Len(got[p]) /\ got'[p][i] = got[p][i] /\ k \in 1..Len(got[q]) /\ got'[q][k] = got[q][k]
        BY <2>2, <3>4, Zenon DEF Frames, DeliveredInOrder
      <3>5. \/ i \in 1..Len(got[p]) /\ got'[p][i] = got[p][i]
            \/ p = r /\ got'[p][i] = h
        BY <1>8, Zenon
      <3>6. \/ k \in 1..Len(got[q]) /\ got'[q][k] = got[q][k]
            \/ q = r /\ got'[q][k] = h
        BY <1>8, Zenon
      <3> QED BY <3>2, <3>3, <3>4, <3>5, <3>6, Zenon
    <2>3. \A p \in Reader : \A i, j \in 1..Len(got'[p]) :
             /\ i < j => got'[p][i].n < got'[p][j].n
             /\ \A q \in Reader \ {p} : reader[q].s = reader[p].s =>
                   \A k \in 1..Len(got'[q]) : got'[p][i] # got'[q][k]
      BY <2>1, <2>2, Zenon
    <2>4. reader' = reader BY <1>3, Zenon
    <2> QED BY <2>3, <2>4 DEF DeliveredInOrder
  <1> QED BY <1>11, <1>13, <1>14, <1>15, <1>16, <1>17, <1>18, <1>19, Zenon DEF Frames

----------------------------------------------------------------------------
\* Every reachable state of the relay satisfies the inductive invariant.
THEOREM RelayInvariance == Spec => []RelayInv
  <1>1. RelayInv /\ [Next]_vars => RelayInv'
    <2> SUFFICES ASSUME RelayInv, [Next]_vars PROVE RelayInv' BY Zenon
    <2>1. ASSUME NEW d \in Device, InboundSend(d) PROVE RelayInv'
      <3>1. CASE toBrowser[loop[d].s].closed \/ Len(toBrowser[loop[d].s].buf) = Capacity
        <4>1. toBrowser' = toBrowser BY <2>1, <3>1, Zenon DEF InboundSend
        <4> QED BY <2>1, <4>1, DropPreserves, Zenon
      <3> QED BY <2>1, <3>1, SendPreserves, Zenon
    <2>2. ASSUME NEW r \in Reader, Finish(r) PROVE RelayInv'
      <3>1. reader[r].s \in Stream BY <2>2, Zenon DEF Finish, RelayInv, Table, Busy
      <3> QED BY <2>2, <3>1, TakePreserves, Zenon
    <2>3. CASE UNCHANGED vars
      <3>1. Frames' BY <2>3, FramesStay, Zenon DEF vars, RelayInv, Table, Buf
      <3>2. TypeOK' BY <2>3, Zenon DEF vars, RelayInv, Table, TypeOK
      <3>3. (FreshUnused /\ Busy /\ EntryIsOpen /\ ClosedOnce)'
        BY <2>3, Zenon DEF vars, RelayInv, Table, FreshUnused, Busy, EntryIsOpen, ClosedOnce, Buf, Sending
      <3> QED BY <3>1, <3>2, <3>3, Zenon DEF RelayInv, Table
    <2> QED
      BY <2>1, <2>2, <2>3, RegisterPreserves, TakePreserves, ClosePreserves, AttachPreserves, LookupPreserves,
            ReceivePreserves, LeavePreserves, Zenon DEF Next
  <1> QED BY <1>1, RelayInitially, PTL DEF Spec

\* Unregister: however its calls overlap, no channel is closed a second time, which
\* would panic.
THEOREM ChannelClosedOnce == Spec => []ClosedOnce
  <1>1. RelayInv => ClosedOnce BY Zenon DEF RelayInv, Table
  <1> QED BY <1>1, RelayInvariance, PTL

\* handleInbound to the browsers: frames arrive in order, none twice and none at two
\* browsers, however many are dropped.
THEOREM InOrder == Spec => []DeliveredInOrder
  <1>1. RelayInv => DeliveredInOrder BY Zenon DEF RelayInv, Frames
  <1> QED BY <1>1, RelayInvariance, PTL

\* handleInbound: a browser gets only frames of the device its stream was registered
\* for, also those buffered or about to be sent when the stream is unregistered.
THEOREM OneDevice == Spec => []OneDevicePerStream
  <1>1. RelayInv => OneDevicePerStream
    <2> SUFFICES ASSUME RelayInv, NEW r \in Reader, NEW i \in 1..Len(got[r])
                 PROVE  got[r][i].from = owner[reader[r].s]
      BY Zenon DEF OneDevicePerStream
    <2>1. got[r] # <<>> OBVIOUS
    <2>2. reader[r].s \in Stream /\ owner[reader[r].s] # NoDevice
      BY <2>1, Zenon DEF RelayInv, Table, Busy, FreshUnused
    <2>3. PICK d \in Device : Owned(reader[r].s, d) BY <2>2, Zenon DEF RelayInv, Frames, OneOwner
    <2> QED BY <2>3, Zenon DEF Owned
  <1> QED BY <1>1, RelayInvariance, PTL

----------------------------------------------------------------------------
(* Tunnel tickets *)

\* A redeemed ticket was shown and is not up for redemption.
WonIsSpent ==
    \A h \in Helper : helper[h].won =>
        /\ helper[h].t \in Tunnel
        /\ opening[helper[h].t] = "shown"
        /\ ticket[helper[h].t] \notin {"none", "ticket_issued"}

\* A helper has won from the COMMIT on.
WinsAtCommit ==
    \A h \in Helper : /\ helper[h].at \in {"idle", "locked"} => ~helper[h].won
                      /\ helper[h].at \in Redeeming \ {"locked"} => helper[h].won

\* A locked row is one helper's, and says ticket_issued until that helper writes it.
LockHeld ==
    \A h \in Helper : helper[h].at = "locked" =>
        /\ helper[h].t \in Tunnel /\ opening[helper[h].t] = "shown" /\ ticket[helper[h].t] = "ticket_issued"
        /\ \A k \in Helper : helper[k].at = "locked" /\ helper[k].t = helper[h].t => k = h

TicketInv == TicketTypeOK /\ WonIsSpent /\ WinsAtCommit /\ LockHeld /\ TicketSingleUse

\* Nothing is issued or redeemed at first.
LEMMA TicketInitially == TicketInit => TicketInv
  <1> SUFFICES ASSUME TicketInit PROVE TicketInv BY Zenon
  <1>1. closer \in [Tunnel -> [{"agent", "admin", "lost"} -> {"idle", "checked", "half"}]]
    BY Zenon DEF TicketInit, NoCloser
  <1>2. TicketTypeOK BY <1>1, TunnelAssumption DEF TicketInit, TicketTypeOK
  <1>3. \A h \in Helper : helper[h].at = "idle" /\ ~helper[h].won BY DEF TicketInit
  <1>4. "idle" \notin Redeeming BY DEF Redeeming
  <1> QED BY <1>2, <1>3, <1>4, Zenon DEF TicketInv, WonIsSpent, WinsAtCommit, LockHeld, TicketSingleUse

\* The states of the sessions and of those who close them keep their types.
LEMMA ClosersKeepTypes ==
    ASSUME TicketInv, NEW t \in Tunnel, NEW c \in {"agent", "admin", "lost"}, NEW v \in {"idle", "checked", "half"},
           SetCloser(t, c, v)
    PROVE  closer' \in [Tunnel -> [{"agent", "admin", "lost"} -> {"idle", "checked", "half"}]]
  <1>1. closer \in [Tunnel -> [{"agent", "admin", "lost"} -> {"idle", "checked", "half"}]]
    BY Zenon DEF TicketInv, TicketTypeOK
  <1>2. \A u \in Tunnel : closer'[u] = IF u = t THEN [closer[t] EXCEPT ![c] = v] ELSE closer[u]
    BY <1>1, Zenon DEF SetCloser
  <1>3. \A u \in Tunnel : closer'[u] \in [{"agent", "admin", "lost"} -> {"idle", "checked", "half"}]
    BY <1>1, <1>2
  <1> QED BY <1>1, <1>3, Zenon DEF SetCloser

\* The request that opens the tunnel: it never writes to a ticket that was shown.
LEMMA OpenTunnelPreserves ==
    ASSUME TicketInv, NEW t \in Tunnel, OpenTunnel(t)
    PROVE  TicketInv'
  <1> USE DEF TicketInv
  <1>1. helper' = helper
    BY Zenon DEF OpenTunnel, CreateTunnel, AgentReady, OpenTunnelFails, SetActive, IssueTicket, IssueFails, ShowTicket
  <1>2. opening[t] # "shown"
    BY Zenon DEF OpenTunnel, CreateTunnel, AgentReady, OpenTunnelFails, SetActive, IssueTicket, IssueFails, ShowTicket
  <1>3. /\ \E v \in {"asking", "answered", "activated", "issued", "shown", "failed"} : opening' = [opening EXCEPT ![t] = v]
        /\ ticket' \in {ticket, [ticket EXCEPT ![t] = "ticket_issued"]}
    BY Zenon DEF OpenTunnel, CreateTunnel, AgentReady, OpenTunnelFails, SetActive, IssueTicket, IssueFails, ShowTicket
  <1>s. /\ sessionState' = sessionState \/ \E v \in Open \cup {"failed"} : sessionState' = [sessionState EXCEPT ![t] = v]
        /\ registered' \in {registered, registered \cup {t}}
        /\ UNCHANGED <<stale, closer, restarts>>
    BY Zenon DEF OpenTunnel, CreateTunnel, AgentReady, OpenTunnelFails, SetActive, IssueTicket, IssueFails, ShowTicket, Open
  <1>4. TicketTypeOK'
    <2>1. sessionState' \in [Tunnel -> Open \cup {"none", "failed", "closed", "interrupted"}]
      BY <1>s, Zenon DEF TicketTypeOK
    <2>2. ticket' \in [Tunnel -> {"none", "ticket_issued", "active", "closed", "expired"}] BY <1>3, Zenon DEF TicketTypeOK
    <2>3. opening' \in [Tunnel -> {"idle", "asking", "answered", "activated", "issued", "shown", "failed"}]
      BY <1>3, Zenon DEF TicketTypeOK
    <2> QED BY <1>1, <1>s, <2>1, <2>2, <2>3, Zenon DEF TicketTypeOK
  <1>5. WonIsSpent' BY <1>1, <1>2, <1>3 DEF WonIsSpent, TicketTypeOK
  <1>6. TicketSingleUse' /\ WinsAtCommit' BY <1>1, Zenon DEF TicketSingleUse, WinsAtCommit
  <1>7. LockHeld' BY <1>1, <1>2, <1>3 DEF LockHeld, TicketTypeOK
  <1> QED BY <1>4, <1>5, <1>6, <1>7, Zenon

\* The lock: whoever gets it finds ticket_issued, and no other helper has the row.
LEMMA RedeemPreserves ==
    ASSUME TicketInv, NEW h \in Helper, NEW t \in Tunnel, LockTicket(h, t)
    PROVE  TicketInv'
  <1> USE DEF TicketInv
  <1>1. PICK v \in {"locked", "refused"} :
          /\ helper' = [helper EXCEPT ![h] = [at |-> v, t |-> t, won |-> FALSE]]
          /\ v = "locked" => ticket[t] = "ticket_issued"
    BY Zenon DEF LockTicket
  <1>2. /\ opening[t] = "shown" /\ \A k \in Helper : ~(helper[k].at = "locked" /\ helper[k].t = t)
        /\ UNCHANGED <<sessionState, ticket, stale, registered, opening, closer, restarts>>
    BY Zenon DEF LockTicket
  <1>3. /\ helper'[h].at = v /\ helper'[h].t = t /\ helper'[h].won = FALSE
        /\ \A k \in Helper \ {h} : helper'[k] = helper[k]
    BY <1>1 DEF TicketTypeOK
  <1>4. TicketTypeOK'
    <2>1. helper' \in [Helper -> [at : Redeeming \cup {"idle", "refused", "left", "killed"},
                                  t : Tunnel \cup {NoTunnel}, won : BOOLEAN]]
      BY <1>1, Zenon DEF TicketTypeOK, Redeeming
    <2> QED BY <1>2, <2>1, ZenonT(30) DEF TicketTypeOK
  <1>5. WonIsSpent' /\ TicketSingleUse' BY <1>2, <1>3, Zenon DEF WonIsSpent, TicketSingleUse
  <1>6. WinsAtCommit'
    <2>1. "refused" \notin Redeeming BY DEF Redeeming
    <2>2. v \in {"locked", "refused"} /\ ~helper'[h].won BY <1>1, <1>3, Zenon
    <2>3. ASSUME NEW k \in Helper
          PROVE  /\ helper'[k].at \in {"idle", "locked"} => ~helper'[k].won
                 /\ helper'[k].at \in Redeeming \ {"locked"} => helper'[k].won
      <3>1. CASE k = h BY <1>3, <2>1, <2>2, <3>1, Zenon
      <3>2. CASE k # h BY <1>3, <3>2, Zenon DEF WinsAtCommit
      <3> QED BY <3>1, <3>2, Zenon
    <2> QED BY <2>3, Zenon DEF WinsAtCommit
  <1>7. LockHeld'
    <2> SUFFICES ASSUME NEW q \in Helper, helper'[q].at = "locked"
                 PROVE  /\ helper'[q].t \in Tunnel /\ opening[helper'[q].t] = "shown" /\ ticket[helper'[q].t] = "ticket_issued"
                        /\ \A k \in Helper : helper'[k].at = "locked" /\ helper'[k].t = helper'[q].t => k = q
      BY <1>2, Zenon DEF LockHeld
    <2>1. CASE q = h
      <3>1. v = "locked" => ticket[t] = "ticket_issued" BY <1>1, Zenon
      <3> QED BY <1>2, <1>3, <2>1, <3>1, Zenon
    <2>2. CASE q # h
      <3>1. helper'[q] = helper[q] /\ helper[q].at = "locked" BY <1>3, <2>2, Zenon
      <3>2. helper[q].t # t BY <1>2, <3>1, Zenon
      <3> QED BY <1>3, <3>1, <3>2, Zenon DEF LockHeld
    <2> QED BY <2>1, <2>2, Zenon
  <1> QED BY <1>4, <1>5, <1>6, <1>7, Zenon

\* The redemption: the row still says ticket_issued, so nobody has redeemed it, and
\* nobody else is about to.
LEMMA ConsumePreserves ==
    ASSUME TicketInv, NEW h \in Helper, ConsumeTicket(h)
    PROVE  TicketInv'
  <1> USE DEF TicketInv
  <1>1. PICK t : t = helper[h].t BY Zenon
  <1>2. /\ t \in Tunnel /\ opening[t] = "shown" /\ ticket[t] = "ticket_issued"
        /\ \A k \in Helper : helper[k].at = "locked" /\ helper[k].t = t => k = h
    BY <1>1, Zenon DEF ConsumeTicket, LockHeld
  <1>3. /\ helper' = [helper EXCEPT ![h] = [at |-> "consumed", t |-> t, won |-> TRUE]]
        /\ ticket' = [ticket EXCEPT ![t] = "active"]
        /\ UNCHANGED <<sessionState, stale, registered, opening, closer, restarts>>
    BY <1>1, Zenon DEF ConsumeTicket
  <1>4. /\ helper'[h].at = "consumed" /\ helper'[h].t = t /\ helper'[h].won = TRUE
        /\ \A k \in Helper \ {h} : helper'[k] = helper[k]
    BY <1>3 DEF TicketTypeOK
  <1>5. ticket'[t] = "active" /\ \A u \in Tunnel \ {t} : ticket'[u] = ticket[u] BY <1>2, <1>3 DEF TicketTypeOK
  <1>6. TicketTypeOK'
    <2>1. helper' \in [Helper -> [at : Redeeming \cup {"idle", "refused", "left", "killed"},
                                  t : Tunnel \cup {NoTunnel}, won : BOOLEAN]]
      BY <1>2, <1>3, Zenon DEF TicketTypeOK, Redeeming
    <2>2. ticket' \in [Tunnel -> {"none", "ticket_issued", "active", "closed", "expired"}]
      BY <1>3, Zenon DEF TicketTypeOK
    <2> QED BY <1>3, <2>1, <2>2, ZenonT(30) DEF TicketTypeOK
  <1>7. \A k \in Helper : helper[k].won => helper[k].t # t BY <1>2, Zenon DEF WonIsSpent
  <1>8. WonIsSpent' BY <1>2, <1>3, <1>4, <1>5, <1>7 DEF WonIsSpent
  <1>9. TicketSingleUse' BY <1>4, <1>7, Zenon DEF TicketSingleUse
  <1>10. WinsAtCommit' BY <1>4, Zenon DEF WinsAtCommit
  <1>11. LockHeld' BY <1>2, <1>3, <1>4, <1>5 DEF LockHeld
  <1> QED BY <1>6, <1>8, <1>9, <1>10, <1>11, Zenon

\* The rest of handleTunnelStream: the ticket goes from active to closed at most.
LEMMA StreamPreserves ==
    ASSUME TicketInv, NEW h \in Helper,
           \/ ConsumeFails(h) \/ CheckSession(h) \/ GetStream(h) \/ AcceptHelper(h) \/ HelperEnds(h)
           \/ RecordTunnel(h) \/ RereadSession(h) \/ CloseTunnelSession(h)
    PROVE  TicketInv'
  <1> USE DEF TicketInv
  <1>1. PICK v \in (Redeeming \ {"locked"}) \cup {"refused", "left"} : helper' = [helper EXCEPT ![h].at = v]
    BY Zenon DEF ConsumeFails, CheckSession, GetStream, AcceptHelper, HelperEnds, RecordTunnel, RereadSession, CloseTunnelSession,
       At, Redeeming
  <1>w. helper[h].won \/ v = "refused"
    <2>1. CASE ConsumeFails(h) BY <1>1, <2>1 DEF ConsumeFails, At, TicketTypeOK
    <2>2. CASE ~ConsumeFails(h)
      BY <2>2, Zenon DEF CheckSession, GetStream, AcceptHelper, HelperEnds, RecordTunnel, RereadSession, CloseTunnelSession,
         Redeeming, WinsAtCommit
    <2> QED BY <2>1, <2>2, Zenon
  <1>2. /\ opening' = opening
        /\ ticket' = ticket \/ (helper[h].won /\ ticket' = [ticket EXCEPT ![helper[h].t] = "closed"])
    BY Zenon DEF ConsumeFails, WinsAtCommit, Redeeming, CheckSession, GetStream, AcceptHelper, HelperEnds, RecordTunnel, RereadSession, CloseTunnelSession
  <1>3. \A k \in Helper : helper'[k].t = helper[k].t /\ helper'[k].won = helper[k].won
    BY <1>1, SMTT(30) DEF TicketTypeOK
  <1>4. TicketTypeOK'
    <2>1. helper' \in [Helper -> [at : Redeeming \cup {"idle", "refused", "left", "killed"},
                                  t : Tunnel \cup {NoTunnel}, won : BOOLEAN]]
      BY <1>1, ZenonT(30) DEF TicketTypeOK
    <2>2. /\ sessionState' \in {sessionState, [sessionState EXCEPT ![helper[h].t] = "closed"]}
          /\ registered' \in SUBSET registered /\ UNCHANGED <<stale, closer, restarts>>
      BY Zenon DEF ConsumeFails, CheckSession, GetStream, AcceptHelper, HelperEnds, RecordTunnel, RereadSession, CloseTunnelSession
    <2>3. sessionState' \in [Tunnel -> Open \cup {"none", "failed", "closed", "interrupted"}]
      BY <2>2, Zenon DEF TicketTypeOK
    <2>4. ticket' \in [Tunnel -> {"none", "ticket_issued", "active", "closed", "expired"}] BY <1>2, Zenon DEF TicketTypeOK
    <2> QED BY <1>2, <2>1, <2>2, <2>3, <2>4, Zenon DEF TicketTypeOK
  <1>5. WonIsSpent'
    <2> SUFFICES ASSUME NEW k \in Helper, helper[k].won
                 PROVE  /\ helper[k].t \in Tunnel /\ opening[helper[k].t] = "shown"
                        /\ ticket'[helper[k].t] \notin {"none", "ticket_issued"}
      BY <1>2, <1>3, Zenon DEF WonIsSpent
    <2>1. /\ helper[k].t \in Tunnel /\ opening[helper[k].t] = "shown"
          /\ ticket[helper[k].t] \notin {"none", "ticket_issued"}
      BY Zenon DEF WonIsSpent
    <2>2. ticket'[helper[k].t] \in {ticket[helper[k].t], "closed"} BY <1>2, <2>1 DEF TicketTypeOK
    <2> QED BY <2>1, <2>2, Zenon
  <1>6. TicketSingleUse' BY <1>3, Zenon DEF TicketSingleUse
  <1>7. helper'[h].at = v /\ \A k \in Helper \ {h} : helper'[k] = helper[k] BY <1>1 DEF TicketTypeOK
  <1>8. WinsAtCommit'
    <2>1. {"refused", "left", "idle"} \cap Redeeming = {} BY DEF Redeeming
    <2> QED BY <1>3, <1>7, <1>w, <2>1, Zenon DEF WinsAtCommit
  <1>9. LockHeld'
    <2>1. \A k \in Helper : helper'[k].at = "locked" => k # h /\ helper'[k] = helper[k]
      BY <1>7, Zenon
    <2>2. \A k \in Helper : helper[k].at = "locked" => ticket'[helper[k].t] = ticket[helper[k].t]
      BY <1>2 DEF LockHeld, WonIsSpent, TicketTypeOK
    <2>3. opening' = opening BY <1>2, Zenon
    <2>4. \A k \in Helper : helper'[k].at = "locked" =>
            /\ helper[k].at = "locked" /\ helper'[k].t = helper[k].t
            /\ ticket'[helper[k].t] = ticket[helper[k].t]
      BY <2>1, <2>2, Zenon
    <2> SUFFICES ASSUME NEW q \in Helper, helper'[q].at = "locked"
                 PROVE  /\ helper'[q].t \in Tunnel /\ opening'[helper'[q].t] = "shown" /\ ticket'[helper'[q].t] = "ticket_issued"
                        /\ \A k \in Helper : helper'[k].at = "locked" /\ helper'[k].t = helper'[q].t => k = q
      BY Zenon DEF LockHeld
    <2>5. /\ helper[q].t \in Tunnel /\ opening[helper[q].t] = "shown" /\ ticket[helper[q].t] = "ticket_issued"
          /\ \A k \in Helper : helper[k].at = "locked" /\ helper[k].t = helper[q].t => k = q
      BY <2>4, Zenon DEF LockHeld
    <2> QED BY <2>3, <2>4, <2>5, Zenon
  <1> QED BY <1>4, <1>5, <1>6, <1>8, <1>9, Zenon

\* The other ways a tunnel ends, and the passing of time, leave tickets alone.
LEMMA EndPreserves ==
    ASSUME TicketInv, NEW t \in Tunnel,
           \/ TicketExpires(t) \/ AgentCloses(t) \/ AdminCloses(t) \/ ConnectionLost(t)
           \/ \E c \in {"agent", "admin"} : CloseRequested(t, c)
    PROVE  TicketInv'
  <1>1. UNCHANGED <<ticket, opening, helper>>
    BY Zenon DEF TicketExpires, AgentCloses, AdminCloses, ConnectionLost, CloseRequested
  <1>2. closer' \in [Tunnel -> [{"agent", "admin", "lost"} -> {"idle", "checked", "half"}]]
    <2>1. CASE TicketExpires(t) BY <2>1, Zenon DEF TicketExpires, TicketInv, TicketTypeOK
    <2>2. CASE ~TicketExpires(t)
      <3>1. \E c \in {"agent", "admin", "lost"}, v \in {"idle", "checked", "half"} : SetCloser(t, c, v)
        BY <2>2, ZenonT(30) DEF AgentCloses, AdminCloses, ConnectionLost, CloseRequested
      <3> QED BY <3>1, ClosersKeepTypes, Zenon
    <2> QED BY <2>1, <2>2, Zenon
  <1>3. /\ sessionState' = sessionState \/ \E v \in {"closed", "interrupted"} : sessionState' = [sessionState EXCEPT ![t] = v]
        /\ registered' \in SUBSET registered /\ stale' \in {stale, stale \cup {t}} /\ restarts' = restarts
    BY Zenon DEF TicketExpires, AgentCloses, AdminCloses, ConnectionLost, CloseRequested
  <1>4. sessionState' \in [Tunnel -> Open \cup {"none", "failed", "closed", "interrupted"}]
    BY <1>3, Zenon DEF TicketInv, TicketTypeOK
  <1>5. TicketTypeOK' BY <1>1, <1>2, <1>3, <1>4, Zenon DEF TicketInv, TicketTypeOK
  <1> QED BY <1>1, <1>5, ZenonT(30) DEF TicketInv, WonIsSpent, WinsAtCommit, LockHeld, TicketSingleUse

\* The restart expires what is outstanding; what is redeemed stays redeemed.
LEMMA RestartPreserves ==
    ASSUME TicketInv, RestartTunnels
    PROVE  TicketInv'
  <1> USE DEF TicketInv, RestartTunnels
  <1>1. \A k \in Helper : helper'[k].t = helper[k].t /\ helper'[k].won = helper[k].won BY DEF TicketTypeOK
  <1>2. TicketTypeOK'
    <2>1. \A k \in Helper : helper'[k] \in [at : Redeeming \cup {"idle", "refused", "left", "killed"},
                                            t : Tunnel \cup {NoTunnel}, won : BOOLEAN]
      BY DEF TicketTypeOK
    <2>2. sessionState' \in [Tunnel -> Open \cup {"none", "failed", "closed", "interrupted"}] BY Zenon DEF TicketTypeOK
    <2>3. ticket' \in [Tunnel -> {"none", "ticket_issued", "active", "closed", "expired"}] BY Zenon DEF TicketTypeOK
    <2>4. opening' \in [Tunnel -> {"idle", "asking", "answered", "activated", "issued", "shown", "failed"}]
      BY Zenon DEF TicketTypeOK
    <2>5. closer' \in [Tunnel -> [{"agent", "admin", "lost"} -> {"idle", "checked", "half"}]] BY Zenon DEF NoCloser
    <2>6. restarts' \in 0..MaxTunnelRestarts BY TunnelAssumption DEF TicketTypeOK
    <2> QED BY <2>1, <2>2, <2>3, <2>4, <2>5, <2>6, Zenon DEF TicketTypeOK
  <1>3. WonIsSpent' BY <1>1 DEF WonIsSpent, TicketTypeOK
  <1>4. TicketSingleUse' BY <1>1 DEF TicketSingleUse
  <1>5. \A k \in Helper : helper'[k].at \notin Redeeming /\ (helper'[k].at = "idle" => helper[k].at = "idle")
    BY DEF TicketTypeOK, Redeeming
  <1>6. WinsAtCommit' /\ LockHeld'
    <2>1. "locked" \in Redeeming BY DEF Redeeming
    <2> QED BY <1>1, <1>5, <2>1, Zenon DEF WinsAtCommit, LockHeld
  <1> QED BY <1>2, <1>3, <1>4, <1>6, Zenon

\* Every reachable state of the tickets satisfies the inductive invariant.
LEMMA TicketInvariant == TicketSpec => []TicketInv
  <1>1. TicketInv /\ [TicketNext]_ticketVars => TicketInv'
    <2> SUFFICES ASSUME TicketInv, [TicketNext]_ticketVars PROVE TicketInv' BY Zenon
    <2>1. ASSUME NEW t \in Tunnel, OpenTunnel(t) PROVE TicketInv' BY <2>1, OpenTunnelPreserves, Zenon
    <2>2. ASSUME NEW t \in Tunnel,
                 \/ TicketExpires(t) \/ AgentCloses(t) \/ AdminCloses(t) \/ ConnectionLost(t)
                 \/ \E c \in {"agent", "admin"} : CloseRequested(t, c)
          PROVE  TicketInv'
      BY <2>2, EndPreserves, Zenon
    <2>3. ASSUME NEW h \in Helper, TunnelStream(h) PROVE TicketInv'
      BY <2>3, RedeemPreserves, ConsumePreserves, StreamPreserves, Zenon DEF TunnelStream
    <2>4. CASE UNCHANGED ticketVars
      <3>1. (TicketTypeOK /\ WonIsSpent)' BY <2>4, Zenon DEF ticketVars, TicketInv, TicketTypeOK, WonIsSpent
      <3>2. (WinsAtCommit /\ LockHeld /\ TicketSingleUse)'
        BY <2>4, Zenon DEF ticketVars, TicketInv, WinsAtCommit, LockHeld, TicketSingleUse
      <3> QED BY <3>1, <3>2, Zenon DEF TicketInv
    <2> QED BY <2>1, <2>2, <2>3, <2>4, RestartPreserves, Zenon DEF TicketNext
  <1> QED BY <1>1, TicketInitially, PTL DEF TicketSpec

\* docs/RELAY.md 4, ConsumeTicket: however many helpers present a ticket, and across
\* restarts, it is redeemed at most once.
THEOREM RedeemedOnce == TicketSpec => []TicketSingleUse
  <1>1. TicketInv => TicketSingleUse BY Zenon DEF TicketInv
  <1> QED BY <1>1, TicketInvariant, PTL

\* What a helper won stays its own: apart from ConsumeTicket no step changes who has won
\* which ticket.
Kept(k) == helper'[k].won = helper[k].won /\ (helper[k].won => helper'[k].t = helper[k].t)

LEMMA OnlyConsumeWins ==
    ASSUME TicketInv, TicketNext
    PROVE  (\E h \in Helper : ConsumeTicket(h)) \/ \A k \in Helper : Kept(k)
  <1>1. CASE helper' = helper BY <1>1, Zenon DEF Kept
  <1>2. ASSUME NEW h \in Helper,
               \/ ConsumeFails(h) \/ CheckSession(h) \/ GetStream(h) \/ AcceptHelper(h) \/ HelperEnds(h)
               \/ RecordTunnel(h) \/ RereadSession(h) \/ CloseTunnelSession(h)
        PROVE  \A k \in Helper : Kept(k)
    <2>1. PICK v \in Redeeming \cup {"refused", "left"} : helper' = [helper EXCEPT ![h].at = v]
      BY <1>2, Zenon DEF ConsumeFails, CheckSession, GetStream, AcceptHelper, HelperEnds, RecordTunnel, RereadSession,
         CloseTunnelSession, At, Redeeming
    <2> QED BY <2>1 DEF TicketInv, TicketTypeOK, Redeeming, Kept
  <1>3. CASE RestartTunnels
    BY <1>3 DEF RestartTunnels, TicketInv, TicketTypeOK, Kept
  <1>4. ASSUME NEW t \in Tunnel,
               \/ OpenTunnel(t) \/ TicketExpires(t) \/ AgentCloses(t) \/ AdminCloses(t) \/ ConnectionLost(t)
               \/ \E c \in {"agent", "admin"} : CloseRequested(t, c)
        PROVE  helper' = helper
    BY <1>4, Zenon DEF OpenTunnel, CreateTunnel, AgentReady, OpenTunnelFails, SetActive, IssueTicket, IssueFails, ShowTicket,
       TicketExpires, AgentCloses, AdminCloses, ConnectionLost, CloseRequested
  <1>5. ASSUME NEW h \in Helper, NEW t \in Tunnel, LockTicket(h, t) PROVE \A k \in Helper : Kept(k)
    <2>1. helper'[h].won = FALSE /\ \A k \in Helper \ {h} : helper'[k] = helper[k]
      BY <1>5 DEF LockTicket, TicketInv, TicketTypeOK
    <2>2. ~helper[h].won BY <1>5, Zenon DEF LockTicket, TicketInv, WinsAtCommit
    <2>3. helper[h].won = FALSE BY <2>2 DEF TicketInv, TicketTypeOK
    <2>4. Kept(h) BY <2>1, <2>3, Zenon DEF Kept
    <2>5. \A k \in Helper \ {h} : Kept(k) BY <2>1, Zenon DEF Kept
    <2> QED BY <2>4, <2>5, Zenon
  <1> QED BY <1>1, <1>2, <1>3, <1>4, <1>5, Zenon DEF TicketNext, TunnelStream

\* ConsumeTicket is a use of its ticket.
LEMMA ConsumeUses ==
    ASSUME TicketInv, NEW h \in Helper, ConsumeTicket(h)
    PROVE  TicketUse!Next
  <1>1. PICK t : t = helper[h].t BY Zenon
  <1>2. /\ TicketTypeOK /\ WonIsSpent /\ ~helper[h].won /\ t \in Tunnel /\ ticket[t] = "ticket_issued"
    BY <1>1, Zenon DEF TicketInv, ConsumeTicket, LockHeld, WinsAtCommit
  <1>3. /\ helper'[h].t = t /\ helper'[h].won = TRUE
        /\ \A k \in Helper \ {h} : helper'[k] = helper[k]
    BY <1>1, <1>2 DEF ConsumeTicket, TicketTypeOK
  <1>4. SpentTickets[t] = {} BY <1>2 DEF SpentTickets, WonIsSpent
  <1>5. SpentTickets' = [SpentTickets EXCEPT ![t] = {h}]
    <2>1. \A k \in Helper : ~(helper[k].won /\ helper[k].t = t) BY <1>2, <1>4, Zenon DEF SpentTickets
    <2>2. SpentTickets'[t] = {h} BY <1>2, <1>3, <2>1, Zenon DEF SpentTickets
    <2>3. ASSUME NEW s \in Tunnel \ {t} PROVE SpentTickets'[s] = SpentTickets[s]
      BY <1>2, <1>3 DEF SpentTickets
    <2>4. /\ SpentTickets' = [s \in Tunnel |-> SpentTickets'[s]]
          /\ DOMAIN SpentTickets = Tunnel
      BY Zenon DEF SpentTickets
    <2> QED BY <2>2, <2>3, <2>4, Zenon
  <1> QED BY <1>2, <1>4, <1>5, Zenon DEF TicketUse!Next, TicketUse!Use

\* docs/STATE_MACHINES.md 5: a ticket goes from ISSUED to USED atomically, at most once
\* and for good, for any tunnels, helpers and restarts.
THEOREM TicketsAreSingleUse == TicketSpec => TicketUsedOnce
  <1>1. TicketInit => TicketUse!Init BY DEF TicketInit, TicketUse!Init, SpentTickets
  <1>2. TicketInv /\ [TicketNext]_ticketVars => [TicketUse!Next]_SpentTickets
    <2> SUFFICES ASSUME TicketInv, [TicketNext]_ticketVars PROVE [TicketUse!Next]_SpentTickets BY Zenon
    <2>1. CASE \A k \in Helper : Kept(k)
      <3>1. SpentTickets' = SpentTickets BY <2>1, Zenon DEF Kept, SpentTickets
      <3> QED BY <3>1, Zenon
    <2>2. CASE UNCHANGED ticketVars
      <3>1. SpentTickets' = SpentTickets BY <2>2, Zenon DEF ticketVars, SpentTickets
      <3> QED BY <3>1, Zenon
    <2> QED BY <2>1, <2>2, OnlyConsumeWins, ConsumeUses, Zenon
  <1> QED BY <1>1, <1>2, TicketInvariant, PTL DEF TicketSpec, TicketUsedOnce, TicketUse!Spec
=============================================================================
