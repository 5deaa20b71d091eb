--------------------------- MODULE UploadProofs ----------------------------
(***************************************************************************)
(* A confirmed upload that had its path to itself is whole, for any number *)
(* of requests and chunks and any loss of the connection.                  *)
(*                                                                         *)
(* While no other request for the path was started, the temporary file     *)
(* holds what the agent has read and the connection the rest of what was   *)
(* sent (SoleWriter), so what is renamed at the end mark is whole          *)
(* (SoleSuccess).  That needs, of all uploads: an open is the first thing  *)
(* the agent hears of a request, a writer's offset is below the chunks on  *)
(* their way to it, and a lost connection leaves neither.                  *)
(***************************************************************************)
EXTENDS Integers, FileUpload, TLAPS

\* A frame sent comes behind those that are on the wire.
LEMMA WireAppend ==
    ASSUME NEW S, NEW q \in Seq(S), NEW e \in S
    PROVE  /\ Append(q, e) \in Seq(S) /\ Len(q) \in Nat /\ Len(Append(q, e)) = Len(q) + 1
           /\ Append(q, e)[Len(q) + 1] = e
           /\ \A i \in 1..Len(q) : Append(q, e)[i] = q[i]
  OBVIOUS

\* A frame read leaves the rest of the wire, each one place further up.
LEMMA WireTail ==
    ASSUME NEW S, NEW q \in Seq(S), q # <<>>
    PROVE  /\ Head(q) = q[1] /\ Head(q) \in S /\ 1 \in 1..Len(q) /\ Len(q) \in Nat
           /\ Tail(q) \in Seq(S) /\ Len(Tail(q)) = Len(q) - 1
           /\ \A i \in 1..Len(Tail(q)) : i + 1 \in 1..Len(q) /\ Tail(q)[i] = q[i + 1]
  OBVIOUS

----------------------------------------------------------------------------
(* Upload: the inductive invariant *)

OutFrame == [u : Upload, what : {"open", "data", "eof"}, n : 0..Chunks]

\* A request that was not started has left no trace.
NotStarted ==
    \A u \in Upload : upload[u].at = "idle" =>
        /\ ~writer[u].open /\ ready[u] = "none" /\ result[u] = "none"
        /\ \A i \in 1..Len(wire) : wire[i].u # u

\* The agent's state ends with the connection.
LinkDown == ~link => wire = <<>> /\ \A u \in Upload : ~writer[u].open

\* An "open" on its way is the first thing the agent hears of the upload.
OpenIsFirst ==
    /\ \A u \in Upload : upload[u].at \in {"idle", "asking"} => upload[u].sent = 0
    /\ \A i \in 1..Len(wire) : wire[i].what = "open" =>
          LET u == wire[i].u
          IN /\ upload[u].at \in {"asking", "failed"} /\ upload[u].sent = 0
             /\ ready[u] = "none" /\ result[u] = "none" /\ ~writer[u].open
             /\ \A j \in 1..Len(wire) : wire[j].u = u => j = i

\* A writer's offset is behind the chunks that are still on their way to it.
Offsets ==
    /\ \A u \in Upload : writer[u].pos <= upload[u].sent /\ (writer[u].open => writer[u].file \in Upload)
    /\ \A i \in 1..Len(wire) : wire[i].what = "data" =>
          writer[wire[i].u].pos < wire[i].n /\ wire[i].n <= upload[wire[i].u].sent
    /\ \A i, j \in 1..Len(wire) :
          i < j /\ wire[i].u = wire[j].u /\ wire[i].what = "data" /\ wire[j].what = "data" => wire[i].n < wire[j].n

\* No other upload to the path was started.
Alone(u) == \A v \in Upload \ {u} : upload[v].at = "idle"

\* The upload has the temporary file for itself: the file holds what was read from
\* the connection, and the connection holds the rest of what was sent.
SoleWriter(u) ==
    writer[u].open =>
        /\ writer[u].file = u /\ tmp = u
        /\ data[u] = [i \in 1..writer[u].pos |-> <<u, i>>]
        /\ \A i \in 1..Len(wire) :
              \/ wire[i].what = "data" /\ wire[i].n = writer[u].pos + i
              \/ wire[i].what = "eof" /\ writer[u].pos + i = Chunks + 1
        /\ upload[u].at \in {"asking", "sending"} => upload[u].sent = writer[u].pos + Len(wire)

\* Success is reported for a file that is whole, named, and closed for good.
SoleSuccess(u) ==
    result[u] = "success" \/ upload[u].at = "confirmed" =>
        ~writer[u].open /\ target = u /\ data[u] = Whole(u)

Undisturbed ==
    /\ (\A u \in Upload : upload[u].at = "idle") => tmp = NoUpload
    /\ \A u \in Upload : Alone(u) =>
          /\ SoleWriter(u) /\ SoleSuccess(u)
          /\ (\E i \in 1..Len(wire) : wire[i].what = "open") => tmp = NoUpload

UploadInv == UploadTypeOK /\ NotStarted /\ LinkDown /\ OpenIsFirst /\ Offsets /\ Undisturbed

HandlerState == {"idle", "asking", "sending", "ended", "waiting", "confirmed", "failed"}

\* The elements of the functions and of the connection's sequence.
LEMMA UploadTypes ==
    ASSUME UploadInv
    PROVE  /\ Chunks \in Nat \ {0} /\ NoUpload \notin Upload
           /\ wire \in Seq(OutFrame) /\ Len(wire) \in Nat
           /\ \A i \in 1..Len(wire) : wire[i] \in OutFrame /\ wire[i].u \in Upload /\ wire[i].n \in 0..Chunks
           /\ upload \in [Upload -> [at : HandlerState, sent : 0..Chunks]]
           /\ \A u \in Upload : upload[u].at \in HandlerState /\ upload[u].sent \in 0..Chunks
           /\ writer \in [Upload -> [open : BOOLEAN, file : Upload \cup {NoUpload}, pos : 0..Chunks]]
           /\ \A u \in Upload : writer[u].open \in BOOLEAN /\ writer[u].pos \in 0..Chunks
           /\ data \in [Upload -> Seq(Chunk \cup {Hole})]
           /\ ready \in [Upload -> Answer] /\ result \in [Upload -> Answer]
  <1>1. wire \in Seq(OutFrame) BY Zenon DEF UploadInv, UploadTypeOK, OutFrame
  <1>2. \A i \in 1..Len(wire) : wire[i] \in OutFrame BY <1>1
  <1>3. \A m \in OutFrame : m.u \in Upload /\ m.n \in 0..Chunks BY Zenon DEF OutFrame
  <1>4. upload \in [Upload -> [at : HandlerState, sent : 0..Chunks]]
    BY Zenon DEF UploadInv, UploadTypeOK, HandlerState
  <1> QED BY <1>1, <1>2, <1>3, <1>4, UploadAssumption DEF UploadInv, UploadTypeOK

\* Nothing is started at first.
LEMMA UploadInitially == UploadInit => UploadInv
  <1> SUFFICES ASSUME UploadInit PROVE UploadInv BY Zenon
  <1> USE UploadAssumption DEF UploadInit, ClosedWriter, NoAnswers
  <1>1. Len(wire) = 0 /\ wire \in Seq(OutFrame) OBVIOUS
  <1>2. UploadTypeOK
    <2>1. upload \in [Upload -> [at : HandlerState, sent : 0..Chunks]] BY DEF HandlerState
    <2>2. writer \in [Upload -> [open : BOOLEAN, file : Upload \cup {NoUpload}, pos : 0..Chunks]] OBVIOUS
    <2>3. data \in [Upload -> Seq(Chunk \cup {Hole})] OBVIOUS
    <2> QED BY <1>1, <2>1, <2>2, <2>3 DEF UploadTypeOK, HandlerState, OutFrame, Answer
  <1>3. NotStarted /\ LinkDown /\ OpenIsFirst /\ Offsets
    BY <1>1 DEF NotStarted, LinkDown, OpenIsFirst, Offsets
  <1>4. Undisturbed BY <1>1, Zenon DEF Undisturbed, SoleWriter, SoleSuccess
  <1> QED BY <1>2, <1>3, <1>4, Zenon DEF UploadInv

\* The handler's steps that write nothing to the connection.
LEMMA HandlerMovePreserves ==
    ASSUME UploadInv, NEW u \in Upload, upload[u].at # "idle",
           NEW a \in HandlerState \ {"idle"}, a = "asking" => upload[u].at = "asking",
           upload' = [upload EXCEPT ![u].at = a],
           ready' \in {ready, [ready EXCEPT ![u] = "none"]},
           result' \in {result, [result EXCEPT ![u] = "none"]},
           UNCHANGED <<wire, writer, tmp, target, data, link, losses>>,
           a \in {"failed", upload[u].at} \/ upload[u].at \notin {"asking", "failed"} \/ ready[u] # "none" \/ result[u] # "none",
           a = "sending" => upload[u].at \in {"asking", "sending"},
           a = "confirmed" => result[u] = "success" \/ upload[u].at = "confirmed"
    PROVE  UploadInv'
  <1>0. upload \in [Upload -> [at : HandlerState, sent : 0..Chunks]] BY UploadTypes, Zenon
  <1>1. /\ upload' \in [Upload -> [at : HandlerState, sent : 0..Chunks]]
        /\ upload'[u].at = a /\ upload'[u].sent = upload[u].sent
        /\ \A v \in Upload \ {u} : upload'[v] = upload[v]
        /\ \A v \in Upload : upload'[v].sent = upload[v].sent
    BY <1>0
  <1> USE UploadTypes
  <1>2. /\ ready' \in [Upload -> Answer] /\ result' \in [Upload -> Answer]
        /\ \A v \in Upload : ready'[v] \in {"none", ready[v]} /\ result'[v] \in {"none", result[v]}
    BY Zenon DEF Answer
  <1>3. UploadTypeOK' BY <1>1, <1>2, Zenon DEF UploadInv, UploadTypeOK, HandlerState
  <1>4. \A v \in Upload : upload'[v].at = "idle" <=> upload[v].at = "idle" BY <1>1, Zenon
  <1>5. NotStarted' BY <1>2, <1>4 DEF UploadInv, NotStarted
  <1>6. LinkDown' BY Zenon DEF UploadInv, LinkDown
  <1>7. OpenIsFirst'
    <2>1. \A i \in 1..Len(wire) : wire[i].what = "open" /\ wire[i].u = u => a \in {"failed", upload[u].at}
      BY Zenon DEF UploadInv, OpenIsFirst
    <2> QED BY <1>1, <1>2, <2>1, SMTT(30) DEF UploadInv, OpenIsFirst
  <1>8. Offsets' BY <1>1 DEF UploadInv, Offsets
  <1>9. Undisturbed'
    <2>1. \A v \in Upload : Alone(v)' => Alone(v) /\ v = u BY <1>1, <1>4, Zenon DEF Alone
    <2>2. ASSUME Alone(u) PROVE SoleWriter(u)' /\ SoleSuccess(u)'
      <3>1. SoleWriter(u) /\ SoleSuccess(u) BY <2>2, Zenon DEF UploadInv, Undisturbed
      <3>2. a \in {"asking", "sending"} => upload[u].at \in {"asking", "sending"} BY Zenon
      <3> QED BY <1>1, <1>2, <3>1, <3>2, Zenon DEF SoleWriter, SoleSuccess
    <2> QED BY <1>1, <1>4, <2>1, <2>2 DEF UploadInv, Undisturbed
  <1> QED BY <1>3, <1>5, <1>6, <1>7, <1>8, <1>9, Zenon DEF UploadInv

\* Facts about numbers, for leaves that need little else.
LEMMA AddOne == \A p, l \in Nat : (p + l) + 1 = p + (l + 1)
  OBVIOUS

\* One moved from one summand to the other.
LEMMA ShiftOne == \A p, l \in Nat : p + (l + 1) = (p + 1) + l
  OBVIOUS

\* Transitivity of the order.
LEMMA LessTrans == \A p, s, n \in Nat : p <= s /\ s < n => p < n
  OBVIOUS

\* Transitivity of the order, not strict.
LEMMA AtMostTrans == \A p, s, n \in Nat : p <= s /\ s <= n => p <= n
  OBVIOUS

\* UploadStart, UploadSend and UploadEof: how the request moves.
Moves(u, what, a, n) ==
    \/ what = "open" /\ upload[u].at = "idle" /\ a \in {"asking", "failed"} /\ n = 0
    \/ what = "data" /\ upload[u].at = "sending" /\ a \in {"sending", "failed"}
       /\ n = upload[u].sent + (IF a = "sending" THEN 1 ELSE 0)
    \/ what = "eof" /\ upload[u].at = "sending" /\ a = "ended" /\ n = Chunks /\ upload[u].sent = Chunks

\* The request's new state, and nobody else's.
HandlerBecomes(u, a, n) ==
    /\ upload' \in [Upload -> [at : HandlerState, sent : 0..Chunks]]
    /\ upload'[u].at = a /\ upload'[u].sent = n
    /\ \A v \in Upload \ {u} : upload'[v] = upload[v]

\* Frames written while the connection is up go behind the others.
LEMMA WritePreserves ==
    ASSUME UploadInv, NEW u \in Upload, link, NEW a \in HandlerState \ {"idle", "failed"}, NEW n \in 0..Chunks,
           NEW m \in OutFrame, m.u = u, m.what = "data" => m.n = n, wire' = Append(wire, m),
           Moves(u, m.what, a, n), HandlerBecomes(u, a, n),
           UNCHANGED <<ready, result, writer, tmp, target, data, link, losses>>
    PROVE  UploadInv'
  <1>1. /\ upload' \in [Upload -> [at : HandlerState, sent : 0..Chunks]]
        /\ upload'[u].at = a /\ upload'[u].sent = n
        /\ \A v \in Upload \ {u} : upload'[v] = upload[v]
        /\ \A v \in Upload : Alone(v)' => Alone(v) /\ v = u
    BY Zenon DEF HandlerBecomes, Alone
  <1>2. /\ wire' \in Seq(OutFrame) /\ Len(wire') = Len(wire) + 1 /\ wire'[Len(wire) + 1] = m
        /\ \A i \in 1..Len(wire) : wire'[i] = wire[i]
    BY UploadTypes, WireAppend
  <1>n. /\ Len(wire) \in Nat /\ Chunks \in Nat /\ upload[u].sent \in 0..Chunks
        /\ \A v \in Upload : upload[v].sent \in Nat /\ writer[v].pos \in Nat
        /\ \A i \in 1..Len(wire) : wire[i].n \in Nat
    BY UploadTypes
  <1>3. \A i \in 1..Len(wire') : i \in 1..Len(wire) \/ (i = Len(wire) + 1 /\ wire'[i] = m)
    BY <1>2, <1>n
  <1>4. /\ upload[u].at \in {"idle", "sending"}
        /\ upload[u].at = "idle" => upload[u].sent = 0 /\ n = 0 /\ a = "asking" /\ m.what = "open"
        /\ upload[u].at = "sending" => upload[u].sent <= n /\ a \in {"sending", "ended"} /\ m.what # "open"
        /\ m.what = "data" => upload[u].sent < n
    BY <1>n DEF Moves, UploadInv, OpenIsFirst
  <1>5. UploadTypeOK' BY <1>1, <1>2, Zenon DEF UploadInv, UploadTypeOK, HandlerState, OutFrame
  <1>6. NotStarted'
    <2> SUFFICES ASSUME NEW v \in Upload, upload'[v].at = "idle"
                 PROVE  /\ ~writer[v].open /\ ready[v] = "none" /\ result[v] = "none"
                        /\ \A i \in 1..Len(wire') : wire'[i].u # v
      BY Zenon DEF NotStarted
    <2>1. v # u /\ upload[v].at = "idle" BY <1>1, Zenon
    <2> QED BY <1>2, <1>3, <2>1 DEF UploadInv, NotStarted
  <1>7. LinkDown' BY Zenon DEF LinkDown
  <1>8. OpenIsFirst'
    <2>1. \A v \in Upload : upload'[v].at \in {"idle", "asking"} => upload'[v].sent = 0
      BY <1>1, <1>4 DEF UploadInv, OpenIsFirst
    <2>2. \A i \in 1..Len(wire) : wire[i].what = "open" => wire[i].u # u
      BY <1>4, Zenon DEF UploadInv, OpenIsFirst
    <2>3. m.what = "open" => /\ ready[u] = "none" /\ result[u] = "none" /\ ~writer[u].open
                             /\ \A i \in 1..Len(wire) : wire[i].u # u
      BY <1>4, Zenon DEF UploadInv, NotStarted
    <2>4. ASSUME NEW i \in 1..Len(wire'), wire'[i].what = "open", i \in 1..Len(wire)
          PROVE  LET v == wire'[i].u
                 IN /\ upload'[v].at \in {"asking", "failed"} /\ upload'[v].sent = 0
                    /\ ready[v] = "none" /\ result[v] = "none" /\ ~writer[v].open
                    /\ \A j \in 1..Len(wire') : wire'[j].u = v => j = i
      <3>1. wire[i].u \in Upload \ {u} /\ wire'[i] = wire[i] BY <1>2, <2>2, <2>4, UploadTypes, Zenon
      <3>2. LET v == wire[i].u
            IN /\ upload[v].at \in {"asking", "failed"} /\ upload[v].sent = 0
               /\ ready[v] = "none" /\ result[v] = "none" /\ ~writer[v].open
               /\ \A j \in 1..Len(wire) : wire[j].u = v => j = i
        BY <2>4, <3>1, Zenon DEF UploadInv, OpenIsFirst
      <3>3. \A j \in 1..Len(wire') : wire'[j].u = wire[i].u => j = i BY <1>2, <1>3, <3>1, <3>2
      <3> QED BY <1>1, <3>1, <3>2, <3>3
    <2>5. ASSUME NEW i \in 1..Len(wire'), wire'[i].what = "open", i = Len(wire) + 1
          PROVE  LET v == wire'[i].u
                 IN /\ upload'[v].at \in {"asking", "failed"} /\ upload'[v].sent = 0
                    /\ ready[v] = "none" /\ result[v] = "none" /\ ~writer[v].open
                    /\ \A j \in 1..Len(wire') : wire'[j].u = v => j = i
      <3>1. wire'[i] = m /\ m.what = "open" BY <1>2, <2>5, Zenon
      <3> QED BY <1>1, <1>2, <1>3, <1>4, <2>3, <2>5, <3>1
    <2> QED BY <1>3, <2>1, <2>4, <2>5 DEF OpenIsFirst
  <1>9. Offsets'
    <2>0. /\ \A v \in Upload : writer[v].pos <= upload[v].sent /\ (writer[v].open => writer[v].file \in Upload)
          /\ \A i \in 1..Len(wire) : wire[i].what = "data" =>
                writer[wire[i].u].pos < wire[i].n /\ wire[i].n <= upload[wire[i].u].sent
          /\ \A i, j \in 1..Len(wire) :
                i < j /\ wire[i].u = wire[j].u /\ wire[i].what = "data" /\ wire[j].what = "data" => wire[i].n < wire[j].n
      BY Zenon DEF UploadInv, Offsets
    <2>1. \A v \in Upload : upload[v].sent <= upload'[v].sent /\ upload'[v].sent \in Nat BY <1>1, <1>4, <1>n
    <2>2. \A v \in Upload : writer[v].pos <= upload'[v].sent
      <3> SUFFICES ASSUME NEW v \in Upload PROVE writer[v].pos <= upload'[v].sent BY Zenon
      <3> QED BY <1>n, <2>0, <2>1, AtMostTrans, Zenon
    <2>3. m.what = "data" => writer[u].pos < m.n /\ m.n <= upload'[u].sent
      <3>1. writer[u].pos \in Nat /\ upload[u].sent \in Nat /\ n \in Nat /\ writer[u].pos <= upload[u].sent
        BY <1>n, <2>0
      <3>2. m.what = "data" => writer[u].pos < n BY <1>4, <3>1, LessTrans, Zenon
      <3>3. n <= n BY <3>1
      <3> QED BY <1>1, <3>2, <3>3, Zenon
    <2>4. \A i \in 1..Len(wire) : wire[i].what = "data" => wire[i].n <= upload'[wire[i].u].sent
      <3> SUFFICES ASSUME NEW i \in 1..Len(wire), wire[i].what = "data" PROVE wire[i].n <= upload'[wire[i].u].sent BY Zenon
      <3>1. wire[i].u \in Upload /\ wire[i].n \in Nat BY UploadTypes
      <3>2. wire[i].n <= upload[wire[i].u].sent /\ upload[wire[i].u].sent <= upload'[wire[i].u].sent
            /\ upload[wire[i].u].sent \in Nat /\ upload'[wire[i].u].sent \in Nat
        BY <1>n, <2>0, <2>1, <3>1, Zenon
      <3> QED BY <3>1, <3>2, AtMostTrans, Zenon
    <2>5. \A i \in 1..Len(wire) : wire[i].what = "data" /\ wire[i].u = u /\ m.what = "data" => wire[i].n < m.n
      <3> SUFFICES ASSUME NEW i \in 1..Len(wire), wire[i].what = "data", wire[i].u = u, m.what = "data" PROVE wire[i].n < n
        BY Zenon
      <3>1. wire[i].n \in Nat /\ n \in Nat /\ upload[u].sent \in Nat /\ wire[i].n <= upload[u].sent /\ upload[u].sent < n
        BY <1>n, <1>4, <2>0
      <3> QED BY <3>1
    <2>6. ASSUME NEW i \in 1..Len(wire'), NEW j \in 1..Len(wire'),
                 i < j, wire'[i].u = wire'[j].u, wire'[i].what = "data", wire'[j].what = "data"
          PROVE  wire'[i].n < wire'[j].n
      <3>1. i \in 1..Len(wire) BY <1>2, <1>n, <2>6
      <3> QED BY <1>2, <1>3, <2>0, <2>5, <2>6, <3>1
    <2> QED BY <1>2, <1>3, <2>0, <2>2, <2>3, <2>4, <2>6 DEF Offsets
  <1>10. Undisturbed'
    <2>1. ASSUME Alone(u) PROVE SoleWriter(u)'
      <3>1. SUFFICES ASSUME writer[u].open PROVE SoleWriter(u)' BY Zenon DEF SoleWriter
      <3>2. SoleWriter(u) BY <2>1, Zenon DEF UploadInv, Undisturbed
      <3>3. upload[u].at = "sending" BY <1>4, <3>1, Zenon DEF UploadInv, NotStarted
      <3>4. upload[u].sent = writer[u].pos + Len(wire) BY <3>1, <3>2, <3>3, Zenon DEF SoleWriter
      <3>5. \/ m.what = "data" /\ m.n = writer[u].pos + (Len(wire) + 1) /\ n = m.n
            \/ m.what = "eof" /\ writer[u].pos + (Len(wire) + 1) = Chunks + 1 /\ a = "ended"
        <4>1. writer[u].pos \in Nat BY <1>n, Zenon
        <4>2. CASE m.what = "data"
          <5>1. n = upload[u].sent + 1 BY <3>3, <4>2, Zenon DEF Moves
          <5>2. m.n = n BY <4>2, Zenon
          <5>3. n = writer[u].pos + (Len(wire) + 1) BY <1>n, <3>4, <4>1, <5>1, AddOne, Zenon
          <5> QED BY <4>2, <5>2, <5>3, Zenon
        <4>3. CASE m.what = "eof"
          <5>1. upload[u].sent = Chunks /\ a = "ended" BY <3>3, <4>3, Zenon DEF Moves
          <5>2. upload[u].sent + 1 = writer[u].pos + (Len(wire) + 1) BY <1>n, <3>4, <4>1, AddOne, Zenon
          <5> QED BY <4>3, <5>1, <5>2, Zenon
        <4> QED BY <3>3, <4>2, <4>3, Zenon DEF Moves
      <3>6. \A i \in 1..Len(wire') :
               \/ wire'[i].what = "data" /\ wire'[i].n = writer[u].pos + i
               \/ wire'[i].what = "eof" /\ writer[u].pos + i = Chunks + 1
        BY <1>2, <1>3, <3>1, <3>2, <3>5 DEF SoleWriter
      <3>7. a \in {"asking", "sending"} => n = writer[u].pos + Len(wire')
        BY <1>2, <1>4, <3>3, <3>5, Zenon DEF Moves
      <3> QED BY <1>1, <3>1, <3>2, <3>6, <3>7, Zenon DEF SoleWriter
    <2>2. ASSUME Alone(u) PROVE SoleSuccess(u)'
      BY <1>1, <1>4, <2>2, Zenon DEF UploadInv, Undisturbed, SoleSuccess
    <2>3. ASSUME Alone(u), NEW i \in 1..Len(wire'), wire'[i].what = "open" PROVE tmp = NoUpload
      <3>1. CASE i \in 1..Len(wire) BY <1>2, <2>3, <3>1, Zenon DEF UploadInv, Undisturbed
      <3>2. CASE i = Len(wire) + 1
        <4>1. upload[u].at = "idle" BY <1>2, <1>4, <2>3, <3>2, Zenon
        <4> QED BY <2>3, <4>1, Zenon DEF UploadInv, Undisturbed, Alone
      <3> QED BY <1>3, <3>1, <3>2, Zenon
    <2> QED BY <1>1, <2>1, <2>2, <2>3, Zenon DEF Undisturbed
  <1> QED BY <1>5, <1>6, <1>7, <1>8, <1>9, <1>10, Zenon DEF UploadInv

\* Frames written while the connection is down go nowhere.
LEMMA WriteLostPreserves ==
    ASSUME UploadInv, NEW u \in Upload, ~link, NEW a \in HandlerState \ {"idle"}, NEW n \in 0..Chunks,
           NEW what \in {"open", "data", "eof"}, wire' = wire,
           Moves(u, what, a, n), HandlerBecomes(u, a, n),
           UNCHANGED <<ready, result, writer, tmp, target, data, link, losses>>
    PROVE  UploadInv'
  <1>1. /\ upload' \in [Upload -> [at : HandlerState, sent : 0..Chunks]]
        /\ upload'[u].at = a /\ upload'[u].sent = n
        /\ \A v \in Upload \ {u} : upload'[v] = upload[v]
        /\ \A v \in Upload : Alone(v)' => Alone(v) /\ v = u
    BY Zenon DEF HandlerBecomes, Alone
  <1>2. Len(wire) = 0 /\ \A v \in Upload : ~writer[v].open BY Zenon DEF UploadInv, LinkDown
  <1>n. /\ Chunks \in Nat /\ upload[u].sent \in 0..Chunks
        /\ \A v \in Upload : upload[v].sent \in Nat /\ writer[v].pos \in Nat
    BY UploadTypes
  <1>3. /\ a \notin {"idle", "confirmed"} /\ upload[u].sent <= n
        /\ a = "asking" => n = 0
    BY <1>n DEF Moves, UploadInv, OpenIsFirst
  <1>4. UploadTypeOK' BY <1>1, Zenon DEF UploadInv, UploadTypeOK, HandlerState
  <1>5. NotStarted'
    <2>1. \A v \in Upload : upload'[v].at = "idle" => upload[v].at = "idle" BY <1>1, Zenon
    <2> QED BY <2>1, Zenon DEF UploadInv, NotStarted
  <1>6. LinkDown' BY Zenon DEF UploadInv, LinkDown
  <1>7. OpenIsFirst' BY <1>1, <1>2, <1>3 DEF UploadInv, OpenIsFirst
  <1>8. Offsets'
    <2>1. \A v \in Upload : writer[v].pos <= upload'[v].sent BY <1>1, <1>3, <1>n DEF UploadInv, Offsets
    <2> QED BY <1>2, <2>1 DEF UploadInv, Offsets
  <1>9. Undisturbed'
    <2>1. Alone(u) => SoleSuccess(u)' BY <1>1, <1>3, Zenon DEF UploadInv, Undisturbed, SoleSuccess
    <2> QED BY <1>1, <1>2, <2>1 DEF Undisturbed, SoleWriter
  <1> QED BY <1>4, <1>5, <1>6, <1>7, <1>8, <1>9, Zenon DEF UploadInv

\* The handler's steps that write: the command, the chunks, the EOF marker.
LEMMA HandlerWritePreserves ==
    ASSUME UploadInv, NEW u \in Upload, UploadStart(u) \/ UploadSend(u) \/ UploadEof(u)
    PROVE  UploadInv'
  <1> USE UploadTypes
  <1>1. /\ UNCHANGED <<ready, result, writer, tmp, target, data, link, losses>>
        /\ Chunks \in Nat /\ upload[u].sent \in 0..Chunks /\ link \in BOOLEAN
    BY Zenon DEF UploadStart, UploadSend, UploadEof, UploadInv, UploadTypeOK
  <1>0. 0 \in 0..Chunks BY <1>1
  <1>2. \A a \in HandlerState : upload' = [upload EXCEPT ![u].at = a]
          => HandlerBecomes(u, a, upload[u].sent)
    BY DEF HandlerBecomes
  <1>3. CASE UploadStart(u)
    <2>1. PICK a \in {"asking", "failed"} : upload' = [upload EXCEPT ![u].at = a] /\ (link => a = "asking")
      BY <1>3, Zenon DEF UploadStart, UploadAt
    <2>2. upload[u].sent = 0 BY <1>3, Zenon DEF UploadStart, UploadInv, OpenIsFirst
    <2>3. Moves(u, "open", a, upload[u].sent) BY <1>3, <2>2, Zenon DEF UploadStart, Moves
    <2>4. HandlerBecomes(u, a, upload[u].sent) BY <1>2, <2>1, Zenon DEF HandlerState
    <2>5. CASE link
      <3>1. PICK m \in OutFrame : m = Outgoing(u, "open", 0) BY <1>0, Zenon DEF OutFrame, Outgoing
      <3>2. m.u = u /\ m.what = "open" /\ wire' = Append(wire, m)
        BY <1>3, <2>5, <3>1, Zenon DEF UploadStart, WriteOut, Outgoing
      <3> QED BY <1>1, <2>1, <2>3, <2>4, <2>5, <3>2, WritePreserves, Zenon DEF HandlerState
    <2>6. CASE ~link
      <3>1. wire' = wire BY <1>3, <2>6, Zenon DEF UploadStart, WriteOut
      <3> QED BY <1>1, <2>3, <2>4, <2>6, <3>1, WriteLostPreserves, Zenon DEF HandlerState
    <2> QED BY <2>5, <2>6, Zenon
  <1>4. CASE UploadSend(u)
    <2>1. upload[u].at = "sending" /\ upload[u].sent + 1 \in 0..Chunks BY <1>1, <1>4 DEF UploadSend
    <2>2. CASE upload' = [upload EXCEPT ![u].sent = @ + 1]
      <3>1. PICK n \in 0..Chunks : n = upload[u].sent + 1 BY <2>1, Zenon
      <3>2. HandlerBecomes(u, "sending", n) BY <2>1, <2>2, <3>1, ZenonT(30) DEF HandlerBecomes
      <3>3. Moves(u, "data", "sending", n) BY <2>1, <3>1, Zenon DEF Moves
      <3>4. CASE link
        <4>1. PICK m \in OutFrame : m = Outgoing(u, "data", n) BY Zenon DEF OutFrame, Outgoing
        <4>2. m.u = u /\ m.what = "data" /\ m.n = n /\ wire' = Append(wire, m)
          BY <1>4, <3>1, <3>4, <4>1, Zenon DEF UploadSend, WriteOut, Outgoing
        <4> QED BY <1>1, <3>2, <3>3, <3>4, <4>2, WritePreserves, Zenon DEF HandlerState
      <3>5. CASE ~link
        <4>1. wire' = wire BY <1>4, <3>5, Zenon DEF UploadSend, WriteOut
        <4> QED BY <1>1, <3>2, <3>3, <3>5, <4>1, WriteLostPreserves, Zenon DEF HandlerState
      <3> QED BY <3>4, <3>5, Zenon
    <2>3. CASE ~link /\ UploadAt(u, "failed")
      <3>1. wire' = wire BY <1>4, <2>3, Zenon DEF UploadSend, WriteOut
      <3>2. HandlerBecomes(u, "failed", upload[u].sent)
        BY <1>2, <2>3, Zenon DEF HandlerState, UploadAt
      <3>3. Moves(u, "data", "failed", upload[u].sent) BY <1>1, <2>1 DEF Moves
      <3> QED BY <1>1, <2>3, <3>1, <3>2, <3>3, WriteLostPreserves, Zenon DEF HandlerState
    <2> QED BY <1>4, <2>2, <2>3, Zenon DEF UploadSend
  <1>5. CASE UploadEof(u)
    <2>1. Moves(u, "eof", "ended", upload[u].sent) BY <1>5, Zenon DEF UploadEof, Moves
    <2>2. HandlerBecomes(u, "ended", upload[u].sent)
      BY <1>2, <1>5, Zenon DEF HandlerState, UploadEof, UploadAt
    <2>3. CASE link
      <3>1. PICK m \in OutFrame : m = Outgoing(u, "eof", 0) BY <1>0, Zenon DEF OutFrame, Outgoing
      <3>2. m.u = u /\ m.what = "eof" /\ wire' = Append(wire, m)
        BY <1>5, <2>3, <3>1, Zenon DEF UploadEof, WriteOut, Outgoing
      <3> QED BY <1>1, <2>1, <2>2, <2>3, <3>2, WritePreserves, Zenon DEF HandlerState
    <2>4. CASE ~link
      <3>1. wire' = wire BY <1>5, <2>4, Zenon DEF UploadEof, WriteOut
      <3> QED BY <1>1, <2>1, <2>2, <2>4, <3>1, WriteLostPreserves, Zenon DEF HandlerState
    <2> QED BY <2>3, <2>4, Zenon
  <1> QED BY <1>3, <1>4, <1>5, Zenon

----------------------------------------------------------------------------
(* Upload: the agent's steps and the connection *)

\* The agent reads the first frame of the connection.  What it does with it is the
\* conclusion's hypotheses; this part is common to the three kinds of frame.
LEMMA FrameRead ==
    ASSUME UploadInv, NEW u \in Upload, NEW what \in {"open", "data", "eof"}, Received(u, what)
    PROVE  /\ wire' \in Seq(OutFrame) /\ Len(wire') \in Nat /\ Len(wire) \in Nat /\ Len(wire) = Len(wire') + 1
           /\ Head(wire) = wire[1] /\ 1 \in 1..Len(wire)
           /\ wire[1].u = u /\ wire[1].what = what /\ wire[1] \in OutFrame /\ wire[1].n \in 0..Chunks
           /\ \A i \in 1..Len(wire') : i + 1 \in 1..Len(wire) /\ wire'[i] = wire[i + 1] /\ 1 < i + 1 /\ i + 1 # 1
           /\ upload[u].at # "idle" /\ link
           /\ \A v \in Upload : Alone(v) => v = u
  <1>1. wire \in Seq(OutFrame) /\ wire # <<>> /\ wire' = Tail(wire) BY UploadTypes, Zenon DEF Received
  <1>2. /\ Head(wire) = wire[1] /\ 1 \in 1..Len(wire) /\ Len(wire) \in Nat
        /\ wire' \in Seq(OutFrame) /\ Len(wire') = Len(wire) - 1
        /\ \A i \in 1..Len(wire') : i + 1 \in 1..Len(wire) /\ wire'[i] = wire[i + 1]
    BY <1>1, WireTail, Zenon
  <1>3. /\ Len(wire') \in Nat /\ Len(wire) = Len(wire') + 1
        /\ \A i \in 1..Len(wire') : 1 < i + 1 /\ i + 1 # 1
    BY <1>2
  <1>4. wire[1].u = u /\ wire[1].what = what BY <1>2, Zenon DEF Received
  <1>5. upload[u].at # "idle" BY <1>2, <1>4, Zenon DEF UploadInv, NotStarted
  <1>6. link BY <1>1, Zenon DEF UploadInv, LinkDown
  <1> QED BY <1>2, <1>3, <1>4, <1>5, <1>6, UploadTypes, Zenon DEF Alone

\* CmdFilesUpload: the writer starts at the beginning of a file that is now empty.
LEMMA UploadOpenPreserves ==
    ASSUME UploadInv, NEW u \in Upload, AgentOpen(u)
    PROVE  UploadInv'
  <1>1. /\ Received(u, "open") /\ UNCHANGED <<upload, result, target, link, losses>> BY Zenon DEF AgentOpen
  <1>2. /\ wire' \in Seq(OutFrame) /\ Len(wire') \in Nat /\ Len(wire) \in Nat /\ Len(wire) = Len(wire') + 1
        /\ 1 \in 1..Len(wire)
        /\ wire[1].u = u /\ wire[1].what = "open"
        /\ \A i \in 1..Len(wire') : i + 1 \in 1..Len(wire) /\ wire'[i] = wire[i + 1] /\ 1 < i + 1 /\ i + 1 # 1
        /\ upload[u].at # "idle" /\ link
        /\ \A v \in Upload : Alone(v) => v = u
    BY <1>1, FrameRead, Zenon
  <1>3. /\ upload[u].at \in {"asking", "failed"} /\ upload[u].sent = 0
        /\ ready[u] = "none" /\ result[u] = "none" /\ ~writer[u].open
        /\ \A j \in 1..Len(wire) : wire[j].u = u => j = 1
    BY <1>2, Zenon DEF UploadInv, OpenIsFirst
  <1>4. \A i \in 1..Len(wire') : wire'[i].u # u BY <1>2, <1>3, Zenon
  <1>5. PICK r \in {"success", "error"} : ready' = [ready EXCEPT ![u] = r] BY Zenon DEF AgentOpen
  <1>6. PICK f \in Upload : f = IF tmp = NoUpload THEN u ELSE tmp BY Zenon DEF UploadInv, UploadTypeOK
  <1>7. \/ tmp' = f /\ data' = [data EXCEPT ![f] = <<>>]
           /\ writer' = [writer EXCEPT ![u] = [open |-> TRUE, file |-> f, pos |-> 0]]
        \/ UNCHANGED <<tmp, data, writer>>
    BY <1>6, Zenon DEF AgentOpen
  <1>8. /\ writer' \in [Upload -> [open : BOOLEAN, file : Upload \cup {NoUpload}, pos : 0..Chunks]]
        /\ \A v \in Upload \ {u} : writer'[v] = writer[v]
        /\ writer'[u] = writer[u] \/ (writer'[u].open /\ writer'[u].file = f /\ writer'[u].pos = 0)
    <2>1. /\ writer \in [Upload -> [open : BOOLEAN, file : Upload \cup {NoUpload}, pos : 0..Chunks]]
          /\ 0 \in 0..Chunks
      BY UploadTypes
    <2>2. PICK w \in [open : BOOLEAN, file : Upload \cup {NoUpload}, pos : 0..Chunks] :
             w = [open |-> TRUE, file |-> f, pos |-> 0]
      BY <2>1, Zenon
    <2>3. writer' = writer \/ writer' = [writer EXCEPT ![u] = w] BY <1>7, <2>2, Zenon
    <2>4. w.open /\ w.file = f /\ w.pos = 0 BY <2>2, Zenon
    <2> QED BY <2>1, <2>3, <2>4
  <1>9. ready' \in [Upload -> Answer] /\ \A v \in Upload \ {u} : ready'[v] = ready[v]
    BY <1>5, UploadTypes, Zenon DEF Answer
  <1>10. UploadTypeOK'
    <2>1. data' \in [Upload -> Seq(Chunk \cup {Hole})]
      <3>1. data \in [Upload -> Seq(Chunk \cup {Hole})] BY UploadTypes, Zenon
      <3>2. <<>> \in Seq(Chunk \cup {Hole}) OBVIOUS
      <3> QED BY <1>7, <3>1, <3>2, Zenon
    <2>2. tmp' \in Upload \cup {NoUpload} BY <1>7, Zenon DEF UploadInv, UploadTypeOK
    <2> QED BY <1>1, <1>2, <1>8, <1>9, <2>1, <2>2, Zenon DEF UploadInv, UploadTypeOK, OutFrame
  <1>11. NotStarted'
    <2> SUFFICES ASSUME NEW v \in Upload, upload[v].at = "idle"
                 PROVE  /\ ~writer'[v].open /\ ready'[v] = "none" /\ result[v] = "none"
                        /\ \A i \in 1..Len(wire') : wire'[i].u # v
      BY <1>1, Zenon DEF NotStarted
    <2>1. v # u BY <1>2, Zenon
    <2>2. ~writer[v].open /\ ready[v] = "none" /\ result[v] = "none" /\ \A i \in 1..Len(wire) : wire[i].u # v
      BY Zenon DEF UploadInv, NotStarted
    <2>3. \A i \in 1..Len(wire') : wire'[i].u # v BY <1>2, <2>2, Zenon
    <2> QED BY <1>8, <1>9, <2>1, <2>2, <2>3, Zenon
  <1>12. LinkDown' BY <1>1, <1>2, Zenon DEF LinkDown
  <1>13. OpenIsFirst'
    <2> SUFFICES ASSUME NEW i \in 1..Len(wire'), wire'[i].what = "open"
                 PROVE  LET v == wire'[i].u
                        IN /\ upload[v].at \in {"asking", "failed"} /\ upload[v].sent = 0
                           /\ ready'[v] = "none" /\ result[v] = "none" /\ ~writer'[v].open
                           /\ \A j \in 1..Len(wire') : wire'[j].u = v => j = i
      BY <1>1, Zenon DEF UploadInv, OpenIsFirst
    <2>1. wire'[i].u \in Upload \ {u} BY <1>2, <1>4, UploadTypes, Zenon
    <2>2. LET v == wire[i + 1].u
          IN /\ upload[v].at \in {"asking", "failed"} /\ upload[v].sent = 0
             /\ ready[v] = "none" /\ result[v] = "none" /\ ~writer[v].open
             /\ \A j \in 1..Len(wire) : wire[j].u = v => j = i + 1
      BY <1>2 DEF UploadInv, OpenIsFirst
    <2>3. \A j \in 1..Len(wire') : wire'[j].u = wire'[i].u => j = i
      <3> SUFFICES ASSUME NEW j \in 1..Len(wire'), wire'[j].u = wire'[i].u PROVE j = i BY Zenon
      <3>0. i + 1 \in 1..Len(wire) /\ j + 1 \in 1..Len(wire) /\ wire'[j] = wire[j + 1] /\ wire'[i] = wire[i + 1]
        BY <1>2, Zenon
      <3>1. j + 1 = i + 1 BY <2>2, <3>0, Zenon
      <3> QED BY <3>1
    <2> QED BY <1>2, <1>8, <1>9, <2>1, <2>2, <2>3, SMTT(30)
  <1>14. Offsets'
    <2> USE DEF UploadInv, Offsets
    <2>1. \A v \in Upload : writer'[v].pos <= upload[v].sent /\ (writer'[v].open => writer'[v].file \in Upload)
      BY <1>3, <1>8
    <2>2. \A i \in 1..Len(wire') : wire'[i].what = "data" =>
             writer'[wire'[i].u].pos < wire'[i].n /\ wire'[i].n <= upload[wire'[i].u].sent
      <3> SUFFICES ASSUME NEW i \in 1..Len(wire'), wire'[i].what = "data"
                   PROVE  writer'[wire'[i].u].pos < wire'[i].n /\ wire'[i].n <= upload[wire'[i].u].sent
        BY Zenon
      <3>1. wire'[i].u \in Upload \ {u} BY <1>2, <1>4, UploadTypes, Zenon
      <3>2. writer'[wire'[i].u] = writer[wire[i + 1].u] BY <1>2, <1>8, <3>1
      <3> QED BY <1>2, <3>2
    <2>3. \A i, j \in 1..Len(wire') :
             i < j /\ wire'[i].u = wire'[j].u /\ wire'[i].what = "data" /\ wire'[j].what = "data" => wire'[i].n < wire'[j].n
      BY <1>2, SMTT(30)
    <2> QED BY <1>1, <2>1, <2>2, <2>3, Zenon
  <1>15. Undisturbed'
    <2>1. \A v \in Upload : Alone(v)' => Alone(v) /\ v = u BY <1>1, <1>2, Zenon DEF Alone
    <2>2. ASSUME Alone(u)
          PROVE  SoleWriter(u)' /\ SoleSuccess(u)' /\ \A i \in 1..Len(wire') : wire'[i].what # "open"
      <3>0. NotStarted BY Zenon DEF UploadInv
      <3>1. ASSUME NEW i \in 1..Len(wire) PROVE wire[i].u = u
        <4>1. wire[i].u \in Upload BY UploadTypes, Zenon
        <4>2. upload[wire[i].u].at # "idle" BY <3>0, <4>1, Zenon DEF NotStarted
        <4> QED BY <2>2, <4>1, <4>2, Zenon DEF Alone
      <3>2. Len(wire') = 0
        <4>1. \A i \in 1..Len(wire') : FALSE BY <1>2, <1>4, <3>1, Zenon
        <4> QED BY <1>2, <4>1
      <3>3. tmp = NoUpload BY <1>2, <2>2, Zenon DEF UploadInv, Undisturbed
      <3>4. f = u BY <1>6, <3>3, Zenon
      <3>5. CASE writer'[u].open
        <4>1. tmp' = u /\ data'[u] = <<>> /\ writer'[u].pos = 0 /\ writer'[u].file = u
          BY <1>3, <1>7, <1>8, <3>4, <3>5, UploadTypes
        <4>2. data'[u] = [i \in 1..writer'[u].pos |-> <<u, i>>] BY <4>1, SMTT(30)
        <4> QED BY <1>1, <1>3, <3>2, <4>1, <4>2 DEF SoleWriter, SoleSuccess
      <3>6. CASE ~writer'[u].open
        BY <1>1, <1>3, <3>2, <3>6 DEF SoleWriter, SoleSuccess
      <3> QED BY <3>2, <3>5, <3>6, Zenon
    <2> QED BY <1>1, <1>2, <2>1, <2>2, Zenon DEF Undisturbed
  <1> QED BY <1>10, <1>11, <1>12, <1>13, <1>14, <1>15, Zenon DEF UploadInv

\* A chunk or the EOF marker is read, whatever becomes of the writer: the parts of the
\* invariant that are about one upload at a time.
LEMMA FrameReadPreserves ==
    ASSUME UploadInv, NEW u \in Upload, NEW what \in {"data", "eof"}, Received(u, what),
           UNCHANGED <<upload, ready, link, losses>>,
           \A v \in Upload \ {u} : writer'[v] = writer[v] /\ result'[v] = result[v],
           writer'[u].open => writer[u].open /\ writer'[u].file = writer[u].file,
           writer'[u].pos \in {0, writer[u].pos} \/ (what = "data" /\ writer'[u].pos = writer[u].pos + 1)
    PROVE  NotStarted' /\ LinkDown' /\ OpenIsFirst' /\ Offsets'
  <1>2. /\ Len(wire') \in Nat /\ 1 \in 1..Len(wire) /\ wire[1].u = u /\ wire[1].what = what /\ wire[1].n \in Nat
        /\ \A i \in 1..Len(wire') : i + 1 \in 1..Len(wire) /\ wire'[i] = wire[i + 1] /\ 1 < i + 1 /\ i + 1 # 1
        /\ upload[u].at # "idle" /\ link
    BY FrameRead, UploadTypes
  <1>n. \A v \in Upload : upload[v].sent \in Nat /\ writer[v].pos \in Nat BY UploadTypes
  <1>3. NotStarted'
    <2> SUFFICES ASSUME NEW v \in Upload, upload[v].at = "idle"
                 PROVE  /\ ~writer'[v].open /\ ready[v] = "none" /\ result'[v] = "none"
                        /\ \A i \in 1..Len(wire') : wire'[i].u # v
      BY Zenon DEF NotStarted
    <2>1. v # u BY <1>2, Zenon
    <2>2. ~writer[v].open /\ ready[v] = "none" /\ result[v] = "none" /\ \A i \in 1..Len(wire) : wire[i].u # v
      BY Zenon DEF UploadInv, NotStarted
    <2>3. \A i \in 1..Len(wire') : wire'[i].u # v BY <1>2, <2>2, Zenon
    <2> QED BY <2>1, <2>2, <2>3, Zenon
  <1>4. LinkDown' BY <1>2, Zenon DEF LinkDown
  <1>5. OpenIsFirst'
    <2> SUFFICES ASSUME NEW i \in 1..Len(wire'), wire'[i].what = "open"
                 PROVE  LET v == wire'[i].u
                        IN /\ upload[v].at \in {"asking", "failed"} /\ upload[v].sent = 0
                           /\ ready[v] = "none" /\ result'[v] = "none" /\ ~writer'[v].open
                           /\ \A j \in 1..Len(wire') : wire'[j].u = v => j = i
      BY Zenon DEF UploadInv, OpenIsFirst
    <2>0. i + 1 \in 1..Len(wire) /\ wire'[i] = wire[i + 1] /\ 1 # i + 1 BY <1>2, Zenon
    <2>1. LET v == wire[i + 1].u
          IN /\ upload[v].at \in {"asking", "failed"} /\ upload[v].sent = 0
             /\ ready[v] = "none" /\ result[v] = "none" /\ ~writer[v].open
             /\ \A j \in 1..Len(wire) : wire[j].u = v => j = i + 1
      BY <2>0, SMTT(30) DEF UploadInv, OpenIsFirst
    <2>2. wire'[i].u \in Upload \ {u} BY <1>2, <2>0, <2>1, UploadTypes, Zenon
    <2>3. \A j \in 1..Len(wire') : wire'[j].u = wire'[i].u => j = i
      <3> SUFFICES ASSUME NEW j \in 1..Len(wire'), wire'[j].u = wire'[i].u PROVE j = i BY Zenon
      <3>0. j + 1 \in 1..Len(wire) /\ wire'[j] = wire[j + 1] BY <1>2, Zenon
      <3>1. j + 1 = i + 1 BY <2>0, <2>1, <3>0, Zenon
      <3> QED BY <3>1
    <2> QED BY <2>0, <2>1, <2>2, <2>3
  <1>6. Offsets'
    <2>0. /\ \A v \in Upload : writer[v].pos <= upload[v].sent /\ (writer[v].open => writer[v].file \in Upload)
          /\ \A i \in 1..Len(wire) : wire[i].what = "data" =>
                writer[wire[i].u].pos < wire[i].n /\ wire[i].n <= upload[wire[i].u].sent
          /\ \A i, j \in 1..Len(wire) :
                i < j /\ wire[i].u = wire[j].u /\ wire[i].what = "data" /\ wire[j].what = "data" => wire[i].n < wire[j].n
      BY Zenon DEF UploadInv, Offsets
    <2>1. writer'[u].pos \in Nat /\ writer'[u].pos <= upload[u].sent
      <3>1. what = "data" => writer[u].pos < wire[1].n /\ wire[1].n <= upload[u].sent BY <1>2, <2>0, Zenon
      <3>2. writer[u].pos <= upload[u].sent BY <2>0, Zenon
      <3> QED BY <1>2, <1>n, <3>1, <3>2
    <2>2. \A v \in Upload : writer'[v].pos <= upload[v].sent /\ (writer'[v].open => writer'[v].file \in Upload)
      BY <2>0, <2>1, Zenon
    <2>3. ASSUME NEW i \in 1..Len(wire'), wire'[i].what = "data"
          PROVE  writer'[wire'[i].u].pos < wire'[i].n /\ wire'[i].n <= upload[wire'[i].u].sent
      <3>0. i + 1 \in 1..Len(wire) /\ wire'[i] = wire[i + 1] /\ 1 < i + 1 BY <1>2, Zenon
      <3>1. writer[wire[i + 1].u].pos < wire[i + 1].n /\ wire[i + 1].n <= upload[wire[i + 1].u].sent
        BY <2>0, <2>3, <3>0, Zenon
      <3>2. CASE wire'[i].u # u
        <4>1. wire'[i].u \in Upload \ {u} BY <3>0, <3>2, UploadTypes, Zenon
        <4> QED BY <3>0, <3>1, <4>1, Zenon
      <3>3. CASE wire'[i].u = u
        <4>1. what = "data" => writer[u].pos < wire[1].n /\ wire[1].n < wire[i + 1].n
          BY <1>2, <2>0, <2>3, <3>0, <3>3, SMTT(30)
        <4>2. wire[i + 1].n \in Nat BY <3>0, UploadTypes
        <4>3. writer'[u].pos < wire[i + 1].n BY <1>2, <1>n, <3>0, <3>1, <3>3, <4>1, <4>2, SMTT(30)
        <4> QED BY <3>0, <3>1, <3>3, <4>3, Zenon
      <3> QED BY <3>2, <3>3, Zenon
    <2>4. ASSUME NEW i \in 1..Len(wire'), NEW j \in 1..Len(wire'),
                 i < j, wire'[i].u = wire'[j].u, wire'[i].what = "data", wire'[j].what = "data"
          PROVE  wire'[i].n < wire'[j].n
      <3>0. /\ i + 1 \in 1..Len(wire) /\ wire'[i] = wire[i + 1] /\ j + 1 \in 1..Len(wire) /\ wire'[j] = wire[j + 1]
        BY <1>2, Zenon
      <3>1. i + 1 < j + 1 BY <2>4
      <3> QED BY <2>0, <2>4, <3>0, <3>1
    <2> QED BY <2>2, <2>3, <2>4, Zenon DEF Offsets
  <1> QED BY <1>3, <1>4, <1>5, <1>6, Zenon

\* A write at an offset gives a file again.
LEMMA PutType ==
    ASSUME NEW S, Hole \in S, NEW s \in Seq(S), NEW p \in Nat \ {0}, NEW x \in S
    PROVE  Put(s, p, x) \in Seq(S)
  <1>1. PICK k \in Nat : k = IF p > Len(s) THEN p ELSE Len(s) OBVIOUS
  <1>2. \A i \in 1..k : (IF i = p THEN x ELSE IF i <= Len(s) THEN s[i] ELSE Hole) \in S
    <2> SUFFICES ASSUME NEW i \in 1..k PROVE (IF i = p THEN x ELSE IF i <= Len(s) THEN s[i] ELSE Hole) \in S BY Zenon
    <2>1. i <= Len(s) => i \in 1..Len(s) OBVIOUS
    <2> QED BY <2>1
  <1>3. [i \in 1..k |-> IF i = p THEN x ELSE IF i <= Len(s) THEN s[i] ELSE Hole] \in Seq(S) BY <1>2
  <1> QED BY <1>1, <1>3, Zenon DEF Put

\* A write at the end of a prefix of the body gives the next longer prefix.
LEMMA PutNext ==
    ASSUME NEW u, NEW p \in Nat, NEW s, s = [i \in 1..p |-> <<u, i>>]
    PROVE  Put(s, p + 1, <<u, p + 1>>) = [i \in 1..(p + 1) |-> <<u, i>>]
  <1>1. Len(s) = p OBVIOUS
  <1>2. Put(s, p + 1, <<u, p + 1>>) =
           [i \in 1..(p + 1) |-> IF i = p + 1 THEN <<u, p + 1>> ELSE IF i <= p THEN s[i] ELSE Hole]
    BY <1>1 DEF Put
  <1>3. \A i \in 1..(p + 1) : (IF i = p + 1 THEN <<u, p + 1>> ELSE IF i <= p THEN s[i] ELSE Hole) = <<u, i>>
    OBVIOUS
  <1> QED BY <1>2, <1>3, Zenon

\* handleFileBinaryFrame, a chunk that is written: the next one of the file.
LEMMA ChunkPreserves ==
    ASSUME UploadInv, NEW u \in Upload, Received(u, "data"), writer[u].open,
           data' = [data EXCEPT ![writer[u].file] = Put(@, writer[u].pos + 1, <<u, Head(wire).n>>)],
           writer' = [writer EXCEPT ![u].pos = @ + 1],
           UNCHANGED <<tmp, target, upload, ready, result, link, losses>>
    PROVE  UploadInv'
  <1>2. /\ wire' \in Seq(OutFrame) /\ Len(wire') \in Nat /\ Len(wire) = Len(wire') + 1
        /\ Head(wire) = wire[1] /\ 1 \in 1..Len(wire) /\ wire[1].u = u /\ wire[1].what = "data"
        /\ wire[1].n \in 0..Chunks
        /\ \A i \in 1..Len(wire') : i + 1 \in 1..Len(wire) /\ wire'[i] = wire[i + 1]
        /\ upload[u].at # "idle"
        /\ \A v \in Upload : Alone(v) => v = u
    BY FrameRead, Zenon
  <1>f. PICK f \in Upload : f = writer[u].file BY Zenon DEF UploadInv, Offsets
  <1>p. PICK p \in Nat : p = writer[u].pos BY UploadTypes
  <1>n. Chunks \in Nat /\ p < wire[1].n /\ wire[1].n \in 1..Chunks /\ p + 1 \in 0..Chunks
    <2>1. Chunks \in Nat BY UploadTypes, Zenon
    <2>2. p < wire[1].n BY <1>2, <1>p, Zenon DEF UploadInv, Offsets
    <2> QED BY <1>2, <2>1, <2>2
  <1>3. /\ writer' \in [Upload -> [open : BOOLEAN, file : Upload \cup {NoUpload}, pos : 0..Chunks]]
        /\ writer'[u].open /\ writer'[u].file = writer[u].file /\ writer'[u].pos = p + 1
        /\ \A v \in Upload \ {u} : writer'[v] = writer[v]
    <2>1. writer \in [Upload -> [open : BOOLEAN, file : Upload \cup {NoUpload}, pos : 0..Chunks]] BY UploadTypes, Zenon
    <2>2. writer' = [writer EXCEPT ![u].pos = p + 1] BY <1>p, Zenon
    <2> QED BY <1>n, <2>1, <2>2
  <1>4. NotStarted' /\ LinkDown' /\ OpenIsFirst' /\ Offsets' BY <1>3, <1>p, FrameReadPreserves, Zenon
  <1>5. UploadTypeOK'
    <2> DEFINE S == Chunk \cup {Hole}
    <2>1. data \in [Upload -> Seq(S)] BY UploadTypes, Zenon
    <2>2. <<u, wire[1].n>> \in S /\ Hole \in S BY <1>n, Zenon DEF Chunk
    <2>3. data[f] \in Seq(S) BY <2>1, Zenon
    <2>4. Put(data[f], p + 1, <<u, wire[1].n>>) \in Seq(S)
      <3> HIDE DEF S
      <3>1. p + 1 \in Nat \ {0} OBVIOUS
      <3> QED BY <2>2, <2>3, <3>1, PutType, Zenon
    <2>5. data' = [data EXCEPT ![f] = Put(data[f], p + 1, <<u, wire[1].n>>)] BY <1>2, <1>f, <1>p, Zenon
    <2>6. data' \in [Upload -> Seq(S)] BY <2>1, <2>4, <2>5, Zenon
    <2> QED BY <1>2, <1>3, <2>6, Zenon DEF UploadInv, UploadTypeOK, OutFrame
  <1>6. Undisturbed'
    <2>1. \A v \in Upload : Alone(v)' => Alone(v) /\ v = u BY <1>2, Zenon DEF Alone
    <2>2. ASSUME Alone(u)
          PROVE  /\ SoleWriter(u)' /\ SoleSuccess(u)'
                 /\ (\E i \in 1..Len(wire') : wire'[i].what = "open") => tmp = NoUpload
      <3>0. /\ SoleWriter(u) /\ SoleSuccess(u)
            /\ (\E i \in 1..Len(wire) : wire[i].what = "open") => tmp = NoUpload
        BY <2>2, Zenon DEF UploadInv, Undisturbed
      <3>1. /\ f = u /\ tmp = u /\ data[u] = [i \in 1..p |-> <<u, i>>]
            /\ \A i \in 1..Len(wire) :
                  \/ wire[i].what = "data" /\ wire[i].n = p + i
                  \/ wire[i].what = "eof" /\ p + i = Chunks + 1
            /\ upload[u].at \in {"asking", "sending"} => upload[u].sent = p + Len(wire)
        BY <1>f, <1>p, <3>0, Zenon DEF SoleWriter
      <3>2. wire[1].n = p + 1 BY <1>2, <3>1, Zenon
      <3>3. data'[u] = [i \in 1..(p + 1) |-> <<u, i>>]
        <4>1. data'[u] = Put(data[u], p + 1, <<u, p + 1>>) BY <1>2, <1>f, <1>p, <3>1, <3>2, UploadTypes, Zenon
        <4> QED BY <3>1, <4>1, PutNext
      <3>4. ASSUME NEW i \in 1..Len(wire')
            PROVE  \/ wire'[i].what = "data" /\ wire'[i].n = (p + 1) + i
                   \/ wire'[i].what = "eof" /\ (p + 1) + i = Chunks + 1
        <4>1. i + 1 \in 1..Len(wire) /\ wire'[i] = wire[i + 1] BY <1>2, Zenon
        <4>2. i \in Nat BY <1>2
        <4>3. p + (i + 1) = (p + 1) + i BY <4>2, ShiftOne, Zenon
        <4> QED BY <3>1, <4>1, <4>3, Zenon
      <3>5. upload[u].at \in {"asking", "sending"} => upload[u].sent = (p + 1) + Len(wire')
        <4>1. (p + 1) + Len(wire') = p + (Len(wire') + 1) BY <1>2, ShiftOne, Zenon
        <4>2. Len(wire) = Len(wire') + 1 BY <1>2, Zenon
        <4> QED BY <3>1, <4>1, <4>2, Zenon
      <3>6. SoleWriter(u)'
        <4>1. writer'[u].file = u /\ tmp' = u BY <1>3, <1>f, <3>1, Zenon
        <4>2. data'[u] = [i \in 1..writer'[u].pos |-> <<u, i>>] BY <1>3, <3>3, Zenon
        <4>3. \A i \in 1..Len(wire') :
                 \/ wire'[i].what = "data" /\ wire'[i].n = writer'[u].pos + i
                 \/ wire'[i].what = "eof" /\ writer'[u].pos + i = Chunks + 1
          BY <1>3, <3>4
        <4>4. upload'[u].at \in {"asking", "sending"} => upload'[u].sent = writer'[u].pos + Len(wire')
          BY <1>3, <3>5, Zenon
        <4> QED BY <4>1, <4>2, <4>3, <4>4, Zenon DEF SoleWriter
      <3>7. SoleSuccess(u)' BY <3>0, Zenon DEF SoleSuccess
      <3> QED BY <1>2, <3>0, <3>6, <3>7, Zenon
    <2> QED BY <1>2, <2>1, <2>2, Zenon DEF Undisturbed
  <1> QED BY <1>4, <1>5, <1>6, Zenon DEF UploadInv

\* The writer is closed, or was not open: by the EOF marker, or by an error.
LEMMA UploadClosePreserves ==
    ASSUME UploadInv, NEW u \in Upload, NEW what \in {"data", "eof"}, Received(u, what),
           writer' = [writer EXCEPT ![u] = ClosedWriter] \/ (~writer[u].open /\ UNCHANGED <<writer, tmp, target>>),
           tmp' \in {tmp, NoUpload}, target' \in {target, tmp} \cap (Upload \cup {NoUpload}),
           writer[u].open => tmp' = NoUpload,
           ~writer[u].open => UNCHANGED <<tmp, target, result>>,
           \/ result' = result
           \/ result' = [result EXCEPT ![u] = "error"]
           \/ what = "eof" /\ target' = tmp /\ result' = [result EXCEPT ![u] = "success"],
           UNCHANGED <<data, upload, ready, link, losses>>
    PROVE  UploadInv'
  <1>2. /\ wire' \in Seq(OutFrame) /\ Len(wire) \in Nat
        /\ 1 \in 1..Len(wire) /\ wire[1].u = u /\ wire[1].what = what
        /\ \A i \in 1..Len(wire') : i + 1 \in 1..Len(wire) /\ wire'[i] = wire[i + 1]
        /\ upload[u].at # "idle"
        /\ \A v \in Upload : Alone(v) => v = u
    BY FrameRead, Zenon
  <1>3. /\ writer' \in [Upload -> [open : BOOLEAN, file : Upload \cup {NoUpload}, pos : 0..Chunks]]
        /\ ~writer'[u].open /\ writer'[u].pos \in {0, writer[u].pos}
        /\ \A v \in Upload \ {u} : writer'[v] = writer[v]
    <2>1. /\ writer \in [Upload -> [open : BOOLEAN, file : Upload \cup {NoUpload}, pos : 0..Chunks]]
          /\ 0 \in 0..Chunks
      BY UploadTypes
    <2>2. ClosedWriter \in [open : BOOLEAN, file : Upload \cup {NoUpload}, pos : 0..Chunks] /\ ~ClosedWriter.open /\ ClosedWriter.pos = 0
      BY <2>1, Zenon DEF ClosedWriter
    <2> QED BY <2>1, <2>2, Zenon
  <1>4. result' \in [Upload -> Answer] /\ \A v \in Upload \ {u} : result'[v] = result[v]
    BY UploadTypes, Zenon DEF Answer
  <1>5. NotStarted' /\ LinkDown' /\ OpenIsFirst' /\ Offsets' BY <1>3, <1>4, FrameReadPreserves
  <1>6. UploadTypeOK' BY <1>2, <1>3, <1>4, Zenon DEF UploadInv, UploadTypeOK, OutFrame
  <1>7. Undisturbed'
    <2>1. \A v \in Upload : Alone(v)' => Alone(v) /\ v = u BY <1>2, Zenon DEF Alone
    <2>2. ASSUME Alone(u)
          PROVE  /\ SoleWriter(u)' /\ SoleSuccess(u)'
                 /\ (\E i \in 1..Len(wire') : wire'[i].what = "open") => tmp' = NoUpload
      <3>0. /\ SoleWriter(u) /\ SoleSuccess(u)
            /\ (\E i \in 1..Len(wire) : wire[i].what = "open") => tmp = NoUpload
        BY <2>2, Zenon DEF UploadInv, Undisturbed
      <3>1. SoleWriter(u)' BY <1>3, Zenon DEF SoleWriter
      <3>2. CASE ~writer[u].open
        <4>1. SoleSuccess(u)' BY <1>3, <3>0, <3>2, Zenon DEF SoleSuccess
        <4> QED BY <1>2, <3>0, <3>1, <3>2, <4>1, Zenon
      <3>3. CASE writer[u].open
        <4>1. result[u] # "success" /\ upload[u].at # "confirmed" BY <3>0, <3>3, Zenon DEF SoleSuccess
        <4>2. ASSUME result'[u] = "success" PROVE target' = u /\ data[u] = Whole(u)
          <5>1. what = "eof" /\ target' = tmp BY <4>1, <4>2, UploadTypes, Zenon
          <5>2. tmp = u /\ data[u] = [i \in 1..writer[u].pos |-> <<u, i>>] /\ writer[u].pos + 1 = Chunks + 1
            BY <1>2, <3>0, <3>3, <5>1, Zenon DEF SoleWriter
          <5>3. writer[u].pos = Chunks
            <6>1. writer[u].pos \in Nat /\ Chunks \in Nat BY UploadTypes
            <6> QED BY <5>2, <6>1, SMTT(30)
          <5> QED BY <5>1, <5>2, <5>3, Zenon DEF Whole
        <4>3. SoleSuccess(u)' BY <1>3, <4>1, <4>2, Zenon DEF SoleSuccess, Whole
        <4> QED BY <3>1, <3>3, <4>3, Zenon
      <3> QED BY <3>2, <3>3, Zenon
    <2> QED BY <1>2, <2>1, <2>2, Zenon DEF Undisturbed
  <1> QED BY <1>5, <1>6, <1>7, Zenon DEF UploadInv

\* handleFileBinaryFrame.
LEMMA AgentWritePreserves ==
    ASSUME UploadInv, NEW u \in Upload, AgentWrite(u) \/ AgentEof(u)
    PROVE  UploadInv'
  <1>0. tmp \in Upload \cup {NoUpload} /\ target \in Upload \cup {NoUpload} BY Zenon DEF UploadInv, UploadTypeOK
  <1>1. CASE AgentWrite(u)
    <2>1. Received(u, "data") /\ UNCHANGED <<upload, ready, result, link, losses>> BY <1>1, Zenon DEF AgentWrite
    <2>2. CASE /\ writer[u].open
               /\ data' = [data EXCEPT ![writer[u].file] = Put(@, writer[u].pos + 1, <<u, Head(wire).n>>)]
               /\ writer' = [writer EXCEPT ![u].pos = @ + 1]
               /\ UNCHANGED <<tmp, target>>
      BY <2>1, <2>2, ChunkPreserves, Zenon
    <2>3. CASE writer[u].open /\ Rename(u) /\ UNCHANGED data
      BY <1>0, <2>1, <2>3, UploadClosePreserves, Zenon DEF Rename
    <2>4. CASE ~writer[u].open /\ UNCHANGED <<tmp, target, writer, data>>
      BY <1>0, <2>1, <2>4, UploadClosePreserves, Zenon
    <2> QED BY <1>1, <2>2, <2>3, <2>4, Zenon DEF AgentWrite
  <1>2. CASE AgentEof(u)
    <2>1. Received(u, "eof") /\ UNCHANGED <<upload, ready, data, link, losses>> BY <1>2, Zenon DEF AgentEof
    <2>2. CASE writer[u].open /\ Rename(u) /\ result' = [result EXCEPT ![u] = IF tmp = NoUpload THEN "error" ELSE "success"]
      BY <1>0, <2>1, <2>2, UploadClosePreserves, Zenon DEF Rename
    <2>3. CASE /\ writer[u].open
               /\ writer' = [writer EXCEPT ![u] = ClosedWriter] /\ tmp' = NoUpload /\ UNCHANGED target
               /\ result' = [result EXCEPT ![u] = "error"]
      BY <1>0, <2>1, <2>3, UploadClosePreserves, Zenon
    <2>4. CASE ~writer[u].open /\ UNCHANGED <<tmp, target, writer, result>>
      BY <1>0, <2>1, <2>4, UploadClosePreserves, Zenon
    <2> QED BY <1>2, <2>2, <2>3, <2>4, Zenon DEF AgentEof
  <1> QED BY <1>1, <1>2, Zenon

\* The connection ends or is there again.
LEMMA LinkPreserves ==
    ASSUME UploadInv, LinkLost \/ LinkBack
    PROVE  UploadInv'
  <1>1. CASE LinkBack
    <2>1. UNCHANGED <<upload, wire, ready, result, writer, tmp, target, data, losses>> /\ link' = TRUE
      BY <1>1, Zenon DEF LinkBack
    <2>2. UploadTypeOK' /\ LinkDown' BY <2>1, Zenon DEF UploadInv, UploadTypeOK, LinkDown
    <2>3. NotStarted' /\ OpenIsFirst' /\ Offsets'
      BY <2>1, ZenonT(30) DEF UploadInv, NotStarted, OpenIsFirst, Offsets
    <2>4. Undisturbed' BY <2>1, ZenonT(30) DEF UploadInv, Undisturbed, Alone, SoleWriter, SoleSuccess
    <2> QED BY <2>2, <2>3, <2>4, Zenon DEF UploadInv
  <1>2. CASE LinkLost
    <2>1. /\ link' = FALSE /\ wire' = <<>> /\ ready' = NoAnswers /\ result' = NoAnswers
          /\ writer' = [u \in Upload |-> ClosedWriter] /\ UNCHANGED <<upload, data>>
          /\ losses' = losses + 1 /\ losses < MaxLinkLoss
          /\ tmp' \in {tmp, NoUpload} /\ target' \in {tmp, target} \cap (Upload \cup {NoUpload})
          /\ (\A u \in Upload : ~writer[u].open) => UNCHANGED <<tmp, target>>
      BY <1>2, Zenon DEF LinkLost, UploadInv, UploadTypeOK
    <2>2. Len(wire') = 0 /\ wire' \in Seq(OutFrame) BY <2>1
    <2>3. \A u \in Upload : ~writer'[u].open /\ writer'[u].pos = 0 /\ ready'[u] = "none" /\ result'[u] = "none"
      BY <2>1, Zenon DEF ClosedWriter, NoAnswers
    <2>4. UploadTypeOK'
      <3>1. writer' \in [Upload -> [open : BOOLEAN, file : Upload \cup {NoUpload}, pos : 0..Chunks]]
        BY <2>1, UploadAssumption DEF ClosedWriter
      <3>2. losses' \in 0..MaxLinkLoss BY <2>1, UploadAssumption DEF UploadInv, UploadTypeOK
      <3>3. ready' \in [Upload -> Answer] /\ result' \in [Upload -> Answer] BY <2>1, Zenon DEF NoAnswers, Answer
      <3> QED BY <2>1, <2>2, <3>1, <3>2, <3>3, Zenon DEF UploadInv, UploadTypeOK, OutFrame
    <2>5. NotStarted' /\ LinkDown' BY <2>1, <2>2, <2>3 DEF NotStarted, LinkDown
    <2>6. OpenIsFirst' BY <2>1, <2>2 DEF UploadInv, OpenIsFirst
    <2>7. Offsets' BY <2>1, <2>2, <2>3, UploadTypes DEF Offsets
    <2>8. Undisturbed'
      <3>1. (\A u \in Upload : upload[u].at = "idle") => tmp' = NoUpload BY <2>1, Zenon DEF UploadInv, Undisturbed
      <3>2. ASSUME NEW u \in Upload, Alone(u), upload[u].at = "confirmed" PROVE target' = u /\ data[u] = Whole(u)
        <4>1. ~writer[u].open /\ target = u /\ data[u] = Whole(u)
          BY <3>2, Zenon DEF UploadInv, Undisturbed, SoleSuccess
        <4>2. \A v \in Upload : ~writer[v].open BY <3>2, <4>1, Zenon DEF UploadInv, NotStarted, Alone
        <4> QED BY <2>1, <4>1, <4>2, Zenon
      <3>3. \A u \in Upload : Alone(u) => SoleWriter(u)' /\ SoleSuccess(u)'
        BY <2>1, <2>3, <3>2, Zenon DEF SoleWriter, SoleSuccess, Whole
      <3>4. \A u \in Upload : Alone(u)' => Alone(u) BY <2>1, Zenon DEF Alone
      <3> QED BY <2>1, <2>2, <3>1, <3>3, <3>4 DEF Undisturbed
    <2> QED BY <2>4, <2>5, <2>6, <2>7, <2>8, Zenon DEF UploadInv
  <1> QED BY <1>1, <1>2, Zenon

\* The handler's other steps.
LEMMA HandlerStepPreserves ==
    ASSUME UploadInv, NEW u \in Upload,
           UploadAnswered(u) \/ UploadBodyFails(u) \/ UploadWait(u) \/ UploadResult(u) \/ UploadTimeout(u)
    PROVE  UploadInv'
  <1> USE DEF HandlerState
  <1>1. CASE UploadAnswered(u)
    <2>1. PICK a \in {"sending", "failed"} : upload' = [upload EXCEPT ![u].at = a]
      BY <1>1, Zenon DEF UploadAnswered, UploadAt
    <2> QED BY <1>1, <2>1, HandlerMovePreserves, Zenon DEF UploadAnswered
  <1>2. CASE UploadBodyFails(u) BY <1>2, HandlerMovePreserves, Zenon DEF UploadBodyFails, UploadAt
  <1>3. CASE UploadWait(u)
    <2>1. PICK a \in {"waiting", "failed"} : upload' = [upload EXCEPT ![u].at = a] BY <1>3, Zenon DEF UploadWait, UploadAt
    <2> QED BY <1>3, <2>1, HandlerMovePreserves, Zenon DEF UploadWait
  <1>4. CASE UploadTimeout(u) BY <1>4, HandlerMovePreserves, Zenon DEF UploadTimeout, UploadAt
  <1>5. CASE UploadResult(u)
    <2>1. /\ result[u] # "none" /\ result' = [result EXCEPT ![u] = "none"]
          /\ UNCHANGED <<wire, ready, writer, tmp, target, data, link, losses>>
      BY <1>5, Zenon DEF UploadResult
    <2>2. upload[u].at # "idle" BY <2>1, Zenon DEF UploadInv, NotStarted
    <2>3. CASE upload[u].at = "waiting"
      <3>1. PICK a \in {"confirmed", "failed"} :
               upload' = [upload EXCEPT ![u].at = a] /\ (a = "confirmed" => result[u] = "success")
        BY <1>5, <2>3, Zenon DEF UploadResult, UploadAt
      <3> QED BY <2>1, <2>2, <2>3, <3>1, HandlerMovePreserves, Zenon
    <2>4. CASE upload[u].at # "waiting"
      <3>1. upload' = upload BY <1>5, <2>4, Zenon DEF UploadResult
      <3>2. upload' = [upload EXCEPT ![u].at = upload[u].at] BY <3>1, UploadTypes, Zenon
      <3> QED BY <2>1, <2>2, <3>2, UploadTypes, HandlerMovePreserves, Zenon
    <2> QED BY <2>3, <2>4, Zenon
  <1> QED BY <1>1, <1>2, <1>3, <1>4, <1>5, Zenon

\* The invariant of the upload holds in every state.
LEMMA UploadInvariant == UploadSpec => []UploadInv
  <1>1. UploadInv /\ [UploadNext]_uploadVars => UploadInv'
    <2> SUFFICES ASSUME UploadInv, [UploadNext]_uploadVars PROVE UploadInv' BY Zenon
    <2>1. CASE UNCHANGED uploadVars
      <3>1. UNCHANGED <<upload, wire, ready, result, writer, tmp, target, data, link, losses>>
        BY <2>1, Zenon DEF uploadVars
      <3>2. UploadTypeOK' /\ LinkDown' BY <3>1, Zenon DEF UploadInv, UploadTypeOK, LinkDown
      <3>3. NotStarted' /\ OpenIsFirst' /\ Offsets'
        BY <3>1, ZenonT(30) DEF UploadInv, NotStarted, OpenIsFirst, Offsets
      <3>4. Undisturbed' BY <3>1, ZenonT(30) DEF UploadInv, Undisturbed, Alone, SoleWriter, SoleSuccess
      <3> QED BY <3>2, <3>3, <3>4, Zenon DEF UploadInv
    <2> QED
      BY <2>1, HandlerStepPreserves, HandlerWritePreserves, UploadOpenPreserves, AgentWritePreserves, LinkPreserves, Zenon
            DEF UploadNext
  <1> QED BY <1>1, UploadInitially, PTL DEF UploadSpec

\* handleFilesUpload answers "ok": the file on the device is the request's body, when
\* no other upload to the path was started; for every number of chunks, through write
\* errors, lost connections and results that come before anyone waits for them.
THEOREM ConfirmedUploadIsWhole == UploadSpec => []ConfirmedIsWhole
  <1>1. UploadInv => ConfirmedIsWhole
    <2> SUFFICES ASSUME UploadInv, NEW u \in Upload, upload[u].at = "confirmed", Alone(u)
                 PROVE  target # NoUpload /\ data[target] = Whole(u)
      BY Zenon DEF ConfirmedIsWhole, Alone
    <2>1. SoleSuccess(u) BY Zenon DEF UploadInv, Undisturbed
    <2> QED BY <2>1, UploadAssumption, Zenon DEF SoleSuccess
  <1> QED BY <1>1, UploadInvariant, PTL
=============================================================================
