-------------------------- MODULE RequestProofs ---------------------------
(***************************************************************************)
(* Downloads and device commands, for any length of the file and any       *)
(* number of requests, lost connections and late results.                  *)
(*                                                                         *)
(* Download.  The browser gets the file, for any length of it.  What the   *)
(* browser has, what waits in the channel, what is on the connection and   *)
(* what the agent sends next are one sequence of frames.  Two facts about  *)
(* it are inductive: it is always increasing up to the end mark            *)
(* (FramesInOrder), and as long as nothing was dropped it is the file      *)
(* itself (Unbroken): the frame in position k is chunk k, or the end mark  *)
(* when there is no chunk k.                                               *)
(*                                                                         *)
(* Commands.  A command is at any time in at most one place: on its way to *)
(* the agent, in the read loop, or left behind by a lost connection; and   *)
(* while it is in one of them it has had no effect and there is no result  *)
(* for it.  So it takes effect at most once, and a result that says so     *)
(* exists only after it did.                                               *)
(***************************************************************************)
EXTENDS Integers, FileDownload, DeviceCommand, TLAPS

\* What is sent comes behind what is on its way.
LEMMA AppendBehind ==
    ASSUME NEW S, NEW q \in Seq(S), NEW e \in S
    PROVE  /\ Append(q, e) \in Seq(S) /\ Len(q) \in Nat /\ Len(Append(q, e)) = Len(q) + 1
           /\ Append(q, e)[Len(q) + 1] = e
           /\ \A i \in 1..Len(q) : Append(q, e)[i] = q[i]
  OBVIOUS

\* What is read leaves the rest, each one place further up.
LEMMA TakeFirst ==
    ASSUME NEW S, NEW q \in Seq(S), q # <<>>
    PROVE  /\ Head(q) = q[1] /\ Head(q) \in S /\ 1 \in 1..Len(q) /\ Len(q) \in Nat
           /\ Tail(q) \in Seq(S) /\ Len(Tail(q)) = Len(q) - 1
           /\ \A i \in 1..Len(Tail(q)) : i + 1 \in 1..Len(q) /\ Tail(q)[i] = q[i + 1]
  OBVIOUS

----------------------------------------------------------------------------
(* Download: the inductive invariant *)

Inbound == [kind : {"ready", "refused"}, n : {0}] \cup [kind : {"data"}, n : 0..FileChunks]

\* One command, one answer in front of the frames; nothing moves before the agent has
\* read the command.
OneAnswer ==
    /\ download = "idle" => ~asked
    /\ download = "idle" \/ asked => inbound = <<>> /\ pump = 0 /\ channel = <<>> /\ saved = <<>>
    /\ \A i \in 1..Len(inbound) : inbound[i].kind # "data" => i = 1

\* The end mark, or a later chunk.
Before(x, y) == y = 0 \/ x < y

\* What is saved, in the channel and on the connection comes in the file's order, and
\* before what the agent sends next.
FramesInOrder ==
    /\ \A i, j \in 1..Len(saved) : i < j => saved[i] < saved[j]
    /\ \A i, j \in 1..Len(channel) : i < j => Before(channel[i], channel[j])
    /\ \A i, j \in 1..Len(inbound) : i < j => Before(inbound[i].n, inbound[j].n)
    /\ \A i \in 1..Len(saved), j \in 1..Len(channel) : Before(saved[i], channel[j])
    /\ \A i \in 1..Len(saved), j \in 1..Len(inbound) : Before(saved[i], inbound[j].n)
    /\ \A i \in 1..Len(channel), j \in 1..Len(inbound) : Before(channel[i], inbound[j].n)
    /\ \A i \in 1..Len(saved) : Before(saved[i], pump)
    /\ \A i \in 1..Len(channel) : Before(channel[i], pump)
    /\ \A i \in 1..Len(inbound) : Before(inbound[i].n, pump)

\* The frame in position k of an undisturbed download.
FrameAt(k) == IF k <= FileChunks THEN k ELSE 0

\* 1 when the answer is still in front of the frames on the connection.
Ahead == IF \E i \in 1..Len(inbound) : inbound[i].kind # "data" THEN 1 ELSE 0

Unbroken ==
    Routed /\ ~lost =>
        /\ \A i \in 1..Len(saved) : saved[i] = i
        /\ \A i \in 1..Len(channel) : channel[i] = FrameAt(Len(saved) + i)
        /\ \A i \in 1..Len(inbound) :
              inbound[i].kind = "data" => inbound[i].n = FrameAt(Len(saved) + Len(channel) + i - Ahead)
        /\ pump > 0 => pump = Len(saved) + Len(channel) + Len(inbound) - Ahead + 1

DownloadInv == DownloadTypeOK /\ OneAnswer /\ FramesInOrder /\ Unbroken /\ DownloadFaithful

\* Nothing is asked for at first.
LEMMA DownloadInitially == DownloadInit => DownloadInv
  <1> SUFFICES ASSUME DownloadInit PROVE DownloadInv BY Zenon
  <1> USE DownloadAssumption DEF DownloadInit
  <1>1. Len(inbound) = 0 /\ Len(channel) = 0 /\ Len(saved) = 0 BY Zenon
  <1>2. DownloadTypeOK
    <2>1. inbound \in Seq(Inbound) /\ channel \in Seq(0..FileChunks) /\ saved \in Seq(1..FileChunks) OBVIOUS
    <2>2. 0 \in 0..FileChunks + 1 /\ Len(channel) <= ChannelSize BY <1>1
    <2> QED BY <2>1, <2>2, Zenon DEF DownloadTypeOK, Inbound
  <1>3. OneAnswer /\ FramesInOrder BY <1>1 DEF OneAnswer, FramesInOrder
  <1>4. Unbroken /\ DownloadFaithful BY <1>1 DEF Unbroken, Routed, DownloadFaithful
  <1> QED BY <1>2, <1>3, <1>4, Zenon DEF DownloadInv

\* The elements of the three sequences, and the numbers the agent counts with.
LEMMA DownloadTypes ==
    ASSUME DownloadInv
    PROVE  /\ FileChunks \in Nat /\ ChannelSize \in Nat \ {0} /\ pump \in 0..FileChunks + 1 /\ pump \in Nat
           /\ inbound \in Seq(Inbound) /\ channel \in Seq(0..FileChunks) /\ saved \in Seq(1..FileChunks)
           /\ Len(inbound) \in Nat /\ Len(channel) \in Nat /\ Len(saved) \in Nat
           /\ \A i \in 1..Len(inbound) : inbound[i] \in Inbound /\ inbound[i].n \in 0..FileChunks
           /\ \A i \in 1..Len(channel) : channel[i] \in 0..FileChunks
           /\ \A i \in 1..Len(saved) : saved[i] \in 1..FileChunks
           /\ Ahead \in {0, 1}
  <1> USE DownloadAssumption DEF DownloadInv, DownloadTypeOK
  <1>1. inbound \in Seq(Inbound) BY Zenon DEF Inbound
  <1>2. \A i \in 1..Len(inbound) : inbound[i] \in Inbound BY <1>1
  <1>3. \A m \in Inbound : m.n \in 0..FileChunks BY DEF Inbound
  <1> QED BY <1>1, <1>2, <1>3, SMTT(30) DEF Ahead

\* handleFilesDownload's steps that touch no frame.
LEMMA HandlerPreserves ==
    ASSUME DownloadInv, UNCHANGED <<pump, inbound, channel, saved, lost>>,
           \/ DownloadStart \/ DownloadFails \/ DownloadBegins \/ DownloadGivesUp
    PROVE  DownloadInv'
  <1> USE DownloadAssumption DEF DownloadInv
  <1>1. /\ download' \in {"asking", "failed", "streaming"} /\ asked' \in BOOLEAN
        /\ Routed' => Routed \/ download = "idle"
        /\ asked' => asked \/ download = "idle"
    <2> USE DEF Routed, DownloadTypeOK
    <2>1. CASE DownloadStart BY <2>1, Zenon DEF DownloadStart
    <2>2. CASE DownloadFails BY <2>2, Zenon DEF DownloadFails
    <2>3. CASE DownloadBegins BY <2>3, Zenon DEF DownloadBegins
    <2>4. CASE DownloadGivesUp BY <2>4, Zenon DEF DownloadGivesUp
    <2> QED BY <2>1, <2>2, <2>3, <2>4, Zenon
  <1>2. DownloadTypeOK' BY <1>1, Zenon DEF DownloadTypeOK
  <1>3. OneAnswer' BY <1>1, Zenon DEF OneAnswer
  <1>4. FramesInOrder' BY Zenon DEF FramesInOrder
  <1>5. Unbroken'
    <2>1. CASE download = "idle"
      <3>1. pump = 0 /\ Len(inbound) = 0 /\ Len(channel) = 0 /\ Len(saved) = 0 BY <2>1, Zenon DEF OneAnswer
      <3> QED BY <3>1, SMTT(30) DEF Unbroken
    <2>2. CASE download # "idle" BY <1>1, <2>2, Zenon DEF Unbroken, Ahead
    <2> QED BY <2>1, <2>2, Zenon
  <1>6. DownloadFaithful' BY <1>1, Zenon DEF DownloadFaithful
  <1> QED BY <1>2, <1>3, <1>4, <1>5, <1>6, Zenon

\* A frame or the answer goes behind what is on the connection.  What it must satisfy
\* for the invariant to hold again is the lemma's hypotheses.
LEMMA EnqueuePreserves ==
    ASSUME DownloadInv, NEW m \in Inbound, inbound' = Append(inbound, m),
           UNCHANGED <<download, channel, saved>>, download # "idle",
           asked' = FALSE, pump' \in 0..FileChunks + 1, lost' \in BOOLEAN, lost => lost',
           IF m.kind = "data"
           THEN /\ pump > 0 /\ m.n \in {0, pump} /\ pump' \in {0, pump + 1}
                /\ ~lost' => m.n = FrameAt(pump)
           ELSE /\ inbound = <<>> /\ channel = <<>> /\ saved = <<>>
                /\ pump' \in {0, 1}
    PROVE  DownloadInv'
  <1>1. /\ Len(inbound') = Len(inbound) + 1 /\ inbound'[Len(inbound) + 1] = m
        /\ \A i \in 1..Len(inbound) : inbound'[i] = inbound[i]
        /\ inbound' \in Seq(Inbound)
    BY DownloadTypes, AppendBehind
  <1>2. m.n \in 0..FileChunks /\ m.n \in Nat /\ pump' \in Nat BY DownloadTypes DEF Inbound
  <1>3. \A i \in 1..Len(inbound') : i \in 1..Len(inbound) \/ (i = Len(inbound) + 1 /\ inbound'[i] = m)
    BY <1>1, DownloadTypes
  <1>4. DownloadTypeOK' BY <1>1, Zenon DEF DownloadInv, DownloadTypeOK, Inbound
  <1>5. OneAnswer' BY <1>1, <1>3 DEF DownloadInv, OneAnswer
  <1>6. FramesInOrder'
    <2>1. CASE m.kind = "data"
      <3>1. \A x \in Nat : Before(x, pump) => Before(x, m.n) /\ Before(x, pump')
        BY <1>2, <2>1, DownloadTypes DEF Before
      <3>2. /\ \A i \in 1..Len(saved) : Before(saved[i], m.n) /\ Before(saved[i], pump')
            /\ \A i \in 1..Len(channel) : Before(channel[i], m.n) /\ Before(channel[i], pump')
            /\ \A i \in 1..Len(inbound) : Before(inbound[i].n, m.n) /\ Before(inbound[i].n, pump')
            /\ Before(m.n, pump')
        <4>1. \A i \in 1..Len(saved) : saved[i] \in Nat BY DownloadTypes, SMTT(30)
        <4>2. \A i \in 1..Len(channel) : channel[i] \in Nat BY DownloadTypes, SMTT(30)
        <4>3. \A i \in 1..Len(inbound) : inbound[i].n \in Nat BY DownloadTypes, SMTT(30)
        <4>4. Before(m.n, pump') BY <1>2, <2>1, DownloadTypes, SMTT(30) DEF Before
        <4> QED BY <3>1, <4>1, <4>2, <4>3, <4>4, Zenon DEF DownloadInv, FramesInOrder
      <3> HIDE DEF Before
      <3>3. \A i, j \in 1..Len(inbound') : i < j => Before(inbound'[i].n, inbound'[j].n)
        <4> SUFFICES ASSUME NEW i \in 1..Len(inbound'), NEW j \in 1..Len(inbound'), i < j
                     PROVE  Before(inbound'[i].n, inbound'[j].n)
          BY Zenon
        <4>1. i \in 1..Len(inbound) BY <1>1, DownloadTypes
        <4> QED BY <1>1, <1>3, <3>2, <4>1, Zenon DEF DownloadInv, FramesInOrder
      <3>4. \A i \in 1..Len(saved), j \in 1..Len(inbound') : Before(saved[i], inbound'[j].n)
        BY <1>1, <1>3, <3>2, Zenon DEF DownloadInv, FramesInOrder
      <3>5. \A i \in 1..Len(channel), j \in 1..Len(inbound') : Before(channel[i], inbound'[j].n)
        BY <1>1, <1>3, <3>2, Zenon DEF DownloadInv, FramesInOrder
      <3>6. \A i \in 1..Len(inbound') : Before(inbound'[i].n, pump')
        BY <1>1, <1>3, <3>2, Zenon
      <3> QED BY <3>2, <3>3, <3>4, <3>5, <3>6, Zenon DEF DownloadInv, FramesInOrder
    <2>2. CASE m.kind # "data"
      <3>1. Len(inbound') = 1 /\ inbound'[1] = m /\ m.n = 0 /\ Len(channel) = 0 /\ Len(saved) = 0
        BY <1>1, <2>2 DEF Inbound
      <3> QED BY <1>2, <2>2, <3>1 DEF FramesInOrder, Before
    <2> QED BY <2>1, <2>2, Zenon
  <1>7. Unbroken'
    <2>1. CASE m.kind = "data"
      <3>1. Ahead' = Ahead BY <1>1, <1>3, <2>1 DEF Ahead
      <3>2. SUFFICES ASSUME Routed, ~lost' PROVE Unbroken' BY Zenon DEF Unbroken, Routed
      <3>3. pump = Len(saved) + Len(channel) + Len(inbound) - Ahead + 1 BY <2>1, <3>2, Zenon DEF DownloadInv, Unbroken
      <3>n. Len(saved) \in Nat /\ Len(channel) \in Nat /\ Len(inbound) \in Nat /\ Ahead \in Int /\ pump \in Nat
        BY DownloadTypes
      <3>4. m.n = FrameAt(Len(saved) + Len(channel) + (Len(inbound) + 1) - Ahead)
        <4>1. pump = Len(saved) + Len(channel) + (Len(inbound) + 1) - Ahead BY <3>3, <3>n
        <4> QED BY <2>1, <3>2, <4>1, Zenon
      <3>5. pump' > 0 => pump' = Len(saved) + Len(channel) + Len(inbound') - Ahead + 1
        BY <1>1, <2>1, <3>3, <3>n
      <3> QED BY <1>1, <1>3, <3>1, <3>2, <3>4, <3>5 DEF DownloadInv, Unbroken
    <2>2. CASE m.kind # "data"
      <3>1. Len(inbound') = 1 /\ inbound'[1] = m /\ Len(channel) = 0 /\ Len(saved) = 0
        BY <1>1, <2>2
      <3>2. Ahead' = 1 BY <2>2, <3>1 DEF Ahead
      <3> QED BY <1>2, <2>2, <3>1, <3>2 DEF Unbroken
    <2> QED BY <2>1, <2>2, Zenon
  <1>8. DownloadFaithful'
    <2>1. \A i, j \in 1..Len(saved) : i < j => saved[i] < saved[j] BY Zenon DEF DownloadInv, FramesInOrder
    <2> QED BY <2>1, Zenon DEF DownloadInv, DownloadFaithful
  <1> QED BY <1>4, <1>5, <1>6, <1>7, <1>8, Zenon DEF DownloadInv

\* CmdFilesDownload and pumpFileDownload.
LEMMA AgentPreserves ==
    ASSUME DownloadInv, AgentReads \/ PumpFrame
    PROVE  DownloadInv'
  <1> USE DownloadAssumption
  <1>1. CASE AgentReads
    <2>1. PICK k \in {"ready", "refused"} :
             /\ inbound' = Append(inbound, [kind |-> k, n |-> 0])
             /\ pump' \in {1, pump}
      BY <1>1, Zenon DEF AgentReads
    <2>2. /\ asked /\ asked' = FALSE /\ UNCHANGED <<download, channel, saved, lost>> BY <1>1, Zenon DEF AgentReads
    <2>3. /\ download # "idle" /\ inbound = <<>> /\ channel = <<>> /\ saved = <<>> /\ pump = 0 /\ lost \in BOOLEAN
      BY <2>2, Zenon DEF DownloadInv, OneAnswer, DownloadTypeOK
    <2>4. PICK m \in Inbound : m = [kind |-> k, n |-> 0] BY Zenon DEF Inbound
    <2>5. pump' \in {0, 1} /\ pump' \in 0..FileChunks + 1 BY <2>1, <2>3
    <2>6. m.kind # "data" BY <2>4, Zenon
    <2> QED BY <2>1, <2>2, <2>3, <2>4, <2>5, <2>6, EnqueuePreserves, Zenon
  <1>2. CASE PumpFrame
    <2>1. pump > 0 /\ pump \in 0..FileChunks + 1 BY <1>2, DownloadTypes, Zenon DEF PumpFrame
    <2>2. download # "idle" /\ ~asked BY <2>1 DEF DownloadInv, OneAnswer
    <2>3. UNCHANGED <<download, asked, channel, saved>> /\ lost \in BOOLEAN /\ asked' = FALSE
      BY <1>2, <2>2, Zenon DEF PumpFrame, DownloadInv, DownloadTypeOK
    <2>4. CASE pump <= FileChunks /\ inbound' = Append(inbound, [kind |-> "data", n |-> pump])
               /\ pump' = pump + 1 /\ UNCHANGED lost
      <3>1. PICK m \in Inbound : m = [kind |-> "data", n |-> pump] BY <2>1, <2>4 DEF Inbound
      <3>2. pump' \in 0..FileChunks + 1 /\ m.n = FrameAt(pump) BY <2>1, <2>4, <3>1 DEF FrameAt
      <3>3. m.kind = "data" /\ m.n = pump /\ inbound' = Append(inbound, m) BY <2>4, <3>1, Zenon
      <3> QED BY <2>1, <2>2, <2>3, <2>4, <3>2, <3>3, EnqueuePreserves, Zenon
    <2>5. CASE inbound' = Append(inbound, [kind |-> "data", n |-> 0])
               /\ pump' = 0 /\ lost' = (lost \/ pump <= FileChunks)
      <3>0. 0 \in 0..FileChunks OBVIOUS
      <3>1. PICK m \in Inbound : m = [kind |-> "data", n |-> 0] BY <3>0, Zenon DEF Inbound
      <3>2. pump' \in 0..FileChunks + 1 /\ lost' \in BOOLEAN BY <2>1, <2>3, <2>5
      <3>3. ~lost' => m.n = FrameAt(pump)
        <4>1. ~lost' => ~(pump <= FileChunks) BY <2>5, Zenon
        <4> QED BY <3>1, <4>1, Zenon DEF FrameAt
      <3>4. m.kind = "data" /\ m.n = 0 /\ inbound' = Append(inbound, m) BY <2>5, <3>1, Zenon
      <3> QED BY <2>1, <2>2, <2>3, <2>5, <3>2, <3>3, <3>4, EnqueuePreserves, Zenon
    <2> QED BY <1>2, <2>4, <2>5, Zenon DEF PumpFrame
  <1> QED BY <1>1, <1>2, Zenon

\* The read loop takes the answer, or a frame that it drops.
LEMMA DequeuePreserves ==
    ASSUME DownloadInv, inbound # <<>>, inbound' = Tail(inbound),
           UNCHANGED <<asked, pump, channel, saved>>,
           download' \in {download, "answered", "failed"}, download' # download => download = "asking",
           lost' \in BOOLEAN, lost => lost',
           Head(inbound).kind = "data" => ~Routed' \/ lost'
    PROVE  DownloadInv'
  <1>1. /\ Head(inbound) = inbound[1] /\ Len(inbound') = Len(inbound) - 1 /\ inbound' \in Seq(Inbound)
        /\ \A i \in 1..Len(inbound') : i + 1 \in 1..Len(inbound) /\ inbound'[i] = inbound[i + 1]
        /\ 1 \in 1..Len(inbound)
    BY DownloadTypes, TakeFirst, Zenon
  <1>2. download # "idle" /\ download' # "idle" /\ ~asked
    BY Zenon DEF DownloadInv, OneAnswer
  <1>3. DownloadTypeOK' BY <1>1, Zenon DEF DownloadInv, DownloadTypeOK, Inbound
  <1>n. Len(inbound) \in Nat /\ \A i \in 1..Len(inbound') : i \in Nat /\ i + 1 # 1
    BY DownloadTypes
  <1>4. OneAnswer' BY <1>1, <1>2, <1>n, Zenon DEF DownloadInv, OneAnswer
  <1>5. FramesInOrder'
    <2> USE DEF DownloadInv, FramesInOrder
    <2>1. \A i, j \in 1..Len(inbound') : i < j => Before(inbound'[i].n, inbound'[j].n)
      <3> SUFFICES ASSUME NEW i \in 1..Len(inbound'), NEW j \in 1..Len(inbound'), i < j
                   PROVE  Before(inbound[i + 1].n, inbound[j + 1].n)
        BY <1>1
      <3>1. i + 1 < j + 1 OBVIOUS
      <3> QED BY <1>1, <3>1, Zenon
    <2> QED BY <1>1, <2>1
  <1>6. Unbroken'
    <2>1. SUFFICES ASSUME Routed', ~lost' PROVE Unbroken' BY Zenon DEF Unbroken
    <2>2. Routed /\ ~lost /\ inbound[1].kind # "data" BY <1>1, <2>1, Zenon DEF Routed
    <2>3. Ahead = 1 BY <1>1, <2>2, Zenon DEF Ahead
    <2>4. \A i \in 1..Len(inbound') : inbound'[i].kind = "data" BY <1>1, <1>n, Zenon DEF DownloadInv, OneAnswer
    <2>5. Ahead' = 0 BY <2>4, Zenon DEF Ahead
    <2>6. ASSUME NEW i \in 1..Len(inbound')
          PROVE  inbound'[i].n = FrameAt(Len(saved) + Len(channel) + i - 0)
      <3>1. inbound[i + 1].n = FrameAt(Len(saved) + Len(channel) + (i + 1) - 1)
        BY <1>1, <2>2, <2>3, <2>4, Zenon DEF DownloadInv, Unbroken
      <3>2. Len(saved) + Len(channel) + (i + 1) - 1 = Len(saved) + Len(channel) + i - 0 BY DownloadTypes
      <3> QED BY <1>1, <3>1, <3>2, Zenon
    <2>7. pump > 0 => pump = Len(saved) + Len(channel) + Len(inbound') - 0 + 1
      <3>1. pump > 0 => pump = Len(saved) + Len(channel) + Len(inbound) - 1 + 1
        BY <2>2, <2>3, Zenon DEF DownloadInv, Unbroken
      <3> QED BY <1>1, <3>1, DownloadTypes
    <2> QED BY <2>2, <2>5, <2>6, <2>7, Zenon DEF DownloadInv, Unbroken
  <1>7. DownloadFaithful' BY <1>2, Zenon DEF DownloadInv, DownloadFaithful
  <1> QED BY <1>3, <1>4, <1>5, <1>6, <1>7, Zenon DEF DownloadInv

\* The read loop puts a frame into the channel.
LEMMA DeliverPreserves ==
    ASSUME DownloadInv, inbound # <<>>, inbound' = Tail(inbound), Head(inbound).kind = "data",
           Len(channel) < ChannelSize, channel' = Append(channel, Head(inbound).n),
           UNCHANGED <<asked, pump, saved, download, lost>>
    PROVE  DownloadInv'
  <1>1. /\ Head(inbound) = inbound[1] /\ Len(inbound') = Len(inbound) - 1 /\ inbound' \in Seq(Inbound)
        /\ \A i \in 1..Len(inbound') : i + 1 \in 1..Len(inbound) /\ inbound'[i] = inbound[i + 1]
        /\ 1 \in 1..Len(inbound)
    BY DownloadTypes, TakeFirst, Zenon
  <1>h. PICK h \in 0..FileChunks : h = inbound[1].n BY <1>1, DownloadTypes, Zenon
  <1>2. /\ channel' \in Seq(0..FileChunks) /\ Len(channel') = Len(channel) + 1
        /\ channel'[Len(channel) + 1] = h
        /\ \A i \in 1..Len(channel) : channel'[i] = channel[i]
    BY <1>1, <1>h, DownloadTypes, AppendBehind
  <1>n. /\ Len(inbound) \in Nat /\ Len(channel) \in Nat /\ Len(saved) \in Nat
        /\ \A i \in 1..Len(inbound') : i \in Nat /\ i + 1 # 1 /\ 1 < i + 1
    BY DownloadTypes
  <1>3. \A i \in 1..Len(channel') : i \in 1..Len(channel) \/ (i = Len(channel) + 1 /\ channel'[i] = h)
    BY <1>2, <1>n
  <1>4. download # "idle" /\ ~asked BY Zenon DEF DownloadInv, OneAnswer
  <1>5. DownloadTypeOK'
    <2>1. Len(channel') <= ChannelSize BY <1>2, DownloadTypes
    <2> QED BY <1>1, <1>2, <2>1, Zenon DEF DownloadInv, DownloadTypeOK, Inbound
  <1>6. OneAnswer' BY <1>1, <1>4, <1>n, Zenon DEF DownloadInv, OneAnswer
  <1>7. FramesInOrder'
    <2> USE DEF DownloadInv, FramesInOrder
    <2>1. \A i, j \in 1..Len(inbound') : i < j => Before(inbound'[i].n, inbound'[j].n)
      <3> SUFFICES ASSUME NEW i \in 1..Len(inbound'), NEW j \in 1..Len(inbound'), i < j
                   PROVE  Before(inbound[i + 1].n, inbound[j + 1].n)
        BY <1>1
      <3>1. i + 1 < j + 1 OBVIOUS
      <3> QED BY <1>1, <3>1, Zenon
    <2>2. /\ \A j \in 1..Len(inbound') : Before(h, inbound'[j].n)
          /\ \A i \in 1..Len(channel) : Before(channel[i], h)
          /\ \A i \in 1..Len(saved) : Before(saved[i], h)
          /\ Before(h, pump)
      BY <1>1, <1>h, <1>n, Zenon
    <2>3. \A i, j \in 1..Len(channel') : i < j => Before(channel'[i], channel'[j])
      <3> SUFFICES ASSUME NEW i \in 1..Len(channel'), NEW j \in 1..Len(channel'), i < j
                   PROVE  Before(channel'[i], channel'[j])
        BY Zenon
      <3>1. i \in 1..Len(channel) BY <1>2, <1>n
      <3> QED BY <1>2, <1>3, <2>2, <3>1, Zenon
    <2>4. \A i \in 1..Len(channel'), j \in 1..Len(inbound') : Before(channel'[i], inbound'[j].n)
      BY <1>1, <1>2, <1>3, <2>2
    <2> QED BY <1>1, <1>2, <1>3, <2>1, <2>2, <2>3, <2>4
  <1>8. Unbroken'
    <2>1. SUFFICES ASSUME Routed, ~lost PROVE Unbroken' BY Zenon DEF Unbroken, Routed
    <2>2. \A i \in 1..Len(inbound) : inbound[i].kind = "data" BY <1>1, Zenon DEF DownloadInv, OneAnswer
    <2>3. Ahead = 0 /\ Ahead' = 0 BY <1>1, <2>2, Zenon DEF Ahead
    <2>4. h = FrameAt(Len(saved) + (Len(channel) + 1))
      <3>1. inbound[1].n = FrameAt(Len(saved) + Len(channel) + 1 - 0)
        BY <1>1, <2>1, <2>2, <2>3, Zenon DEF DownloadInv, Unbroken
      <3>2. Len(saved) + Len(channel) + 1 - 0 = Len(saved) + (Len(channel) + 1) BY <1>n
      <3> QED BY <1>h, <3>1, <3>2, Zenon
    <2>5. ASSUME NEW i \in 1..Len(inbound')
          PROVE  inbound'[i].n = FrameAt(Len(saved) + Len(channel') + i - 0)
      <3>1. inbound[i + 1].n = FrameAt(Len(saved) + Len(channel) + (i + 1) - 0)
        BY <1>1, <2>1, <2>2, <2>3, Zenon DEF DownloadInv, Unbroken
      <3>2. Len(saved) + Len(channel) + (i + 1) - 0 = Len(saved) + Len(channel') + i - 0 BY <1>2, <1>n
      <3> QED BY <1>1, <3>1, <3>2, Zenon
    <2>6. pump > 0 => pump = Len(saved) + Len(channel') + Len(inbound') - 0 + 1
      <3>1. pump > 0 => pump = Len(saved) + Len(channel) + Len(inbound) - 0 + 1
        BY <2>1, <2>3, Zenon DEF DownloadInv, Unbroken
      <3> QED BY <1>1, <1>2, <1>n, <3>1
    <2>7. \A i \in 1..Len(channel') : channel'[i] = FrameAt(Len(saved) + i)
      BY <1>2, <1>3, <2>1, <2>4, Zenon DEF DownloadInv, Unbroken
    <2> QED BY <2>1, <2>3, <2>5, <2>6, <2>7, Zenon DEF DownloadInv, Unbroken
  <1>9. DownloadFaithful' BY Zenon DEF DownloadInv, DownloadFaithful
  <1> QED BY <1>5, <1>6, <1>7, <1>8, <1>9, Zenon DEF DownloadInv

\* tryDeliver and handleInbound, on whatever comes next.
LEMMA ReadPreserves ==
    ASSUME DownloadInv, ReadInbound
    PROVE  DownloadInv'
  <1> USE DEF ReadInbound
  <1>1. lost \in BOOLEAN /\ inbound # <<>> /\ inbound' = Tail(inbound) /\ UNCHANGED <<asked, pump, saved>>
    BY Zenon DEF DownloadInv, DownloadTypeOK
  <1>2. CASE Head(inbound).kind # "data"
    <2>1. /\ UNCHANGED <<channel, lost>> /\ download' \in {download, "answered", "failed"}
          /\ download' # download => download = "asking"
      BY <1>2, Zenon
    <2> QED BY <1>1, <1>2, <2>1, DequeuePreserves, Zenon
  <1>3. CASE Head(inbound).kind = "data" /\ ~(Routed /\ Len(channel) < ChannelSize)
    <2>1. /\ UNCHANGED <<channel, download>> /\ lost' = (lost \/ Routed) BY <1>3, Zenon
    <2>2. lost' \in BOOLEAN /\ (lost => lost') /\ (~Routed' \/ lost') BY <1>1, <2>1, Zenon DEF Routed
    <2> QED BY <1>1, <1>3, <2>1, <2>2, DequeuePreserves, Zenon
  <1>4. CASE Head(inbound).kind = "data" /\ Routed /\ Len(channel) < ChannelSize
    <2>1. channel' = Append(channel, Head(inbound).n) /\ UNCHANGED download /\ lost' = (lost \/ FALSE) BY <1>4, Zenon
    <2>2. lost' = lost BY <1>1, <2>1, Zenon
    <2> QED BY <1>1, <1>4, <2>1, <2>2, DeliverPreserves, Zenon
  <1> QED BY <1>2, <1>3, <1>4, Zenon

\* The handler's loop: the chunk it takes is the next one, and the end mark of an
\* undisturbed download comes when the whole file is saved.
LEMMA SavePreserves ==
    ASSUME DownloadInv, SaveChunk
    PROVE  DownloadInv'
  <1>1. /\ download = "streaming" /\ channel # <<>> /\ channel' = Tail(channel)
        /\ UNCHANGED <<asked, pump, inbound, lost>>
        /\ IF Head(channel) = 0
           THEN download' = "complete" /\ UNCHANGED saved
           ELSE saved' = Append(saved, Head(channel)) /\ UNCHANGED download
    BY Zenon DEF SaveChunk
  <1>2. /\ Head(channel) = channel[1] /\ Len(channel') = Len(channel) - 1 /\ channel' \in Seq(0..FileChunks)
        /\ \A i \in 1..Len(channel') : i + 1 \in 1..Len(channel) /\ channel'[i] = channel[i + 1]
        /\ 1 \in 1..Len(channel) /\ channel[1] \in 0..FileChunks
    BY <1>1, DownloadTypes, TakeFirst, Zenon
  <1>n. /\ Len(inbound) \in Nat /\ Len(channel) \in Nat /\ Len(saved) \in Nat /\ FileChunks \in Nat
        /\ Ahead \in Int /\ \A i \in 1..Len(channel') : i \in Nat /\ i + 1 # 1 /\ 1 < i + 1
    BY DownloadTypes
  <1>3. Len(channel') <= ChannelSize BY <1>2, <1>n, DownloadTypes DEF DownloadInv, DownloadTypeOK
  <1>4. \A i, j \in 1..Len(channel') : i < j => Before(channel'[i], channel'[j])
    <2> SUFFICES ASSUME NEW i \in 1..Len(channel'), NEW j \in 1..Len(channel'), i < j
                 PROVE  Before(channel[i + 1], channel[j + 1])
      BY <1>2, Zenon
    <2>1. i + 1 < j + 1 OBVIOUS
    <2> QED BY <1>2, <2>1, Zenon DEF DownloadInv, FramesInOrder
  <1>5. ~asked BY <1>1, Zenon DEF DownloadInv, OneAnswer
  <1>6. CASE channel[1] = 0
    <2>1. download' = "complete" /\ saved' = saved BY <1>1, <1>2, <1>6, Zenon
    <2>2. DownloadTypeOK' BY <1>1, <1>2, <1>3, <2>1, Zenon DEF DownloadInv, DownloadTypeOK
    <2>3. OneAnswer' BY <1>1, <1>5, <2>1, Zenon DEF DownloadInv, OneAnswer
    <2>4. FramesInOrder' BY <1>1, <1>2, <1>4, <2>1 DEF DownloadInv, FramesInOrder
    <2>5. Unbroken' BY <2>1, Zenon DEF Unbroken, Routed
    <2>6. ~lost => saved = [i \in 1..FileChunks |-> i]
      <3> SUFFICES ASSUME ~lost PROVE saved = [i \in 1..FileChunks |-> i] BY Zenon
      <3>1. /\ \A i \in 1..Len(saved) : saved[i] = i
            /\ 0 = FrameAt(Len(saved) + 1)
        BY <1>1, <1>2, <1>6, Zenon DEF DownloadInv, Unbroken, Routed
      <3>2. ~(Len(saved) + 1 <= FileChunks) BY <1>n, <3>1 DEF FrameAt
      <3>3. Len(saved) > 0 => Len(saved) \in 1..FileChunks
        <4>1. Len(saved) > 0 => Len(saved) \in 1..Len(saved) BY <1>n
        <4>2. \A i \in 1..Len(saved) : saved[i] \in 1..FileChunks BY DownloadTypes, Zenon
        <4> QED BY <3>1, <4>1, <4>2, Zenon
      <3>4. Len(saved) = FileChunks BY <1>n, <3>2, <3>3
      <3>5. saved = [i \in 1..Len(saved) |-> saved[i]] BY DownloadTypes
      <3> QED BY <3>1, <3>4, <3>5, Zenon
    <2>7. DownloadFaithful' BY <1>1, <2>1, <2>6, Zenon DEF DownloadInv, DownloadFaithful
    <2> QED BY <2>2, <2>3, <2>4, <2>5, <2>7, Zenon DEF DownloadInv
  <1>7. CASE channel[1] # 0
    <2>h. PICK h \in 1..FileChunks : h = channel[1] BY <1>2, <1>7, <1>n
    <2>1. /\ download' = download /\ saved' \in Seq(1..FileChunks) /\ Len(saved') = Len(saved) + 1
          /\ saved'[Len(saved) + 1] = h /\ \A i \in 1..Len(saved) : saved'[i] = saved[i]
      <3>1. saved \in Seq(1..FileChunks) /\ saved' = Append(saved, h) /\ download' = download
        BY <1>1, <1>2, <1>7, <2>h, DownloadTypes, Zenon
      <3> QED BY <3>1, AppendBehind
    <2>2. \A i \in 1..Len(saved') : i \in 1..Len(saved) \/ (i = Len(saved) + 1 /\ saved'[i] = h)
      BY <1>n, <2>1
    <2>3. DownloadTypeOK' BY <1>1, <1>2, <1>3, <2>1, Zenon DEF DownloadInv, DownloadTypeOK
    <2>4. OneAnswer' BY <1>1, <1>5, <2>1, Zenon DEF DownloadInv, OneAnswer
    <2>5. /\ \A i \in 1..Len(saved) : saved[i] < h
          /\ \A j \in 1..Len(channel') : Before(h, channel'[j])
          /\ \A j \in 1..Len(inbound) : Before(h, inbound[j].n)
          /\ Before(h, pump)
      <3>1. \A i \in 1..Len(saved) : Before(saved[i], h) BY <1>2, <2>h, Zenon DEF DownloadInv, FramesInOrder
      <3>2. \A i \in 1..Len(saved) : saved[i] < h BY <3>1 DEF Before
      <3> QED BY <1>2, <1>n, <2>h, <3>2, Zenon DEF DownloadInv, FramesInOrder
    <2>6. \A i, j \in 1..Len(saved') : i < j => saved'[i] < saved'[j]
      <3> SUFFICES ASSUME NEW i \in 1..Len(saved'), NEW j \in 1..Len(saved'), i < j
                   PROVE  saved'[i] < saved'[j]
        BY Zenon
      <3>1. i \in 1..Len(saved) BY <1>n, <2>1
      <3> QED BY <2>1, <2>2, <2>5, <3>1, Zenon DEF DownloadInv, FramesInOrder
    <2>7. FramesInOrder'
      <3>1. \A i \in 1..Len(saved'), j \in 1..Len(channel') : Before(saved'[i], channel'[j])
        BY <1>2, <2>1, <2>2, <2>5, ZenonT(30) DEF DownloadInv, FramesInOrder
      <3>2. \A i \in 1..Len(saved'), j \in 1..Len(inbound) : Before(saved'[i], inbound[j].n)
        BY <2>1, <2>2, <2>5, Zenon DEF DownloadInv, FramesInOrder
      <3>3. \A i \in 1..Len(saved') : Before(saved'[i], pump)
        BY <2>1, <2>2, <2>5, Zenon DEF DownloadInv, FramesInOrder
      <3> QED BY <1>1, <1>2, <1>4, <2>6, <3>1, <3>2, <3>3, SMTT(30) DEF DownloadInv, FramesInOrder
    <2>8. Unbroken'
      <3>1. SUFFICES ASSUME Routed, ~lost PROVE Unbroken' BY <1>1, <2>1, Zenon DEF Unbroken, Routed
      <3>2. Ahead' = Ahead BY <1>1, Zenon DEF Ahead
      <3>3. h = Len(saved) + 1
        <4>1. h = FrameAt(Len(saved) + 1) BY <1>2, <2>h, <3>1, Zenon DEF DownloadInv, Unbroken
        <4> QED BY <4>1 DEF FrameAt
      <3>4. \A i \in 1..Len(saved') : saved'[i] = i BY <2>1, <2>2, <3>1, <3>3, Zenon DEF DownloadInv, Unbroken
      <3>5. ASSUME NEW i \in 1..Len(channel') PROVE channel'[i] = FrameAt(Len(saved') + i)
        <4>1. channel[i + 1] = FrameAt(Len(saved) + (i + 1)) BY <1>2, <3>1, Zenon DEF DownloadInv, Unbroken
        <4>2. Len(saved) + (i + 1) = Len(saved') + i BY <1>n, <2>1
        <4> QED BY <1>2, <4>1, <4>2, Zenon
      <3>6. Len(saved') + Len(channel') = Len(saved) + Len(channel) BY <1>2, <1>n, <2>1
      <3> QED BY <1>1, <3>1, <3>2, <3>4, <3>5, <3>6, Zenon DEF DownloadInv, Unbroken
    <2>9. DownloadFaithful' BY <1>1, <2>1, <2>6, Zenon DEF DownloadFaithful
    <2> QED BY <2>3, <2>4, <2>7, <2>8, <2>9, Zenon DEF DownloadInv
  <1> QED BY <1>6, <1>7, Zenon

\* The connection takes the frames on it with it.
LEMMA LinkLossPreserves ==
    ASSUME DownloadInv, DownloadLinkLost
    PROVE  DownloadInv'
  <1>1. /\ asked' = FALSE /\ pump' = 0 /\ inbound' = <<>> /\ lost' = TRUE /\ UNCHANGED <<download, channel, saved>>
        /\ pump > 0 \/ inbound # <<>> \/ asked
    BY Zenon DEF DownloadLinkLost
  <1>0. download # "idle" BY <1>1 DEF DownloadInv, OneAnswer
  <1>2. download # "idle" /\ Len(inbound') = 0 /\ inbound' \in Seq(Inbound) /\ 0 \in 0..FileChunks + 1
    BY <1>0, <1>1, DownloadTypes
  <1>3. DownloadTypeOK' BY <1>1, <1>2, Zenon DEF DownloadInv, DownloadTypeOK, Inbound
  <1>4. OneAnswer' BY <1>1, <1>2 DEF DownloadInv, OneAnswer
  <1>5. FramesInOrder'
    <2>1. \A x : Before(x, 0) BY Zenon DEF Before
    <2> QED BY <1>1, <1>2, <2>1 DEF DownloadInv, FramesInOrder
  <1>6. Unbroken' /\ DownloadFaithful' BY <1>1, Zenon DEF DownloadInv, Unbroken, DownloadFaithful
  <1> QED BY <1>3, <1>4, <1>5, <1>6, Zenon DEF DownloadInv

\* The invariant of the download holds in every state.
LEMMA DownloadInvariant == DownloadSpec => []DownloadInv
  <1>1. DownloadInv /\ [DownloadNext]_downloadVars => DownloadInv'
    <2> SUFFICES ASSUME DownloadInv, [DownloadNext]_downloadVars PROVE DownloadInv' BY Zenon
    <2>1. CASE DownloadStart \/ DownloadFails \/ DownloadBegins \/ DownloadGivesUp
      <3>1. UNCHANGED <<pump, inbound, channel, saved, lost>>
        BY <2>1, Zenon DEF DownloadStart, DownloadFails, DownloadBegins, DownloadGivesUp
      <3> QED BY <2>1, <3>1, HandlerPreserves, Zenon
    <2>2. CASE UNCHANGED downloadVars
      <3>1. UNCHANGED <<download, asked, pump, inbound, channel, saved, lost>> BY <2>2, Zenon DEF downloadVars
      <3>2. (DownloadTypeOK /\ OneAnswer)' BY <3>1, ZenonT(30) DEF DownloadInv, DownloadTypeOK, OneAnswer
      <3>3. FramesInOrder' BY <3>1, ZenonT(30) DEF DownloadInv, FramesInOrder
      <3>4. (Unbroken /\ DownloadFaithful)'
        BY <3>1, ZenonT(30) DEF DownloadInv, Unbroken, Routed, Ahead, DownloadFaithful
      <3> QED BY <3>2, <3>3, <3>4, Zenon DEF DownloadInv
    <2> QED BY <2>1, <2>2, AgentPreserves, ReadPreserves, SavePreserves, LinkLossPreserves, Zenon DEF DownloadNext
  <1> QED BY <1>1, DownloadInitially, PTL DEF DownloadSpec

\* handleFilesDownload and pumpFileDownload: the browser gets the chunks in the file's
\* order, none twice, and all of them when the download is recorded as complete and no
\* frame was dropped; for every length of the file and size of the channel.
THEOREM BrowserGetsTheFile == DownloadSpec => []DownloadFaithful
  <1>1. DownloadInv => DownloadFaithful BY Zenon DEF DownloadInv
  <1> QED BY <1>1, DownloadInvariant, PTL

----------------------------------------------------------------------------
(* Commands *)

Queued(r) == \E i \in 1..Len(queue) : queue[i] = r

\* A request that was not sent has left no trace.
NotSent ==
    \A r \in Request : call[r].at = "idle" =>
        /\ ~Queued(r) /\ running # r /\ r \notin orphans /\ effects[r] = 0
        /\ \A m \in replies : m.r # r

\* A command is in one place.
OnePlace ==
    /\ \A i, j \in 1..Len(queue) : queue[i] = queue[j] => i = j
    /\ \A r \in Request : Queued(r) => running # r /\ r \notin orphans
    /\ running \notin orphans

\* While it is there, nothing has come of it.
Pending ==
    \A r \in Request : Queued(r) \/ running = r \/ r \in orphans =>
        /\ effects[r] = 0 /\ call[r].at \in {"waiting", "unanswered"} /\ r \notin audited
        /\ \A m \in replies : m.r # r

\* A result that says so, or what was made of it, is of a command that was executed.
ToldWasDone ==
    /\ \A m \in replies : m.ok => effects[m.r] = 1
    /\ \A r \in Request : call[r].at \in {"answered", "ok"} \/ r \in audited => effects[r] = 1
    /\ \A r \in Request : effects[r] <= 1

CommandInv == CommandTypeOK /\ NotSent /\ OnePlace /\ Pending /\ ToldWasDone

CommandState == {"idle", "waiting", "answered", "ok", "refused", "unanswered"}

\* The elements of the queue, of the results and of the functions.
LEMMA CommandTypes ==
    ASSUME CommandInv
    PROVE  /\ NoRequest \notin Request
           /\ call \in [Request -> [at : CommandState, c : Command]]
           /\ queue \in Seq(Request) /\ Len(queue) \in Nat
           /\ \A i \in 1..Len(queue) : queue[i] \in Request
           /\ effects \in [Request -> Nat] /\ \A r \in Request : effects[r] \in Nat
           /\ \A m \in replies : m \in [r : Request, ok : BOOLEAN] /\ m.r \in Request /\ m.ok \in BOOLEAN
           /\ running \in Request \cup {NoRequest}
  <1>1. call \in [Request -> [at : CommandState, c : Command]] BY Zenon DEF CommandInv, CommandTypeOK, CommandState
  <1>2. queue \in Seq(Request) BY Zenon DEF CommandInv, CommandTypeOK
  <1>3. effects \in [Request -> Nat] BY Zenon DEF CommandInv, CommandTypeOK
  <1>4. \A m \in replies : m \in [r : Request, ok : BOOLEAN] BY Zenon DEF CommandInv, CommandTypeOK
  <1> QED BY <1>1, <1>2, <1>3, <1>4, CommandAssumption DEF CommandInv, CommandTypeOK

\* A request's step, and nobody else's.
LEMMA RequestSteps ==
    ASSUME CommandInv, NEW r \in Request, NEW a \in CommandState, RequestAt(r, a)
    PROVE  /\ call' \in [Request -> [at : CommandState, c : Command]]
           /\ call'[r].at = a /\ \A q \in Request \ {r} : call'[q] = call[q]
  BY CommandTypes, Zenon DEF RequestAt

\* Nothing is sent at first.
LEMMA CommandInitially == CommandInit => CommandInv
  <1> SUFFICES ASSUME CommandInit PROVE CommandInv BY Zenon
  <1> USE CommandAssumption DEF CommandInit
  <1>1. Len(queue) = 0 /\ queue \in Seq(Request) OBVIOUS
  <1>2. call \in [Request -> [at : CommandState, c : Command]] /\ \A r \in Request : call[r].at = "idle"
    BY Zenon DEF CommandState
  <1>3. CommandTypeOK BY <1>1, <1>2, Zenon DEF CommandTypeOK, CommandState
  <1>4. NotSent /\ OnePlace /\ Pending BY <1>1, <1>2 DEF NotSent, OnePlace, Pending, Queued
  <1>5. ToldWasDone BY <1>2 DEF ToldWasDone
  <1> QED BY <1>3, <1>4, <1>5, Zenon DEF CommandInv

\* The waiter's steps that move no command: a deadline, or a result that is reported.
LEMMA WaiterPreserves ==
    ASSUME CommandInv, NEW r \in Request, CommandTimeout(r) \/ ReportCommand(r)
    PROVE  CommandInv'
  <1>1. UNCHANGED <<queue, running, orphans, effects, replies, connected>> BY Zenon DEF CommandTimeout, ReportCommand
  <1>2. PICK a \in {"unanswered", "ok"} :
           /\ RequestAt(r, a)
           /\ a = "unanswered" => call[r].at = "waiting" /\ audited' = audited
           /\ a = "ok" => call[r].at = "answered" /\ audited' \in {audited, audited \cup {r}}
    BY Zenon DEF CommandTimeout, ReportCommand
  <1>3. /\ call' \in [Request -> [at : CommandState, c : Command]]
        /\ call'[r].at = a /\ \A q \in Request \ {r} : call'[q] = call[q]
    BY <1>2, RequestSteps, Zenon DEF CommandState
  <1>4. audited' \in SUBSET Request /\ \A q \in audited' : q \in audited \/ (q = r /\ a = "ok")
    BY <1>2, Zenon DEF CommandInv, CommandTypeOK
  <1>5. CommandTypeOK' BY <1>1, <1>3, <1>4, Zenon DEF CommandInv, CommandTypeOK, CommandState
  <1>6. NotSent' BY <1>1, <1>2, <1>3, Zenon DEF CommandInv, NotSent, Queued
  <1>7. OnePlace' BY <1>1, Zenon DEF CommandInv, OnePlace, Queued
  <1>8. Pending'
    <2> SUFFICES ASSUME NEW q \in Request, Queued(q) \/ running = q \/ q \in orphans
                 PROVE  /\ effects[q] = 0 /\ call'[q].at \in {"waiting", "unanswered"} /\ q \notin audited'
                        /\ \A m \in replies : m.r # q
      BY <1>1, Zenon DEF Pending, Queued
    <2>1. /\ effects[q] = 0 /\ call[q].at \in {"waiting", "unanswered"} /\ q \notin audited
          /\ \A m \in replies : m.r # q
      BY Zenon DEF CommandInv, Pending
    <2> QED BY <1>2, <1>3, <1>4, <2>1, Zenon
  <1>9. ToldWasDone' BY <1>1, <1>2, <1>3, <1>4, Zenon DEF CommandInv, ToldWasDone
  <1> QED BY <1>5, <1>6, <1>7, <1>8, <1>9, Zenon DEF CommandInv

\* SendAndWait writes the command of a request that was not sent yet.
LEMMA SendCommandPreserves ==
    ASSUME CommandInv, NEW r \in Request, SendCommand(r)
    PROVE  CommandInv'
  <1>1. call[r].at = "idle" /\ UNCHANGED <<running, orphans, effects, replies, audited, connected>>
    BY Zenon DEF SendCommand
  <1>2. PICK a \in {"waiting", "unanswered"} :
           RequestAt(r, a) /\ (queue' = queue \/ (queue' = Append(queue, r) /\ a = "waiting"))
    BY Zenon DEF SendCommand
  <1>3. /\ call' \in [Request -> [at : CommandState, c : Command]]
        /\ call'[r].at = a /\ \A q \in Request \ {r} : call'[q] = call[q]
    BY <1>2, RequestSteps, Zenon DEF CommandState
  <1>4. /\ ~Queued(r) /\ running # r /\ r \notin orphans /\ effects[r] = 0 /\ \A m \in replies : m.r # r
        /\ r \notin audited
    BY <1>1 DEF CommandInv, NotSent, ToldWasDone
  <1>5. /\ queue' \in Seq(Request) /\ Len(queue') \in Nat /\ Len(queue) \in Nat
        /\ \A i \in 1..Len(queue') : (i \in 1..Len(queue) /\ queue'[i] = queue[i]) \/ (i = Len(queue) + 1 /\ queue'[i] = r)
    <2>1. CASE queue' = queue BY <2>1, CommandTypes, Zenon
    <2>2. CASE queue' = Append(queue, r)
      <3>1. /\ Append(queue, r) \in Seq(Request) /\ Len(queue) \in Nat /\ Len(Append(queue, r)) = Len(queue) + 1
            /\ Append(queue, r)[Len(queue) + 1] = r
            /\ \A i \in 1..Len(queue) : Append(queue, r)[i] = queue[i]
        BY CommandTypes, AppendBehind
      <3> QED BY <2>2, <3>1
    <2> QED BY <1>2, <2>1, <2>2, Zenon
  <1>6. \A q \in Request : Queued(q)' => Queued(q) \/ q = r BY <1>5, Zenon DEF Queued
  <1>7. CommandTypeOK' BY <1>1, <1>3, <1>5, Zenon DEF CommandInv, CommandTypeOK, CommandState
  <1>8. NotSent' BY <1>1, <1>2, <1>3, <1>6, Zenon DEF CommandInv, NotSent
  <1>9. OnePlace'
    <2>1. ASSUME NEW i \in 1..Len(queue'), NEW j \in 1..Len(queue'), queue'[i] = queue'[j] PROVE i = j
      <3>1. \A k \in 1..Len(queue) : queue[k] # r BY <1>4, Zenon DEF Queued
      <3> QED BY <1>5, <2>1, <3>1, Zenon DEF CommandInv, OnePlace
    <2> QED BY <1>1, <1>4, <1>6, <2>1, ZenonT(30) DEF CommandInv, OnePlace
  <1>10. Pending'
    <2> SUFFICES ASSUME NEW q \in Request, Queued(q)' \/ running = q \/ q \in orphans
                 PROVE  /\ effects[q] = 0 /\ call'[q].at \in {"waiting", "unanswered"} /\ q \notin audited
                        /\ \A m \in replies : m.r # q
      BY <1>1, Zenon DEF Pending
    <2>1. CASE q = r BY <1>2, <1>3, <1>4, <2>1, Zenon
    <2>2. CASE q # r
      <3>1. /\ effects[q] = 0 /\ call[q].at \in {"waiting", "unanswered"} /\ q \notin audited
            /\ \A m \in replies : m.r # q
        BY <1>6, <2>2, Zenon DEF CommandInv, Pending
      <3> QED BY <1>3, <2>2, <3>1, Zenon
    <2> QED BY <2>1, <2>2, Zenon
  <1>11. ToldWasDone' BY <1>1, <1>2, <1>3, Zenon DEF CommandInv, ToldWasDone
  <1> QED BY <1>7, <1>8, <1>9, <1>10, <1>11, Zenon DEF CommandInv

\* tryDeliver: a result is of a command that is in none of the places.
LEMMA DeliverReplyPreserves ==
    ASSUME CommandInv, DeliverReply
    PROVE  CommandInv'
  <1>1. PICK m \in replies :
           /\ replies' = replies \ {m}
           /\ IF call[m.r].at = "waiting" THEN RequestAt(m.r, IF m.ok THEN "answered" ELSE "refused")
                                             ELSE UNCHANGED call
           /\ UNCHANGED <<queue, running, orphans, effects, audited, connected>>
    BY Zenon DEF DeliverReply
  <1>2. m.r \in Request /\ m.ok \in BOOLEAN BY CommandTypes, Zenon
  <1>3. /\ call' \in [Request -> [at : CommandState, c : Command]]
        /\ \A q \in Request \ {m.r} : call'[q] = call[q]
        /\ \/ call'[m.r] = call[m.r]
           \/ call'[m.r].at = "answered" /\ m.ok
           \/ call'[m.r].at = "refused"
    <2>1. CASE call[m.r].at = "waiting"
      <3>1. PICK a \in {"answered", "refused"} : RequestAt(m.r, a) /\ (a = "answered" => m.ok)
        BY <1>1, <2>1, Zenon
      <3> QED BY <1>2, <3>1, RequestSteps, Zenon DEF CommandState
    <2>2. CASE call[m.r].at # "waiting" BY <1>1, <2>2, CommandTypes, Zenon
    <2> QED BY <2>1, <2>2, Zenon
  <1>4. CommandTypeOK' BY <1>1, <1>3, Zenon DEF CommandInv, CommandTypeOK, CommandState
  <1>5. NotSent'
    <2> SUFFICES ASSUME NEW q \in Request, call'[q].at = "idle"
                 PROVE  ~Queued(q) /\ running # q /\ q \notin orphans /\ effects[q] = 0 /\ \A k \in replies' : k.r # q
      BY <1>1, Zenon DEF NotSent, Queued
    <2>1. call[q].at = "idle" BY <1>3, Zenon
    <2> QED BY <1>1, <2>1, Zenon DEF CommandInv, NotSent
  <1>6. OnePlace' BY <1>1, Zenon DEF CommandInv, OnePlace, Queued
  <1>7. Pending'
    <2> SUFFICES ASSUME NEW q \in Request, Queued(q) \/ running = q \/ q \in orphans
                 PROVE  /\ effects[q] = 0 /\ call'[q].at \in {"waiting", "unanswered"} /\ q \notin audited
                        /\ \A k \in replies' : k.r # q
      BY <1>1, Zenon DEF Pending, Queued
    <2>1. /\ effects[q] = 0 /\ call[q].at \in {"waiting", "unanswered"} /\ q \notin audited
          /\ \A k \in replies : k.r # q
      BY Zenon DEF CommandInv, Pending
    <2> QED BY <1>1, <1>3, <2>1, Zenon
  <1>8. ToldWasDone'
    <2>1. m.ok => effects[m.r] = 1 BY Zenon DEF CommandInv, ToldWasDone
    <2> QED BY <1>1, <1>2, <1>3, <2>1, Zenon DEF CommandInv, ToldWasDone
  <1> QED BY <1>4, <1>5, <1>6, <1>7, <1>8, Zenon DEF CommandInv

\* The agent takes the first command: it runs, or is refused without effect.
LEMMA AgentTakePreserves ==
    ASSUME CommandInv, AgentTakes
    PROVE  CommandInv'
  <1>1. /\ running = NoRequest /\ queue # <<>> /\ queue' = Tail(queue)
        /\ UNCHANGED <<call, orphans, effects, audited, connected>>
        /\ \/ running' = Head(queue) /\ replies' = replies
           \/ replies' = replies \cup {[r |-> Head(queue), ok |-> FALSE]} /\ running' = running
    BY Zenon DEF AgentTakes
  <1>2. /\ Head(queue) = queue[1] /\ Head(queue) \in Request /\ 1 \in 1..Len(queue) /\ Len(queue) \in Nat
        /\ queue' \in Seq(Request) /\ Len(queue') = Len(queue) - 1
        /\ \A i \in 1..Len(queue') : i + 1 \in 1..Len(queue) /\ queue'[i] = queue[i + 1]
    BY <1>1, CommandTypes, TakeFirst, Zenon
  <1>h. PICK h \in Request : h = queue[1] BY <1>2, Zenon
  <1>3. Queued(h) /\ h \notin orphans BY <1>2, <1>h, Zenon DEF CommandInv, OnePlace, Queued
  <1>4. /\ effects[h] = 0 /\ call[h].at \in {"waiting", "unanswered"} /\ h \notin audited
        /\ \A m \in replies : m.r # h
    BY <1>3, Zenon DEF CommandInv, Pending
  <1>5. \A q \in Request : Queued(q)' => Queued(q) /\ q # h
    <2> SUFFICES ASSUME NEW q \in Request, NEW i \in 1..Len(queue'), queue'[i] = q PROVE Queued(q) /\ q # h
      BY Zenon DEF Queued
    <2>1. i + 1 \in 1..Len(queue) /\ queue[i + 1] = q /\ i + 1 # 1 BY <1>2
    <2> QED BY <1>2, <1>h, <2>1, Zenon DEF CommandInv, OnePlace, Queued
  <1>6. \A i, j \in 1..Len(queue') : queue'[i] = queue'[j] => i = j
    <2> SUFFICES ASSUME NEW i \in 1..Len(queue'), NEW j \in 1..Len(queue'), queue'[i] = queue'[j] PROVE i = j BY Zenon
    <2>1. i + 1 \in 1..Len(queue) /\ j + 1 \in 1..Len(queue) /\ queue[i + 1] = queue[j + 1] BY <1>2, Zenon
    <2>2. i + 1 = j + 1 BY <2>1, Zenon DEF CommandInv, OnePlace
    <2> QED BY <2>2
  <1>7. PICK m \in [r : Request, ok : BOOLEAN] : m = [r |-> h, ok |-> FALSE] BY Zenon
  <1>8. /\ running' \in {NoRequest, h}
        /\ replies' = replies \/ (replies' = replies \cup {m} /\ running' = NoRequest)
        /\ m.r = h /\ m.ok = FALSE
    BY <1>1, <1>2, <1>h, <1>7, Zenon
  <1>9. CommandTypeOK' BY <1>1, <1>2, <1>8, Zenon DEF CommandInv, CommandTypeOK
  <1>10. NotSent'
    <2> SUFFICES ASSUME NEW q \in Request, call[q].at = "idle"
                 PROVE  ~Queued(q)' /\ running' # q /\ q \notin orphans /\ effects[q] = 0 /\ \A k \in replies' : k.r # q
      BY <1>1, Zenon DEF NotSent
    <2>1. ~Queued(q) /\ q \notin orphans /\ effects[q] = 0 /\ \A k \in replies : k.r # q BY Zenon DEF CommandInv, NotSent
    <2>2. q # h BY <1>4, Zenon
    <2> QED BY <1>5, <1>8, <2>1, <2>2, CommandAssumption, Zenon
  <1>11. OnePlace'
    <2>1. \A q \in Request : Queued(q)' => running' # q /\ q \notin orphans
      BY <1>5, <1>8, CommandAssumption, Zenon DEF CommandInv, OnePlace
    <2>2. running' \notin orphans BY <1>3, <1>8, CommandAssumption, Zenon DEF CommandInv, CommandTypeOK
    <2> QED BY <1>1, <1>6, <2>1, <2>2, Zenon DEF OnePlace
  <1>12. Pending'
    <2> SUFFICES ASSUME NEW q \in Request, Queued(q)' \/ running' = q \/ q \in orphans
                 PROVE  /\ effects[q] = 0 /\ call[q].at \in {"waiting", "unanswered"} /\ q \notin audited
                        /\ \A k \in replies' : k.r # q
      BY <1>1, Zenon DEF Pending
    <2>1. CASE q = h
      <3>1. running' = h BY <1>3, <1>5, <2>1, Zenon
      <3> QED BY <1>4, <1>8, <2>1, <3>1, CommandAssumption, Zenon
    <2>2. CASE q # h
      <3>1. Queued(q) \/ q \in orphans BY <1>5, <1>8, <2>2, CommandAssumption, Zenon
      <3> QED BY <1>8, <2>2, <3>1, Zenon DEF CommandInv, Pending
    <2> QED BY <2>1, <2>2, Zenon
  <1>13. ToldWasDone' BY <1>1, <1>8, Zenon DEF CommandInv, ToldWasDone
  <1> QED BY <1>9, <1>10, <1>11, <1>12, <1>13, Zenon DEF CommandInv

\* The provider returns: the command leaves the read loop, and its effect and its
\* result come together.
LEMMA ExecutePreserves ==
    ASSUME CommandInv, NEW ok \in BOOLEAN, AgentExecutes(ok)
    PROVE  CommandInv'
  <1>h. PICK h \in Request : h = running BY CommandTypes, Zenon DEF AgentExecutes
  <1>m. PICK m \in [r : Request, ok : BOOLEAN] : m = [r |-> h, ok |-> ok] BY Zenon
  <1>1. /\ running' = NoRequest /\ replies' = replies \cup {m} /\ m.r = h /\ m.ok = ok
        /\ effects' = IF ok THEN [effects EXCEPT ![h] = @ + 1] ELSE effects
        /\ UNCHANGED <<call, queue, orphans, audited, connected>>
    BY <1>h, <1>m, Zenon DEF AgentExecutes
  <1>2. /\ effects[h] = 0 /\ call[h].at \in {"waiting", "unanswered"} /\ h \notin audited
        /\ \A k \in replies : k.r # h
        /\ ~Queued(h) /\ h \notin orphans
    BY <1>h, Zenon DEF CommandInv, Pending, OnePlace
  <1>3. /\ effects' \in [Request -> Nat] /\ effects'[h] = (IF ok THEN 1 ELSE 0)
        /\ \A q \in Request \ {h} : effects'[q] = effects[q]
    BY <1>1, <1>2, CommandTypes
  <1>4. \A q \in Request : Queued(q)' <=> Queued(q) BY <1>1, Zenon DEF Queued
  <1>5. CommandTypeOK' BY <1>1, <1>3, Zenon DEF CommandInv, CommandTypeOK
  <1>6. NotSent'
    <2> SUFFICES ASSUME NEW q \in Request, call[q].at = "idle"
                 PROVE  ~Queued(q) /\ running' # q /\ q \notin orphans /\ effects'[q] = 0 /\ \A k \in replies' : k.r # q
      BY <1>1, <1>4, Zenon DEF NotSent
    <2>1. ~Queued(q) /\ q \notin orphans /\ effects[q] = 0 /\ \A k \in replies : k.r # q BY Zenon DEF CommandInv, NotSent
    <2>2. q # h BY <1>2, Zenon
    <2> QED BY <1>1, <1>3, <2>1, <2>2, CommandAssumption, Zenon
  <1>7. OnePlace'
    <2>1. NoRequest \notin orphans BY CommandAssumption, Zenon DEF CommandInv, CommandTypeOK
    <2> QED BY <1>1, <1>4, <2>1, CommandAssumption, Zenon DEF CommandInv, OnePlace
  <1>8. Pending'
    <2> SUFFICES ASSUME NEW q \in Request, Queued(q) \/ q \in orphans
                 PROVE  /\ effects'[q] = 0 /\ call[q].at \in {"waiting", "unanswered"} /\ q \notin audited
                        /\ \A k \in replies' : k.r # q
      BY <1>1, <1>4, CommandAssumption, Zenon DEF Pending
    <2>1. q # h BY <1>2, Zenon
    <2> QED BY <1>1, <1>3, <2>1, Zenon DEF CommandInv, Pending
  <1>9. ToldWasDone'
    <2>1. \A k \in replies' : k.ok => effects'[k.r] = 1
      <3> SUFFICES ASSUME NEW k \in replies', k.ok PROVE effects'[k.r] = 1 BY Zenon
      <3>1. CASE k = m BY <1>1, <1>3, <3>1, Zenon
      <3>2. CASE k \in replies
        <4>1. k.r \in Request /\ k.r # h /\ effects[k.r] = 1
          BY <1>2, <3>2, CommandTypes, Zenon DEF CommandInv, ToldWasDone
        <4> QED BY <1>3, <4>1, Zenon
      <3> QED BY <1>1, <3>1, <3>2, Zenon
    <2>2. \A r \in Request : call[r].at \in {"answered", "ok"} \/ r \in audited => r # h /\ effects[r] = 1
      BY <1>2, Zenon DEF CommandInv, ToldWasDone
    <2>3. \A r \in Request : effects'[r] <= 1 BY <1>3 DEF CommandInv, ToldWasDone
    <2> QED BY <1>1, <1>3, <2>1, <2>2, <2>3, Zenon DEF ToldWasDone
  <1> QED BY <1>5, <1>6, <1>7, <1>8, <1>9, Zenon DEF CommandInv

\* The same for a command whose connection is gone, without a result.
LEMMA OrphanPreserves ==
    ASSUME CommandInv, NEW ok \in BOOLEAN, OrphanExecutes(ok)
    PROVE  CommandInv'
  <1>1. PICK h \in orphans :
           /\ orphans' = orphans \ {h}
           /\ effects' = IF ok THEN [effects EXCEPT ![h] = @ + 1] ELSE effects
           /\ UNCHANGED <<call, queue, running, replies, audited, connected>>
    BY Zenon DEF OrphanExecutes
  <1>2. /\ h \in Request /\ effects[h] = 0 /\ call[h].at \in {"waiting", "unanswered"} /\ h \notin audited
        /\ \A k \in replies : k.r # h
        /\ ~Queued(h) /\ running # h
    BY <1>1, Zenon DEF CommandInv, Pending, OnePlace, CommandTypeOK
  <1>3. /\ effects' \in [Request -> Nat] /\ effects'[h] = (IF ok THEN 1 ELSE 0)
        /\ \A q \in Request \ {h} : effects'[q] = effects[q]
    BY <1>1, <1>2, CommandTypes
  <1>4. \A q \in Request : Queued(q)' <=> Queued(q) BY <1>1, Zenon DEF Queued
  <1>5. CommandTypeOK' BY <1>1, <1>3, Zenon DEF CommandInv, CommandTypeOK
  <1>6. NotSent'
    <2> SUFFICES ASSUME NEW q \in Request, call[q].at = "idle"
                 PROVE  ~Queued(q) /\ running # q /\ q \notin orphans' /\ effects'[q] = 0 /\ \A k \in replies : k.r # q
      BY <1>1, <1>4, Zenon DEF NotSent
    <2>1. q # h BY <1>2, Zenon
    <2> QED BY <1>1, <1>3, <2>1, Zenon DEF CommandInv, NotSent
  <1>7. OnePlace' BY <1>1, <1>4, Zenon DEF CommandInv, OnePlace
  <1>8. Pending'
    <2> SUFFICES ASSUME NEW q \in Request, Queued(q) \/ running = q \/ q \in orphans'
                 PROVE  /\ effects'[q] = 0 /\ call[q].at \in {"waiting", "unanswered"} /\ q \notin audited
                        /\ \A k \in replies : k.r # q
      BY <1>1, <1>4, ZenonT(30) DEF Pending
    <2>1. q # h BY <1>1, <1>2, Zenon
    <2> QED BY <1>1, <1>3, <2>1, Zenon DEF CommandInv, Pending
  <1>9. ToldWasDone'
    <2>1. \A k \in replies : k.ok => k.r \in Request \ {h} /\ effects[k.r] = 1
      BY <1>2, CommandTypes, Zenon DEF CommandInv, ToldWasDone
    <2>2. \A r \in Request : call[r].at \in {"answered", "ok"} \/ r \in audited => r # h /\ effects[r] = 1
      BY <1>2, Zenon DEF CommandInv, ToldWasDone
    <2>3. \A r \in Request : effects'[r] <= 1 BY <1>3 DEF CommandInv, ToldWasDone
    <2> QED BY <1>1, <1>3, <2>1, <2>2, <2>3, Zenon DEF ToldWasDone
  <1> QED BY <1>5, <1>6, <1>7, <1>8, <1>9, Zenon DEF CommandInv

\* The connection: what is on it is lost, the command that runs is left behind.
LEMMA CommandLinkPreserves ==
    ASSUME CommandInv, CommandLinkLost \/ CommandLinkBack
    PROVE  CommandInv'
  <1>1. CASE CommandLinkLost
    <2>1. /\ queue' = <<>> /\ replies' = {} /\ running' = NoRequest /\ connected' = FALSE
          /\ orphans' = orphans \cup ({running} \ {NoRequest})
          /\ UNCHANGED <<call, effects, audited>>
      BY <1>1, Zenon DEF CommandLinkLost
    <2>2. Len(queue') = 0 /\ queue' \in Seq(Request) BY <2>1
    <2>3. \A q \in Request : ~Queued(q)' BY <2>2 DEF Queued
    <2>4. orphans' \in SUBSET Request /\ \A q \in orphans' : q \in orphans \/ q = running
      BY <2>1, Zenon DEF CommandInv, CommandTypeOK
    <2>5. CommandTypeOK' BY <2>1, <2>2, <2>4, Zenon DEF CommandInv, CommandTypeOK
    <2>6. NotSent' BY <2>1, <2>3, <2>4, CommandAssumption, Zenon DEF CommandInv, NotSent
    <2>7. OnePlace' BY <2>1, <2>2, <2>3, <2>4, CommandAssumption DEF OnePlace
    <2>8. Pending' BY <2>1, <2>3, <2>4, CommandAssumption, Zenon DEF CommandInv, Pending
    <2>9. ToldWasDone' BY <2>1, Zenon DEF CommandInv, ToldWasDone
    <2> QED BY <2>5, <2>6, <2>7, <2>8, <2>9, Zenon DEF CommandInv
  <1>2. CASE CommandLinkBack
    BY <1>2 DEF CommandLinkBack, CommandInv, CommandTypeOK, NotSent, OnePlace, Pending, ToldWasDone, Queued
  <1> QED BY <1>1, <1>2, Zenon

\* Every reachable state of the command path satisfies the inductive invariant.
LEMMA CommandInvariant == CommandSpec => []CommandInv
  <1>1. CommandInv /\ [CommandNext]_commandVars => CommandInv'
    <2> SUFFICES ASSUME CommandInv, [CommandNext]_commandVars PROVE CommandInv' BY Zenon
    <2>1. ASSUME NEW r \in Request, SendCommand(r) PROVE CommandInv' BY <2>1, SendCommandPreserves, Zenon
    <2>2. ASSUME NEW r \in Request, CommandTimeout(r) \/ ReportCommand(r) PROVE CommandInv'
      BY <2>2, WaiterPreserves, Zenon
    <2>3. ASSUME NEW ok \in BOOLEAN, AgentExecutes(ok) \/ OrphanExecutes(ok) PROVE CommandInv'
      BY <2>3, ExecutePreserves, OrphanPreserves, Zenon
    <2>4. CASE UNCHANGED commandVars
      BY <2>4 DEF commandVars, CommandInv, CommandTypeOK, NotSent, OnePlace, Pending, ToldWasDone, Queued
    <2> QED
      BY <2>1, <2>2, <2>3, <2>4, DeliverReplyPreserves, AgentTakePreserves, CommandLinkPreserves, Zenon DEF CommandNext
  <1> QED BY <1>1, CommandInitially, PTL DEF CommandSpec

\* runCommand and handleDeviceCommand: whatever the administrator and the audit log are
\* told was done was done exactly once, for any number of requests, lost connections and
\* late results.
THEOREM ReportedCommandWasDone == CommandSpec => []ReportedWasDone
  <1>1. CommandInv => ReportedWasDone BY Zenon DEF CommandInv, ToldWasDone, ReportedWasDone
  <1> QED BY <1>1, CommandInvariant, PTL
=============================================================================
