---------------------------- MODULE FileDownload ----------------------------
(***************************************************************************)
(* Download of a file from a device (handleFilesDownload in                *)
(* internal/httpapi/handlers_files.go, CmdFilesDownload in                 *)
(* internal/agentcore/commands.go and pumpFileDownload in                  *)
(* internal/agentcore/files.go).                                           *)
(*                                                                         *)
(* The agent answers the command, then a goroutine of its own sends the    *)
(* file's chunks and a zero-length frame.  Answer and frames share the     *)
(* connection and arrive in order.  The server's read loop puts the frames *)
(* into the stream's channel and drops what does not fit.                  *)
(***************************************************************************)
EXTENDS Naturals, Sequences

CONSTANTS
    FileChunks,   \* chunks of the file
    ChannelSize   \* of Stream.toBrowser

ASSUME DownloadAssumption == FileChunks \in Nat /\ ChannelSize \in Nat \ {0}

VARIABLES
    download,   \* handleFilesDownload: the step that is next
    asked,      \* the command is on its way to the agent
    pump,       \* pumpFileDownload: next chunk, or not running
    inbound,    \* agent to server, in order: "ready", chunk numbers, 0 for the end
    channel,    \* Stream.toBrowser
    saved,      \* what the browser was sent
    lost        \* a frame was dropped, a read failed, or the connection was lost

downloadVars == <<download, asked, pump, inbound, channel, saved, lost>>

DownloadTypeOK ==
    /\ download \in {"idle", "asking", "answered", "streaming", "complete", "failed"}
    /\ asked \in BOOLEAN /\ lost \in BOOLEAN
    /\ pump \in 0..FileChunks + 1
    /\ inbound \in Seq([kind : {"ready", "refused"}, n : {0}] \cup [kind : {"data"}, n : 0..FileChunks])
    /\ channel \in Seq(0..FileChunks) /\ Len(channel) <= ChannelSize
    /\ saved \in Seq(1..FileChunks)

DownloadInit ==
    /\ download = "idle" /\ asked = FALSE /\ pump = 0
    /\ inbound = <<>> /\ channel = <<>> /\ saved = <<>> /\ lost = FALSE

\* Mutant: the stream is registered when the answer is there.
RoutedLate == download = "streaming"

\* The stream is registered before the command is sent, unregistered on return.
Routed == download \in {"asking", "answered", "streaming"}

DownloadStart ==
    /\ download = "idle"
    /\ download' = "asking" /\ asked' = TRUE
    /\ UNCHANGED <<pump, inbound, channel, saved, lost>>

\* The device is not connected or the answer does not come in time.
DownloadFails ==
    /\ download = "asking"
    /\ download' = "failed"
    /\ UNCHANGED <<asked, pump, inbound, channel, saved, lost>>

\* CmdFilesDownload: ReadFile, the answer with the size, then the goroutine; or
\* policy or the operating system refuse.
AgentReads ==
    /\ asked /\ asked' = FALSE
    /\ \/ inbound' = Append(inbound, [kind |-> "ready", n |-> 0]) /\ pump' = 1
       \/ inbound' = Append(inbound, [kind |-> "refused", n |-> 0]) /\ UNCHANGED pump
    /\ UNCHANGED <<download, channel, saved, lost>>

\* One turn of pumpFileDownload; a read error ends the file like its end does.
PumpFrame ==
    /\ pump > 0
    /\ \/ /\ pump <= FileChunks
          /\ inbound' = Append(inbound, [kind |-> "data", n |-> pump])
          /\ pump' = pump + 1 /\ UNCHANGED lost
       \/ /\ inbound' = Append(inbound, [kind |-> "data", n |-> 0])
          /\ pump' = 0 /\ lost' = (lost \/ pump <= FileChunks)
    /\ UNCHANGED <<download, asked, channel, saved>>

\* The read loop: tryDeliver wakes the handler, handleInbound fills the channel.
ReadInbound ==
    LET m == Head(inbound)
        fits == Routed /\ Len(channel) < ChannelSize
    IN /\ inbound # <<>> /\ inbound' = Tail(inbound)
       /\ IF m.kind # "data"
          THEN /\ download' = IF download # "asking" THEN download
                              ELSE IF m.kind = "ready" THEN "answered" ELSE "failed"
               /\ UNCHANGED <<channel, lost>>
          ELSE /\ channel' = IF fits THEN Append(channel, m.n) ELSE channel
               /\ lost' = (lost \/ (Routed /\ ~fits))
               /\ UNCHANGED download
       /\ UNCHANGED <<asked, pump, saved>>

\* SendAndWait returns; the response's headers are written.
DownloadBegins ==
    /\ download = "answered"
    /\ download' = "streaming"
    /\ UNCHANGED <<asked, pump, inbound, channel, saved, lost>>

\* The handler's loop: a chunk goes to the browser, the zero-length frame ends it.
SaveChunk ==
    /\ download = "streaming" /\ channel # <<>>
    /\ channel' = Tail(channel)
    /\ IF Head(channel) = 0
       THEN download' = "complete" /\ UNCHANGED saved
       ELSE saved' = Append(saved, Head(channel)) /\ UNCHANGED download
    /\ UNCHANGED <<asked, pump, inbound, lost>>

\* The browser is gone or 30 minutes have passed.
DownloadGivesUp ==
    /\ download = "streaming"
    /\ download' = "failed"
    /\ UNCHANGED <<asked, pump, inbound, channel, saved, lost>>

\* The pump's write fails; the handler is not told.
DownloadLinkLost ==
    /\ pump > 0 \/ inbound # <<>> \/ asked
    /\ asked' = FALSE /\ pump' = 0 /\ inbound' = <<>> /\ lost' = TRUE
    /\ UNCHANGED <<download, channel, saved>>

DownloadNext ==
    \/ DownloadStart \/ DownloadFails \/ AgentReads \/ PumpFrame \/ ReadInbound \/ DownloadBegins
    \/ SaveChunk \/ DownloadGivesUp \/ DownloadLinkLost

DownloadSpec == DownloadInit /\ [][DownloadNext]_downloadVars

----------------------------------------------------------------------------
\* The browser's copy: chunks in the file's order, none twice, and when the handler
\* records the download as complete without a dropped frame or a read error, all of
\* the file.  The stream is registered before the command is sent, so frames that
\* overtake the handler are kept.
DownloadFaithful ==
    /\ \A i, j \in 1..Len(saved) : i < j => saved[i] < saved[j]
    /\ download = "complete" /\ ~lost => saved = [i \in 1..FileChunks |-> i]
=============================================================================
