----------------------------- MODULE FileUpload -----------------------------
(***************************************************************************)
(* Uploads of a file to a device (handleFilesUpload in                     *)
(* internal/httpapi/handlers_files.go, the agent's fileTransferManager in  *)
(* internal/agentcore/files.go and the writer of                           *)
(* internal/platform/linux/files_linux.go).                                *)
(*                                                                         *)
(* The uploads here go to one path of one device, so they share the        *)
(* temporary file's name; each has its own open file with its own offset.  *)
(* A file is the sequence of chunks in it.  The connection may be lost and *)
(* come back while an upload is under way: a frame sent when it is down    *)
(* fails, or vanishes as long as the server has not noticed.               *)
(***************************************************************************)
EXTENDS Naturals, Sequences

CONSTANTS
    Upload,     \* upload requests; also names the file each may create
    NoUpload,   \* no file; as the target, the file that was there before
    Hole,       \* bytes nobody wrote, before a writer's offset
    Chunks,     \* chunks of each request's body
    MaxLinkLoss \* bound: losses of the connection

ASSUME UploadAssumption == NoUpload \notin Upload /\ Chunks \in Nat \ {0} /\ MaxLinkLoss \in Nat

VARIABLES
    upload,   \* handleFilesUpload: the step that is next, chunks sent
    wire,     \* server to agent, in order: chunk n, 0 for the EOF marker, "open"
    ready,    \* the agent's answer to the command, on its way
    result,   \* the agent's command_result for the stream, on its way
    writer,   \* fileTransferManager.uploads: the open file, its offset
    tmp,      \* the file named <path>.wr-upload.tmp
    target,   \* the file named <path>
    data,     \* what is in each file
    link,     \* the connection is up
    losses

uploadVars == <<upload, wire, ready, result, writer, tmp, target, data, link, losses>>

Chunk == Upload \X (1..Chunks)
Answer == {"none", "success", "error"}

UploadTypeOK ==
    /\ upload \in [Upload -> [at : {"idle", "asking", "sending", "ended", "waiting", "confirmed", "failed"}, sent : 0..Chunks]]
    /\ wire \in Seq([u : Upload, what : {"open", "data", "eof"}, n : 0..Chunks])
    /\ ready \in [Upload -> Answer] /\ result \in [Upload -> Answer]
    /\ writer \in [Upload -> [open : BOOLEAN, file : Upload \cup {NoUpload}, pos : 0..Chunks]]
    /\ tmp \in Upload \cup {NoUpload} /\ target \in Upload \cup {NoUpload}
    /\ data \in [Upload -> Seq(Chunk \cup {Hole})]
    /\ link \in BOOLEAN /\ losses \in 0..MaxLinkLoss

ClosedWriter == [open |-> FALSE, file |-> NoUpload, pos |-> 0]
NoAnswers == [u \in Upload |-> "none"]

UploadInit ==
    /\ upload = [u \in Upload |-> [at |-> "idle", sent |-> 0]]
    /\ wire = <<>> /\ ready = NoAnswers /\ result = NoAnswers
    /\ writer = [u \in Upload |-> ClosedWriter]
    /\ tmp = NoUpload /\ target = NoUpload
    /\ data = [u \in Upload |-> <<>>]
    /\ link = TRUE /\ losses = 0

Outgoing(u, what, n) == [u |-> u, what |-> what, n |-> n]

\* connection.write: fails, or is lost unnoticed, when the connection is gone.
WriteOut(frame) == wire' = IF link THEN Append(wire, frame) ELSE wire
UploadAt(u, at) == upload' = [upload EXCEPT ![u].at = at]

----------------------------------------------------------------------------
(* handleFilesUpload *)

UploadStart(u) ==
    /\ upload[u].at = "idle"
    /\ WriteOut(Outgoing(u, "open", 0))
    /\ \/ UploadAt(u, "asking")
       \/ ~link /\ UploadAt(u, "failed")
    /\ UNCHANGED <<ready, result, writer, tmp, target, data, link, losses>>

UploadAnswered(u) ==
    /\ upload[u].at = "asking" /\ ready[u] # "none"
    /\ UploadAt(u, IF ready[u] = "success" THEN "sending" ELSE "failed")
    /\ ready' = [ready EXCEPT ![u] = "none"]
    /\ UNCHANGED <<wire, result, writer, tmp, target, data, link, losses>>

\* One turn of the loop: a chunk of the body is sent, or Send returns an error.
UploadSend(u) ==
    /\ upload[u].at = "sending" /\ upload[u].sent < Chunks
    /\ WriteOut(Outgoing(u, "data", upload[u].sent + 1))
    /\ \/ upload' = [upload EXCEPT ![u].sent = @ + 1]
       \/ ~link /\ UploadAt(u, "failed")
    /\ UNCHANGED <<ready, result, writer, tmp, target, data, link, losses>>

\* The body ends early or is too large: the handler returns and tells the agent nothing.
UploadBodyFails(u) ==
    /\ upload[u].at = "sending" /\ upload[u].sent < Chunks
    /\ UploadAt(u, "failed")
    /\ UNCHANGED <<wire, ready, result, writer, tmp, target, data, link, losses>>

\* The EOF marker; an error of Send is ignored.
UploadEof(u) ==
    /\ upload[u].at = "sending" /\ upload[u].sent = Chunks
    /\ WriteOut(Outgoing(u, "eof", 0))
    /\ UploadAt(u, "ended")
    /\ UNCHANGED <<ready, result, writer, tmp, target, data, link, losses>>

\* WaitForCorrelation registers the waiter, after the marker is on its way.
UploadWait(u) ==
    /\ upload[u].at = "ended"
    /\ \/ UploadAt(u, "waiting")
       \/ ~link /\ UploadAt(u, "failed")
    /\ UNCHANGED <<wire, ready, result, writer, tmp, target, data, link, losses>>

\* tryDeliver: a result nobody waits for yet is dropped.
UploadResult(u) ==
    /\ result[u] # "none"
    /\ result' = [result EXCEPT ![u] = "none"]
    /\ IF upload[u].at = "waiting" THEN UploadAt(u, IF result[u] = "success" THEN "confirmed" ELSE "failed")
                                   ELSE UNCHANGED upload
    /\ UNCHANGED <<wire, ready, writer, tmp, target, data, link, losses>>

\* Mutant: WaitForCorrelation waits without a deadline.
TimeoutAskingOnly(u) ==
    /\ upload[u].at = "asking"
    /\ UploadAt(u, "failed")
    /\ UNCHANGED <<wire, ready, result, writer, tmp, target, data, link, losses>>

UploadTimeout(u) ==
    /\ upload[u].at \in {"asking", "waiting"}
    /\ UploadAt(u, "failed")
    /\ UNCHANGED <<wire, ready, result, writer, tmp, target, data, link, losses>>

----------------------------------------------------------------------------
(* The agent's read loop *)

\* Close: the open file's name is given up, whatever file has it now.
Rename(u) ==
    /\ writer' = [writer EXCEPT ![u] = ClosedWriter]
    /\ target' = IF tmp = NoUpload THEN target ELSE tmp
    /\ tmp' = NoUpload

Received(u, what) == wire # <<>> /\ Head(wire).u = u /\ Head(wire).what = what /\ wire' = Tail(wire)

\* CmdFilesUpload: WriteFile creates or truncates the temporary file; or policy
\* or the operating system refuse.
AgentOpen(u) ==
    LET file == IF tmp = NoUpload THEN u ELSE tmp
    IN /\ Received(u, "open")
       /\ \/ /\ tmp' = file
             /\ data' = [data EXCEPT ![file] = <<>>]
             /\ writer' = [writer EXCEPT ![u] = [open |-> TRUE, file |-> file, pos |-> 0]]
             /\ ready' = [ready EXCEPT ![u] = "success"]
          \/ ready' = [ready EXCEPT ![u] = "error"] /\ UNCHANGED <<tmp, data, writer>>
       /\ UNCHANGED <<upload, result, target, link, losses>>

\* The write at the writer's offset.
Put(s, p, x) ==
    [i \in 1..(IF p > Len(s) THEN p ELSE Len(s)) |-> IF i = p THEN x ELSE IF i <= Len(s) THEN s[i] ELSE Hole]

\* Mutant: the error of a write is ignored.
AgentWriteIgnores(u) ==
    /\ Received(u, "data")
    /\ \/ /\ writer[u].open
          /\ data' = [data EXCEPT ![writer[u].file] = Put(@, writer[u].pos + 1, <<u, Head(wire).n>>)]
          /\ writer' = [writer EXCEPT ![u].pos = @ + 1]
          /\ UNCHANGED <<tmp, target>>
       \/ writer[u].open /\ UNCHANGED <<tmp, target, writer, data>>
       \/ ~writer[u].open /\ UNCHANGED <<tmp, target, writer, data>>
    /\ UNCHANGED <<upload, ready, result, link, losses>>

\* handleFileBinaryFrame; a failed write closes the writer, which renames.
AgentWrite(u) ==
    /\ Received(u, "data")
    /\ \/ /\ writer[u].open
          /\ data' = [data EXCEPT ![writer[u].file] = Put(@, writer[u].pos + 1, <<u, Head(wire).n>>)]
          /\ writer' = [writer EXCEPT ![u].pos = @ + 1]
          /\ UNCHANGED <<tmp, target>>
       \/ writer[u].open /\ Rename(u) /\ UNCHANGED data
       \/ ~writer[u].open /\ UNCHANGED <<tmp, target, writer, data>>
    /\ UNCHANGED <<upload, ready, result, link, losses>>

\* The EOF marker: Close and command_result.  Close fails when the file's own Close
\* does (the temporary file is removed) or when the temporary name is gone.
AgentEof(u) ==
    /\ Received(u, "eof")
    /\ \/ /\ writer[u].open /\ Rename(u)
          /\ result' = [result EXCEPT ![u] = IF tmp = NoUpload THEN "error" ELSE "success"]
       \/ /\ writer[u].open
          /\ writer' = [writer EXCEPT ![u] = ClosedWriter] /\ tmp' = NoUpload /\ UNCHANGED target
          /\ result' = [result EXCEPT ![u] = "error"]
       \/ ~writer[u].open /\ UNCHANGED <<tmp, target, writer, result>>
    /\ UNCHANGED <<upload, ready, data, link, losses>>

----------------------------------------------------------------------------
\* The connection ends: what is on its way is lost, and runSession's closeAll closes
\* every writer, which renames the first one's temporary file.
LinkLost ==
    /\ link /\ losses < MaxLinkLoss
    /\ link' = FALSE /\ losses' = losses + 1
    /\ wire' = <<>> /\ ready' = NoAnswers /\ result' = NoAnswers
    /\ writer' = [u \in Upload |-> ClosedWriter]
    /\ IF \E u \in Upload : writer[u].open
       THEN target' = (IF tmp = NoUpload THEN target ELSE tmp) /\ tmp' = NoUpload
       ELSE UNCHANGED <<target, tmp>>
    /\ UNCHANGED <<upload, data>>

\* A new connection has a new fileTransferManager.
LinkBack ==
    /\ ~link /\ link' = TRUE
    /\ UNCHANGED <<upload, wire, ready, result, writer, tmp, target, data, losses>>

UploadNext ==
    \/ \E u \in Upload :
          \/ UploadStart(u) \/ UploadAnswered(u) \/ UploadSend(u) \/ UploadBodyFails(u) \/ UploadEof(u)
          \/ UploadWait(u) \/ UploadResult(u) \/ UploadTimeout(u)
          \/ AgentOpen(u) \/ AgentWrite(u) \/ AgentEof(u)
    \/ LinkLost \/ LinkBack

\* The handler's own steps and its two deadlines; the agent need not answer.
UploadHandler(u) ==
    UploadAnswered(u) \/ UploadSend(u) \/ UploadEof(u) \/ UploadWait(u) \/ UploadResult(u) \/ UploadTimeout(u)

UploadSpec == UploadInit /\ [][UploadNext]_uploadVars

----------------------------------------------------------------------------
Whole(u) == [i \in 1..Chunks |-> <<u, i>>]

\* "ok" means the file is there: once handleFilesUpload has confirmed an upload, and
\* no other upload to the path was started, the device's file is the request's body,
\* through write errors, lost connections and results that came too early.
ConfirmedIsWhole ==
    \A u \in Upload :
        upload[u].at = "confirmed" /\ (\A v \in Upload \ {u} : upload[v].at = "idle")
            => target # NoUpload /\ data[target] = Whole(u)

\* Every upload request is answered, also when the agent never confirms.
UploadReturns ==
    []<>(\A u \in Upload : upload[u].at \in {"idle", "confirmed", "failed"})
=============================================================================
