------------------------------ MODULE MCStreams -----------------------------
(***************************************************************************)
(* What runs over a device's connection, each on a small instance: the     *)
(* streams, uploads, downloads, tunnels and commands.  They share the      *)
(* connection's read loop but no state; the initial state chooses one of   *)
(* them and only that one moves.                                           *)
(***************************************************************************)
EXTENDS RelayBroker, FileUpload, FileDownload, TunnelTicket, DeviceCommand

VARIABLE focus

streamsVars == <<focus, vars, uploadVars, downloadVars, ticketVars, commandVars>>

\* Every variable of every module has its type.
StreamsTypeOK == TypeOK /\ UploadTypeOK /\ DownloadTypeOK /\ TicketTypeOK /\ CommandTypeOK

\* What commands the requests send is open only if that module moves.
StreamsInit ==
    /\ focus \in {"relay", "upload", "download", "tunnel", "command"}
    /\ Init /\ UploadInit /\ DownloadInit /\ TicketInit /\ CommandInit
    /\ focus # "command" => \A r \in Request : call[r].c = "files.delete"

StreamsNext ==
    \/ /\ focus = "relay" /\ Next
       /\ UNCHANGED <<focus, uploadVars, downloadVars, ticketVars, commandVars>>
    \/ /\ focus = "upload" /\ UploadNext
       /\ UNCHANGED <<focus, vars, downloadVars, ticketVars, commandVars>>
    \/ /\ focus = "download" /\ DownloadNext
       /\ UNCHANGED <<focus, vars, uploadVars, ticketVars, commandVars>>
    \/ /\ focus = "tunnel" /\ TicketNext
       /\ UNCHANGED <<focus, vars, uploadVars, downloadVars, commandVars>>
    \/ /\ focus = "command" /\ CommandNext
       /\ UNCHANGED <<focus, vars, uploadVars, downloadVars, ticketVars>>

StreamsSpec == StreamsInit /\ [][StreamsNext]_streamsVars

\* The streams' own fairness, and that of a request handler: it runs on, its reads of
\* the body end and its timers fire.
StreamsFairSpec == StreamsSpec /\ Fairness /\ \A u \in Upload : WF_uploadVars(UploadHandler(u))
=============================================================================
