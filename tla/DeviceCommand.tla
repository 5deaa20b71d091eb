--------------------------- MODULE DeviceCommand ---------------------------
(***************************************************************************)
(* Device commands (runCommand and its callers in                          *)
(* internal/httpapi/handlers_remote.go and handlers_files.go,              *)
(* handleDeviceCommand in internal/agentcore/commands.go): a request sends *)
(* a typed command to the agent and waits for the result with the same     *)
(* request id.                                                             *)
(*                                                                         *)
(* The agent runs commands one at a time in its read loop, so a slow one   *)
(* delays those behind it past the deadline of the requests that wait for  *)
(* them: they fail, and their commands still run.                          *)
(***************************************************************************)
EXTENDS Naturals, Sequences, FiniteSets

CONSTANTS
    Request,    \* HTTP requests, each with the message id of its command
    NoRequest,  \* the agent's read loop waits for a message
    Policy,     \* the flags the agent's local policy grants
    Asked       \* the commands the requests may carry

VARIABLES
    call,       \* each request's step and command
    queue,      \* commands on their way to the agent
    running,    \* the command the read loop of the connection executes
    orphans,    \* commands that outlived the connection they came by
    effects,    \* how often each request's command was executed
    replies,    \* results on their way back
    audited,    \* requests recorded in the audit log
    connected

commandVars == <<call, queue, running, orphans, effects, replies, audited, connected>>

----------------------------------------------------------------------------
(* handleDeviceCommand: the commands and the policy flag each needs *)

ServiceCommands == {"services.list", "services.start", "services.stop", "services.restart"}
ProcessCommands == {"processes.list", "processes.terminate"}
FileWriteCommands == {"files.mkdir", "files.rename", "files.delete"}
FileReadCommands == {"files.list", "logs.query"}
Command == ServiceCommands \cup ProcessCommands \cup FileWriteCommands \cup FileReadCommands

ASSUME CommandAssumption == NoRequest \notin Request /\ Asked \subseteq Command

\* Listing processes needs no flag.
Permits(c) ==
    CASE c \in ServiceCommands -> "service_control" \in Policy
      [] c = "processes.list" -> TRUE
      [] c = "processes.terminate" -> "process_terminate" \in Policy
      [] c \in FileWriteCommands -> "files_write" \in Policy
      [] OTHER -> "files_read" \in Policy

(* What the handlers record when a command succeeded *)
AuditedService == ServiceCommands \ {"services.list"}
AuditedProcess == {"processes.terminate"}
AuditedFile == FileWriteCommands
AuditedLog == {"logs.query"}
Audited == AuditedService \cup AuditedProcess \cup AuditedFile \cup AuditedLog

----------------------------------------------------------------------------
CommandTypeOK ==
    /\ call \in [Request -> [at : {"idle", "waiting", "answered", "ok", "refused", "unanswered"}, c : Command]]
    /\ queue \in Seq(Request)
    /\ running \in Request \cup {NoRequest} /\ orphans \in SUBSET Request
    /\ effects \in [Request -> Nat]
    /\ replies \in SUBSET [r : Request, ok : BOOLEAN]
    /\ audited \in SUBSET Request /\ connected \in BOOLEAN

CommandInit ==
    /\ call \in [Request -> [at : {"idle"}, c : Asked]]
    /\ queue = <<>> /\ running = NoRequest /\ orphans = {}
    /\ effects = [r \in Request |-> 0]
    /\ replies = {} /\ audited = {} /\ connected = TRUE

RequestAt(r, at) == call' = [call EXCEPT ![r].at = at]

\* runCommand, SendAndWait: the waiter is registered, then the command written.
SendCommand(r) ==
    /\ call[r].at = "idle"
    /\ IF connected THEN queue' = Append(queue, r) /\ RequestAt(r, "waiting")
                    ELSE RequestAt(r, "unanswered") /\ UNCHANGED queue
    /\ UNCHANGED <<running, orphans, effects, replies, audited, connected>>

\* The deadline, 15 s, or the client goes away.
CommandTimeout(r) ==
    /\ call[r].at = "waiting"
    /\ RequestAt(r, "unanswered")
    /\ UNCHANGED <<queue, running, orphans, effects, replies, audited, connected>>

\* Mutant: a result goes to whoever waits.
DeliverToAnyone ==
    \E m \in replies, r \in Request :
        /\ call[r].at = "waiting"
        /\ replies' = replies \ {m}
        /\ RequestAt(r, IF m.ok THEN "answered" ELSE "refused")
        /\ UNCHANGED <<queue, running, orphans, effects, audited, connected>>

\* tryDeliver: the result goes to the waiter with its request id, or to nobody.
DeliverReply ==
    \E m \in replies :
        /\ replies' = replies \ {m}
        /\ IF call[m.r].at = "waiting" THEN RequestAt(m.r, IF m.ok THEN "answered" ELSE "refused")
                                       ELSE UNCHANGED call
        /\ UNCHANGED <<queue, running, orphans, effects, audited, connected>>

\* The handler's end: the audit record, when the command has one, and the answer.
ReportCommand(r) ==
    /\ call[r].at = "answered"
    /\ RequestAt(r, "ok")
    /\ audited' = IF call[r].c \in Audited THEN audited \cup {r} ELSE audited
    /\ UNCHANGED <<queue, running, orphans, effects, replies, connected>>

\* The agent reads a command: denied by policy or malformed, or it starts.
AgentTakes ==
    /\ running = NoRequest /\ queue # <<>>
    /\ queue' = Tail(queue)
    /\ IF Permits(call[Head(queue)].c)
       THEN running' = Head(queue) /\ UNCHANGED replies
       ELSE replies' = replies \cup {[r |-> Head(queue), ok |-> FALSE]} /\ UNCHANGED running
    /\ UNCHANGED <<call, orphans, effects, audited, connected>>

\* The provider returns and the result is written.
AgentExecutes(ok) ==
    /\ running # NoRequest
    /\ running' = NoRequest
    /\ effects' = IF ok THEN [effects EXCEPT ![running] = @ + 1] ELSE effects
    /\ replies' = replies \cup {[r |-> running, ok |-> ok]}
    /\ UNCHANGED <<call, queue, orphans, audited, connected>>

\* The connection is gone: the provider still returns, nobody hears of it.
OrphanExecutes(ok) ==
    \E r \in orphans :
        /\ orphans' = orphans \ {r}
        /\ effects' = IF ok THEN [effects EXCEPT ![r] = @ + 1] ELSE effects
        /\ UNCHANGED <<call, queue, running, replies, audited, connected>>

\* runSession ends; its read loop may still be busy with a command.
CommandLinkLost ==
    /\ connected /\ connected' = FALSE
    /\ queue' = <<>> /\ replies' = {} /\ running' = NoRequest
    /\ orphans' = orphans \cup ({running} \ {NoRequest})
    /\ UNCHANGED <<call, effects, audited>>

CommandLinkBack ==
    /\ ~connected /\ connected' = TRUE
    /\ UNCHANGED <<call, queue, running, orphans, effects, replies, audited>>

CommandNext ==
    \/ \E r \in Request : SendCommand(r) \/ CommandTimeout(r) \/ ReportCommand(r)
    \/ DeliverReply \/ AgentTakes
    \/ \E ok \in BOOLEAN : AgentExecutes(ok) \/ OrphanExecutes(ok)
    \/ CommandLinkLost \/ CommandLinkBack

CommandSpec == CommandInit /\ [][CommandNext]_commandVars

----------------------------------------------------------------------------
\* What the audit log and the administrator are told happened did happen, once:
\* results are matched by request id, however late or out of order they come, and a
\* command is not repeated when the connection is lost while it runs.
ReportedWasDone ==
    \A r \in Request :
        /\ call[r].at = "ok" \/ r \in audited => effects[r] = 1
        /\ effects[r] <= 1
=============================================================================
