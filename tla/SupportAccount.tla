--------------------------- MODULE SupportAccount ---------------------------
(***************************************************************************)
(* The remote-support account of one device: provisioning in               *)
(* internal/agentcore/session.go, the rotate command in commands.go, the   *)
(* report's handler in internal/controlhub/hub.go, the stored credential   *)
(* in internal/support/support.go, its sweeper in rotation.go and the      *)
(* handlers in internal/httpapi/handlers_support.go.                       *)
(*                                                                         *)
(* Every call of EnsureSupportAccount sets a fresh password, so of any     *)
(* password all that matters is whether it is the one now set.  The        *)
(* provisioning goroutine and the command loop call it concurrently, and   *)
(* both may outlive the connection they belong to: then their report       *)
(* fails, while those of the next connection are already at work.          *)
(***************************************************************************)
EXTENDS Naturals, Sequences, FiniteSets

CONSTANTS
    MaxQueued,      \* bound: rotate commands, and reports, in flight
    MaxTasks,       \* bound: goroutines at work at a time
    MaxDrops,       \* bound: losses of the connection and writes to the database that fail
    MaxTurns        \* bound: changes of the interval and rotations an administrator asks for

ASSUME SupportAssumption == {MaxQueued, MaxTasks} \subseteq Nat \ {0} /\ MaxDrops \in Nat /\ MaxTurns \in Nat

VARIABLES
    provisioned,\* the marker file exists
    task,       \* each goroutine: its job and step, whether its connection is the one now
                \* up, and whether its password is still set
    commands,   \* rotate commands on their way
    reports,    \* reports on their way: TRUE for the password now set
    credential, \* device_support_credentials: "none", "stale" or "current"
    rotating,   \* SupportCredentialRotationDays > 0
    attached,   \* the control channel is up
    drops, turns

supportVars == <<provisioned, task, commands, reports, credential, rotating, attached, drops, turns>>

Task == 1..MaxTasks

SupportTypeOK ==
    /\ provisioned \in BOOLEAN
    /\ task \in [Task -> [job : {"none", "provision", "command"}, at : {"idle", "asked", "set", "reported"},
                         here : BOOLEAN, fresh : BOOLEAN]]
    /\ commands \in 0..MaxQueued /\ reports \in Seq(BOOLEAN)
    /\ credential \in {"none", "stale", "current"}
    /\ rotating \in BOOLEAN /\ attached \in BOOLEAN
    /\ drops \in 0..MaxDrops /\ turns \in 0..MaxTurns

NoTask == [job |-> "none", at |-> "idle", here |-> FALSE, fresh |-> FALSE]
Begin(t, j) ==
    /\ task[t] = NoTask /\ \A u \in 1..t - 1 : task[u] # NoTask
    /\ task' = [task EXCEPT ![t] = [job |-> j, at |-> "asked", here |-> TRUE, fresh |-> FALSE]]
CommandRuns == \E t \in Task : task[t].job = "command" /\ task[t].here

SupportInit ==
    /\ provisioned = FALSE /\ task = [t \in Task |-> NoTask]
    /\ commands = 0 /\ reports = <<>> /\ credential = "none"
    /\ rotating \in BOOLEAN /\ attached = FALSE /\ drops = 0 /\ turns = 0

----------------------------------------------------------------------------
(* The agent *)

\* RunSession: provisioning starts with the connection, unless the marker is there.
SessionStarts ==
    /\ ~attached /\ attached' = TRUE
    /\ IF provisioned THEN UNCHANGED task ELSE \E t \in Task : Begin(t, "provision")
    /\ UNCHANGED <<provisioned, commands, reports, credential, rotating, drops, turns>>

\* handleDeviceCommand, CmdRotateSupportCredential.
TakeRotate ==
    /\ attached /\ commands > 0 /\ ~CommandRuns
    /\ commands' = commands - 1
    /\ \E t \in Task : Begin(t, "command")
    /\ UNCHANGED <<provisioned, reports, credential, rotating, attached, drops, turns>>

\* EnsureSupportAccount: every password known elsewhere is now an old one.
EnsureSupportAccount(t) ==
    /\ task[t].at = "asked"
    /\ task' = [u \in Task |-> IF u = t THEN [task[t] EXCEPT !.at = "set", !.fresh = TRUE]
                                        ELSE [task[u] EXCEPT !.fresh = FALSE]]
    /\ reports' = [i \in DOMAIN reports |-> FALSE]
    /\ credential' = IF credential = "current" THEN "stale" ELSE credential
    /\ UNCHANGED <<provisioned, commands, rotating, attached, drops, turns>>

\* It fails: the command is answered with an error, provisioning waits for a reconnect.
EnsureFails(t) ==
    /\ task[t].at = "asked" /\ task' = [task EXCEPT ![t] = NoTask]
    /\ UNCHANGED <<provisioned, commands, reports, credential, rotating, attached, drops, turns>>

\* writeEnvelope of the report; it fails when the goroutine's connection is gone.
ReportCredential(t) ==
    /\ task[t].at = "set"
    /\ \/ /\ task[t].here /\ Len(reports) < MaxQueued
          /\ reports' = Append(reports, task[t].fresh)
          /\ task' = [task EXCEPT ![t] = IF @.job = "provision" THEN [@ EXCEPT !.at = "reported"] ELSE NoTask]
       \/ /\ ~task[t].here /\ task' = [task EXCEPT ![t] = NoTask] /\ UNCHANGED reports
    /\ UNCHANGED <<provisioned, commands, credential, rotating, attached, drops, turns>>

\* The marker file; failing to write it is only logged.
WriteMarker(t) ==
    /\ task[t].at = "reported"
    /\ provisioned' \in {TRUE, provisioned}
    /\ task' = [task EXCEPT ![t] = NoTask]
    /\ UNCHANGED <<commands, reports, credential, rotating, attached, drops, turns>>

\* The connection breaks: what was in flight is lost.
SupportLinkDrops ==
    /\ attached /\ drops < MaxDrops
    /\ attached' = FALSE /\ drops' = drops + 1
    /\ commands' = 0 /\ reports' = <<>>
    /\ task' = [t \in Task |-> [task[t] EXCEPT !.here = FALSE]]
    /\ UNCHANGED <<provisioned, credential, rotating, turns>>

----------------------------------------------------------------------------
(* The server *)

\* Mutant: ON CONFLICT DO NOTHING.
UpsertFirst ==
    /\ reports # <<>> /\ reports' = Tail(reports)
    /\ credential' = IF credential = "none" THEN (IF Head(reports) THEN "current" ELSE "stale") ELSE credential
    /\ UNCHANGED <<provisioned, task, commands, rotating, attached, drops, turns>>

\* handleMessage, Upsert.
Upsert ==
    /\ reports # <<>> /\ reports' = Tail(reports)
    /\ credential' = IF Head(reports) THEN "current" ELSE "stale"
    /\ UNCHANGED <<provisioned, task, commands, rotating, attached, drops, turns>>

\* The write fails, which is only logged: the agent believes it has reported.
UpsertFails ==
    /\ reports # <<>> /\ reports' = Tail(reports)
    /\ drops < MaxDrops /\ drops' = drops + 1
    /\ UNCHANGED <<provisioned, task, commands, credential, rotating, attached, turns>>

\* RunRotationSweeper: a row that is due, of a device that is online.  Every row
\* becomes due in the end; the sweep is hourly, so nothing of the last one is in flight.
RotateDue ==
    /\ rotating /\ credential # "none" /\ attached
    /\ commands = 0 /\ reports = <<>> /\ ~CommandRuns
    /\ commands' = commands + 1
    /\ UNCHANGED <<provisioned, task, reports, credential, rotating, attached, drops, turns>>

\* handleRotateSupportCredential: row or not.
RotateNow ==
    /\ attached /\ commands < MaxQueued /\ turns < MaxTurns
    /\ commands' = commands + 1 /\ turns' = turns + 1
    /\ UNCHANGED <<provisioned, task, reports, credential, rotating, attached, drops>>

\* SetSupportCredentialRotationDays, read by the sweeper at its next tick.
SetRotationDays ==
    /\ turns < MaxTurns /\ turns' = turns + 1 /\ rotating' = ~rotating
    /\ UNCHANGED <<provisioned, task, commands, reports, credential, attached, drops>>

SupportNext ==
    \/ SessionStarts \/ TakeRotate \/ SupportLinkDrops
    \/ \E t \in Task : EnsureSupportAccount(t) \/ EnsureFails(t) \/ ReportCredential(t) \/ WriteMarker(t)
    \/ Upsert \/ UpsertFails \/ RotateDue \/ RotateNow \/ SetRotationDays

SupportSpec == SupportInit /\ [][SupportNext]_supportVars

----------------------------------------------------------------------------
\* rotation.go: nothing is lost or skipped permanently.  While rotation stays enabled,
\* a device with a stored credential comes to have the password that is set on it,
\* whatever reports were lost, not stored or overtook one another.
CredentialConverges == []<>(credential = "none" \/ credential = "current" \/ ~rotating)
=============================================================================
