---------------------------- MODULE AgentUpdate ----------------------------
(***************************************************************************)
(* The agent's self-update (beginUpdate in internal/agentcore/update.go,   *)
(* internal/agentupdate, and the start of cmd/wr-agent/main.go): a         *)
(* verified binary is staged and swapped in, a marker file remembers the   *)
(* backup, and after MaxBootAttempts starts that never reached the server  *)
(* the backup is restored.                                                 *)
(*                                                                         *)
(* Each file operation is one step, and the process may die between any    *)
(* two.  A second update command may be handled in the two seconds between *)
(* the first one's success and the exit.  What becomes of an artifact that *)
(* cannot be downloaded or verified is an error reply and no step here.    *)
(* Renames, removals and writes of the marker may fail, the restoring      *)
(* renames included; a marker that cannot be written or read back is none. *)
(***************************************************************************)
EXTENDS Naturals

CONSTANTS
    Version,          \* agent versions
    Working,          \* those that start up and reach the server
    Crashing,         \* those that end after their start was counted; the rest may
                      \* end before that, or run on and never reach the server
    Installed,        \* the version of the installation
    NoVersion,        \* no such file
    MaxBootAttempts,  \* starts without a connection before the rollback
    MaxUpdates,       \* bound: update commands
    MaxCrashes,       \* bound: deaths of a working agent
    MaxFaults         \* bound: failed file operations

ASSUME UpdateAssumption ==
    /\ Installed \in Working /\ Working \subseteq Version /\ NoVersion \notin Version
    /\ Crashing \subseteq Version \ Working /\ MaxFaults \in Nat
    /\ MaxBootAttempts \in Nat /\ MaxUpdates \in Nat /\ MaxCrashes \in Nat

VARIABLES
    exe,       \* the files <path>, <path>.old and <path>.new
    marker,    \* update.marker: absent, or the number of boot attempts in it
    process,   \* the running process: its version and step
    exitDue,   \* the goroutine that ends the process after an update is asleep
    updates, crashes, faults

updateVars == <<exe, marker, process, exitDue, updates, crashes, faults>>

NoMarker == MaxBootAttempts + 1
Steps == {"off", "restore", "restoring", "restored", "up", "online", "forgetting",
          "staged", "cleared", "moved", "swapped", "exiting"}

UpdateTypeOK ==
    /\ exe \in [{"current", "old", "new"} -> Version \cup {NoVersion}]
    /\ marker \in 0..NoMarker
    /\ process \in [v : Version \cup {NoVersion}, at : Steps]
    /\ exitDue \in BOOLEAN
    /\ updates \in 0..MaxUpdates /\ crashes \in 0..MaxCrashes /\ faults \in 0..MaxFaults

UpdateInit ==
    /\ exe = [f \in {"current", "old", "new"} |-> IF f = "current" THEN Installed ELSE NoVersion]
    /\ marker = NoMarker
    /\ process = [v |-> Installed, at |-> "online"]
    /\ exitDue = FALSE /\ updates = 0 /\ crashes = 0 /\ faults = 0

Goto(at) == process' = [process EXCEPT !.at = at]
Off == process' = [v |-> NoVersion, at |-> "off"]
Fault(n) == faults + n <= MaxFaults /\ faults' = faults + n

Move(from, to) == exe' = [exe EXCEPT ![to] = exe[from], ![from] = NoVersion]
Remove(f) == exe' = [exe EXCEPT ![f] = NoVersion]

\* os.Remove and DeleteMarker, whose errors are ignored.
TryRemove(f) ==
    \/ Remove(f) /\ UNCHANGED faults
    \/ exe[f] # NoVersion /\ Fault(1) /\ UNCHANGED exe
DeleteMarker ==
    \/ marker' = NoMarker /\ UNCHANGED faults
    \/ marker # NoMarker /\ Fault(1) /\ UNCHANGED marker

----------------------------------------------------------------------------
(* runAgent *)

\* Mutant: the attempt is counted and not saved.
CountForgets ==
    /\ process' = [v |-> exe["current"], at |-> IF marker = MaxBootAttempts THEN "restore" ELSE "up"]
    /\ UNCHANGED <<marker, faults>>

\* Mutant: an attempt is counted without a marker.
CountAnyway ==
    /\ process' = [v |-> exe["current"], at |-> IF marker = MaxBootAttempts THEN "restore" ELSE "up"]
    /\ marker' = IF marker # MaxBootAttempts THEN marker + 1 ELSE marker
    /\ UNCHANGED faults

\* reconcilePendingUpdate: the attempt is counted, or too many were.  That the count
\* cannot be saved is only logged.
CountAttempt ==
    /\ process' = [v |-> exe["current"], at |-> IF marker = MaxBootAttempts THEN "restore" ELSE "up"]
    /\ \/ marker' = (IF marker < MaxBootAttempts THEN marker + 1 ELSE marker) /\ UNCHANGED faults
       \/ marker < MaxBootAttempts /\ Fault(1) /\ marker' \in {marker, NoMarker}

\* The service manager starts the binary.  One that ends in runAgent before
\* reconcilePendingUpdate has not counted the attempt.
StartAgent ==
    /\ process.at = "off" /\ exe["current"] # NoVersion
    /\ \/ CountAttempt
       \/ /\ exe["current"] \notin Working \cup Crashing
          /\ process' = [v |-> exe["current"], at |-> "up"]
          /\ UNCHANGED <<marker, faults>>
    /\ UNCHANGED <<exe, exitDue, updates, crashes>>

\* RestoreBackup up to its rename; without a backup the agent goes on with what it is.
Restore ==
    /\ process.at = "restore"
    /\ \/ exe["old"] = NoVersion /\ Goto("up") /\ UNCHANGED <<exe, faults>>
       \/ exe["old"] # NoVersion /\ Goto("restoring") /\ TryRemove("current")
    /\ UNCHANGED <<marker, exitDue, updates, crashes>>

\* The rename of RestoreBackup; that it failed is logged and the agent goes on, with
\* its path empty when the removal had succeeded.
RestoreRename ==
    /\ process.at = "restoring"
    /\ \/ Move("old", "current") /\ Goto("restored") /\ UNCHANGED faults
       \/ Fault(1) /\ Goto("up") /\ UNCHANGED exe
    /\ UNCHANGED <<marker, exitDue, updates, crashes>>

\* DeleteMarker and os.Exit(1).
RestoreExit ==
    /\ process.at = "restored"
    /\ DeleteMarker /\ Off
    /\ UNCHANGED <<exe, exitDue, updates, crashes>>

\* A binary that does not work ends before it reaches the server.
BootFails ==
    /\ process.at = "up" /\ process.v \notin Working
    /\ Off
    /\ UNCHANGED <<exe, marker, exitDue, updates, crashes, faults>>

\* The first connection: commitPendingUpdate removes the backup, then the marker.
FirstConnect ==
    /\ process.at = "up" /\ process.v \in Working
    /\ IF marker = NoMarker THEN Goto("online") /\ UNCHANGED <<exe, faults>>
                            ELSE Goto("forgetting") /\ TryRemove("old")
    /\ UNCHANGED <<marker, exitDue, updates, crashes>>

CommitUpdate ==
    /\ process.at = "forgetting"
    /\ DeleteMarker /\ Goto("online")
    /\ UNCHANGED <<exe, exitDue, updates, crashes>>

----------------------------------------------------------------------------
GiveUp == Goto(IF exitDue THEN "exiting" ELSE "online")

(* beginUpdate and StageAndSwap *)

\* The artifact is verified; os.WriteFile(staged).
StageBinary(v) ==
    /\ process.at \in {"online", "exiting"} /\ updates < MaxUpdates
    /\ updates' = updates + 1
    /\ exe' = [exe EXCEPT !["new"] = v]
    /\ Goto("staged")
    /\ UNCHANGED <<marker, exitDue, crashes, faults>>

\* os.Remove(backupPath).
DropOldBackup ==
    /\ process.at = "staged"
    /\ TryRemove("old") /\ Goto("cleared")
    /\ UNCHANGED <<marker, exitDue, updates, crashes>>

\* The first rename; when it fails, as it does on an empty path, the update is given up.
BackUpCurrent ==
    /\ process.at = "cleared"
    /\ \/ exe["current"] # NoVersion /\ Move("current", "old") /\ Goto("moved") /\ UNCHANGED faults
       \/ /\ IF exe["current"] = NoVersion THEN UNCHANGED faults ELSE Fault(1)
          /\ Remove("new") /\ GiveUp
    /\ UNCHANGED <<marker, exitDue, updates, crashes>>

\* Mutant: a failed rename is not undone.
MoveIntoPlaceOnly ==
    /\ process.at = "moved"
    /\ \/ Move("new", "current") /\ Goto("swapped") /\ UNCHANGED faults
       \/ Fault(1) /\ GiveUp /\ UNCHANGED exe
    /\ UNCHANGED <<marker, exitDue, updates, crashes>>

\* The second rename; when it fails the first is undone, which may fail as well.
MoveIntoPlace ==
    /\ process.at = "moved"
    /\ \/ Move("new", "current") /\ Goto("swapped") /\ UNCHANGED faults
       \/ Fault(1) /\ Move("old", "current") /\ GiveUp
       \/ Fault(2) /\ GiveUp /\ UNCHANGED exe
    /\ UNCHANGED <<marker, exitDue, updates, crashes>>

\* SaveMarker, whose failure is only logged; then the reply and two seconds.
SaveMarker ==
    /\ process.at = "swapped"
    /\ \/ marker' = 0 /\ UNCHANGED faults
       \/ Fault(1) /\ marker' \in {marker, NoMarker}
    /\ exitDue' = TRUE /\ Goto("exiting")
    /\ UNCHANGED <<exe, updates, crashes>>

ExitForUpdate ==
    /\ process.at = "exiting" /\ Off /\ exitDue' = FALSE
    /\ UNCHANGED <<exe, marker, updates, crashes, faults>>

\* The machine or the process dies, or the exit after an update comes in the middle
\* of the next one.
AgentDies ==
    /\ process.at # "off" /\ crashes < MaxCrashes
    /\ crashes' = crashes + 1 /\ Off /\ exitDue' = FALSE
    /\ UNCHANGED <<exe, marker, updates, faults>>

UpdateNext ==
    \/ StartAgent \/ Restore \/ RestoreRename \/ RestoreExit \/ BootFails \/ FirstConnect \/ CommitUpdate
    \/ \E v \in Version : StageBinary(v)
    \/ DropOldBackup \/ BackUpCurrent \/ MoveIntoPlace \/ SaveMarker \/ ExitForUpdate
    \/ AgentDies

\* The service manager restarts the agent, and the agent's own steps are taken.  Of the
\* versions that do not work only the crashing ones must end.
AgentProgress ==
    \/ StartAgent \/ Restore \/ RestoreRename \/ RestoreExit \/ FirstConnect \/ CommitUpdate
    \/ process.v \in Crashing /\ BootFails
    \/ DropOldBackup \/ BackUpCurrent \/ MoveIntoPlace \/ SaveMarker \/ ExitForUpdate

UpdateSpec == UpdateInit /\ [][UpdateNext]_updateVars
UpdateFairSpec == UpdateSpec /\ WF_updateVars(AgentProgress)

----------------------------------------------------------------------------
\* A binary is at the agent's path, or the rename that puts one there comes next.
PathServed == exe["current"] # NoVersion \/ process.at \in {"moved", "restoring"}

\* StageAndSwap and RestoreBackup: it takes a death of the process, two failed renames
\* of one swap, or the failed rename of a rollback to leave the install without a
\* binary.  No single failure of a swap does, nor an exit, a start or a second update.
InstallHasBinary ==
    [][PathServed => \/ PathServed' \/ AgentDies \/ faults' = faults + 2
                     \/ process.at = "restoring" /\ faults' = faults + 1]_updateVars

\* What is installed works, or ends once its start was counted and there are a marker
\* and a working backup.
Recoverable ==
    \/ exe["current"] \in Working
    \/ exe["current"] \in Crashing /\ marker # NoMarker /\ exe["old"] \in Working

\* An update to a version that ends after its start was counted is rolled back: as long
\* as the installation is recoverable the agent is online again and again, however its
\* process dies and whatever file operations fail on the way.
BadUpdateRolledBack == []<>(process.at = "online" \/ ~Recoverable)
=============================================================================
