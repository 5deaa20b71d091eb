----------------------------- MODULE AuditChain -----------------------------
(***************************************************************************)
(* The audit log of internal/audit/audit.go, a hash chain appended to by   *)
(* concurrent requests, with the verification and export handlers of       *)
(* internal/httpapi/handlers_devices.go.                                   *)
(*                                                                         *)
(* SHA-256 is taken as injective: an entry's hash is named by the entry's  *)
(* id, and the hash of nothing by 0.  The id comes from a sequence, which  *)
(* a rollback does not turn back, so ids may have gaps.                    *)
(***************************************************************************)
EXTENDS Naturals, FiniteSets

CONSTANTS
    Writer,         \* requests that record an event
    NoWriter,
    PreChain,       \* rows from before the chain: they carry no hash
    MaxEntry        \* bound: ids

ASSUME AuditAssumption == NoWriter \notin Writer /\ PreChain \in Nat /\ MaxEntry \in Nat /\ PreChain <= MaxEntry

VARIABLES
    chained,    \* ids of the committed entries of the chain
    prevHash,   \* of each of them
    nextId,     \* the sequence
    chainLock,  \* holder of pg_advisory_xact_lock
    record,     \* of each request: its step in Record, the hash it read, its id
    verdict     \* what the last verification of each request returned

auditVars == <<chained, prevHash, nextId, chainLock, record, verdict>>

EntryId == 1..MaxEntry
NoRecord == [at |-> "idle", prev |-> 0, id |-> 0]

AuditTypeOK ==
    /\ chained \subseteq EntryId
    /\ prevHash \in [EntryId -> 0..MaxEntry]
    /\ nextId \in 1..MaxEntry + 1
    /\ chainLock \in Writer \cup {NoWriter}
    /\ record \in [Writer -> [at : {"idle", "begun", "locked", "read", "inserted"}, prev : 0..MaxEntry, id : 0..MaxEntry]]
    /\ verdict \in [Writer -> BOOLEAN]

AuditInit ==
    /\ chained = {} /\ prevHash = [i \in EntryId |-> 0] /\ nextId = PreChain + 1
    /\ chainLock = NoWriter
    /\ record = [w \in Writer |-> NoRecord]
    /\ verdict = [w \in Writer |-> TRUE]

----------------------------------------------------------------------------
\* VerifyChain: rows in the order of their ids, after those without a hash; each must
\* name the one before it, the first nothing.
Linked(i) ==
    /\ prevHash[i] < i
    /\ prevHash[i] \in chained \cup {0}
    /\ \A j \in chained : j < i => j <= prevHash[i]

VerifyChain == \A i \in chained : Linked(i)

\* Record: begin; every handler that audits calls it.
BeginRecord(w) ==
    /\ record[w].at = "idle"
    /\ record' = [record EXCEPT ![w].at = "begun"]
    /\ UNCHANGED <<chained, prevHash, nextId, chainLock, verdict>>

\* handleVerifyAuditChain: the verdict is itself recorded.
VerifyAudit(w) ==
    /\ record[w].at = "idle"
    /\ verdict' = [verdict EXCEPT ![w] = VerifyChain]
    /\ record' = [record EXCEPT ![w].at = "begun"]
    /\ UNCHANGED <<chained, prevHash, nextId, chainLock>>

\* Mutant: the chain lock is not taken.
LockNothing(w) ==
    /\ record[w].at = "begun"
    /\ record' = [record EXCEPT ![w].at = "locked"]
    /\ UNCHANGED <<chained, prevHash, nextId, chainLock, verdict>>

\* pg_advisory_xact_lock.
LockChain(w) ==
    /\ record[w].at = "begun" /\ chainLock = NoWriter
    /\ chainLock' = w
    /\ record' = [record EXCEPT ![w].at = "locked"]
    /\ UNCHANGED <<chained, prevHash, nextId, verdict>>

\* SELECT entry_hash ... ORDER BY id DESC LIMIT 1, of what is committed.
ReadNewest(w) ==
    /\ record[w].at = "locked"
    /\ \E p \in chained \cup {0} :
          /\ \A j \in chained : j <= p
          /\ record' = [record EXCEPT ![w].at = "read", ![w].prev = p]
    /\ UNCHANGED <<chained, prevHash, nextId, chainLock, verdict>>

\* computeEntryHash and the INSERT.
InsertEntry(w) ==
    /\ record[w].at = "read" /\ nextId <= MaxEntry
    /\ record' = [record EXCEPT ![w] = [at |-> "inserted", prev |-> @.prev, id |-> nextId]]
    /\ nextId' = nextId + 1
    /\ UNCHANGED <<chained, prevHash, chainLock, verdict>>

ReleaseLock(w) == chainLock' = IF chainLock = w THEN NoWriter ELSE chainLock

\* Commit, which releases the lock.
CommitEntry(w) ==
    /\ record[w].at = "inserted"
    /\ chained' = chained \cup {record[w].id}
    /\ prevHash' = [prevHash EXCEPT ![record[w].id] = record[w].prev]
    /\ record' = [record EXCEPT ![w] = NoRecord]
    /\ ReleaseLock(w)
    /\ UNCHANGED <<nextId, verdict>>

\* A statement fails or the request is cancelled: Rollback; the callers ignore the error.
RollbackEntry(w) ==
    /\ record[w].at # "idle"
    /\ record' = [record EXCEPT ![w] = NoRecord]
    /\ ReleaseLock(w)
    /\ UNCHANGED <<chained, prevHash, nextId, verdict>>

AuditNext ==
    \E w \in Writer :
        \/ BeginRecord(w) \/ VerifyAudit(w) \/ LockChain(w) \/ ReadNewest(w)
        \/ InsertEntry(w) \/ CommitEntry(w) \/ RollbackEntry(w)

AuditSpec == AuditInit /\ [][AuditNext]_auditVars

----------------------------------------------------------------------------
\* Verification finds an unbroken chain at every moment, whatever requests append at
\* the same time and whichever of them fail half-way: no verdict is ever "broken".
ChainUnbroken == VerifyChain /\ \A w \in Writer : verdict[w]

Entries == {[id |-> i, prev |-> prevHash[i]] : i \in chained}
AuditLog == INSTANCE AppendLog WITH Id <- EntryId, log <- Entries

\* audit.go: the log is append only.  Concurrent calls of Record, committed or rolled
\* back, behave as if each appended its entry in one step, after the newest and naming
\* it; what is in the log is never changed.
AuditAppendOnly == AuditLog!Spec
=============================================================================
