--------------------------- MODULE RecordProofs ----------------------------
(***************************************************************************)
(* The audit log, the alerts and the traffic history, for any number of    *)
(* requests, entries, rules, devices, samples and lost connections.        *)
(*                                                                         *)
(* Audit log.  Whoever is past pg_advisory_xact_lock holds it, so the      *)
(* entry a writer has read is still the newest when it commits, and the id *)
(* it drew from the sequence is above every committed one.                 *)
(*                                                                         *)
(* Alerts.  OpenIfNotExists is a SELECT and an INSERT without a            *)
(* transaction.  Only the one sweeper inserts, and what administrators do  *)
(* between the two statements never makes an alert live, so the pair the   *)
(* SELECT found without an alert has none at the INSERT.                   *)
(*                                                                         *)
(* Traffic history.  A batch is the oldest part of the store, and what the *)
(* sampler adds is newer; so what is deleted up to the last id of a batch  *)
(* was in the batch, and the batch was written to a connection.            *)
(***************************************************************************)
EXTENDS Integers, AuditChain, Alerting, NetworkTraffic, FiniteSetTheorems, TLAPS

----------------------------------------------------------------------------
(* Audit log *)

\* The type of a request's locals in Record.
RecordRow == [at : {"idle", "begun", "locked", "read", "inserted"}, prev : 0..MaxEntry, id : 0..MaxEntry]

\* The lock is held from LockChain to the end of the transaction.
Exclusive == \A w \in Writer : record[w].at \in {"locked", "read", "inserted"} => chainLock = w

\* What was read as the newest entry is the newest entry.
Newest == \A w \in Writer : record[w].at \in {"read", "inserted"} =>
    /\ record[w].prev \in chained \cup {0}
    /\ \A j \in chained : j <= record[w].prev

\* Ids are drawn from the sequence in order.
Drawn ==
    /\ \A i \in chained : i < nextId
    /\ \A w \in Writer : record[w].at = "inserted" =>
          record[w].id \in EntryId /\ record[w].id < nextId /\ record[w].prev < record[w].id

AuditInv == AuditTypeOK /\ Exclusive /\ Newest /\ Drawn /\ ChainUnbroken

\* The model starts with an empty chain after PreChain rows without a hash.
LEMMA AuditInitially == AuditInit => AuditInv
  BY AuditAssumption DEF AuditInit, AuditInv, AuditTypeOK, Exclusive, Newest, Drawn, ChainUnbroken, VerifyChain,
     NoRecord, EntryId

\* Steps of Record before the INSERT, and the verification.
LEMMA ReadingPreserves ==
    ASSUME AuditInv, NEW w \in Writer, BeginRecord(w) \/ VerifyAudit(w) \/ LockChain(w) \/ ReadNewest(w)
    PROVE  AuditInv'
  <1> USE AuditAssumption DEF AuditInv, EntryId
  <1>1. CASE BeginRecord(w)
    <2>1. AuditTypeOK' BY <1>1, Zenon DEF BeginRecord, AuditTypeOK
    <2>2. (Exclusive /\ Newest /\ Drawn)' BY <1>1 DEF BeginRecord, AuditTypeOK, Exclusive, Newest, Drawn
    <2>3. ChainUnbroken' BY <1>1, Zenon DEF BeginRecord, ChainUnbroken, VerifyChain, Linked
    <2> QED BY <2>1, <2>2, <2>3, Zenon
  <1>2. CASE VerifyAudit(w)
    <2>1. VerifyChain = TRUE BY Zenon DEF ChainUnbroken, VerifyChain
    <2>2. AuditTypeOK' BY <1>2, <2>1, Zenon DEF VerifyAudit, AuditTypeOK
    <2>3. (Exclusive /\ Newest /\ Drawn)' BY <1>2 DEF VerifyAudit, AuditTypeOK, Exclusive, Newest, Drawn
    <2>4. ChainUnbroken' BY <1>2, <2>1, Zenon DEF VerifyAudit, ChainUnbroken, VerifyChain, Linked, AuditTypeOK
    <2> QED BY <2>2, <2>3, <2>4, Zenon
  <1>3. CASE LockChain(w)
    <2>1. AuditTypeOK' BY <1>3, Zenon DEF LockChain, AuditTypeOK
    <2>2. (Exclusive /\ Newest /\ Drawn)' BY <1>3 DEF LockChain, AuditTypeOK, Exclusive, Newest, Drawn
    <2>3. ChainUnbroken' BY <1>3, Zenon DEF LockChain, ChainUnbroken, VerifyChain, Linked
    <2> QED BY <2>1, <2>2, <2>3, Zenon
  <1>4. CASE ReadNewest(w)
    <2>1. PICK p \in chained \cup {0} :
              /\ \A j \in chained : j <= p
              /\ record' = [record EXCEPT ![w].at = "read", ![w].prev = p]
          BY <1>4, Zenon DEF ReadNewest
    <2>2. p \in 0..MaxEntry BY <2>1 DEF AuditTypeOK
    <2>3. AuditTypeOK'
      <3>1. UNCHANGED <<chained, prevHash, nextId, chainLock, verdict>> BY <1>4, Zenon DEF ReadNewest
      <3> QED BY <2>1, <2>2, <3>1, ZenonT(30) DEF AuditTypeOK
    <2>4. (Exclusive /\ Newest /\ Drawn)'
      <3>1. /\ record'[w].at = "read" /\ record'[w].prev = p
            /\ \A v \in Writer \ {w} : record'[v] = record[v]
        BY <2>1, Zenon DEF AuditTypeOK
      <3>2. UNCHANGED <<chained, nextId, chainLock>> BY <1>4, Zenon DEF ReadNewest
      <3>3. record[w].at = "locked" BY <1>4, Zenon DEF ReadNewest
      <3>4. Exclusive' BY <3>1, <3>2, <3>3, Zenon DEF Exclusive
      <3>5. Newest' BY <2>1, <3>1, <3>2, Zenon DEF Newest
      <3>6. Drawn' BY <3>1, <3>2, Zenon DEF Drawn
      <3> QED BY <3>4, <3>5, <3>6, Zenon
    <2>5. ChainUnbroken' BY <1>4, Zenon DEF ReadNewest, ChainUnbroken, VerifyChain, Linked
    <2> QED BY <2>3, <2>4, <2>5, Zenon
  <1> QED BY <1>1, <1>2, <1>3, <1>4, Zenon

\* The INSERT: the new id is above the one that was read, which is committed.
LEMMA InsertPreserves ==
    ASSUME AuditInv, NEW w \in Writer, InsertEntry(w)
    PROVE  AuditInv'
  <1> USE AuditAssumption DEF AuditInv, EntryId, InsertEntry
  <1>1. AuditTypeOK'
    <2>1. nextId \in EntryId BY DEF AuditTypeOK
    <2>2. record[w] \in RecordRow BY Zenon DEF AuditTypeOK, RecordRow
    <2>3. [at |-> "inserted", prev |-> record[w].prev, id |-> nextId] \in RecordRow
      BY <2>1, <2>2 DEF RecordRow
    <2>4. record' \in [Writer -> RecordRow] BY <2>3, Zenon DEF AuditTypeOK, RecordRow
    <2>5. nextId' \in 1..MaxEntry + 1 BY <2>1 DEF AuditTypeOK
    <2> QED BY <2>4, <2>5 DEF AuditTypeOK, RecordRow
  <1>2. (Exclusive /\ Newest)' BY Zenon DEF AuditTypeOK, Exclusive, Newest
  <1>3. Drawn'
    <2>1. record[w].prev < nextId BY DEF AuditTypeOK, Newest, Drawn
    <2> QED BY <2>1 DEF AuditTypeOK, Drawn
  <1>4. ChainUnbroken' BY Zenon DEF ChainUnbroken, VerifyChain, Linked
  <1> QED BY <1>1, <1>2, <1>3, <1>4, Zenon

\* The commit: the new entry follows the newest, and comes after all others.
LEMMA CommitPreserves ==
    ASSUME AuditInv, NEW w \in Writer, CommitEntry(w)
    PROVE  AuditInv'
  <1> USE AuditAssumption DEF AuditInv, EntryId, CommitEntry, ReleaseLock, NoRecord
  <1> DEFINE n == record[w].id
             p == record[w].prev
  <1>1. /\ n \in EntryId /\ n < nextId /\ p \in chained \cup {0} /\ p \in 0..MaxEntry /\ p < n
        /\ \A j \in chained : j <= p
    BY Zenon DEF AuditTypeOK, Newest, Drawn
  <1>2. \A v \in Writer \ {w} : record[v].at \notin {"locked", "read", "inserted"}
    BY Zenon DEF Exclusive
  <1>3. AuditTypeOK'
    <2>1. chained' \subseteq EntryId BY <1>1, Zenon DEF AuditTypeOK
    <2>2. prevHash' \in [EntryId -> 0..MaxEntry] BY <1>1, Zenon DEF AuditTypeOK
    <2>3. NoRecord \in RecordRow BY DEF RecordRow
    <2>4. record' \in [Writer -> RecordRow] BY <2>3, Zenon DEF AuditTypeOK, RecordRow
    <2> QED BY <2>1, <2>2, <2>4, Zenon DEF AuditTypeOK, RecordRow
  <1>4. (Exclusive /\ Newest)' BY <1>2, Zenon DEF AuditTypeOK, Exclusive, Newest
  <1>5. Drawn' BY <1>1, <1>2, Zenon DEF AuditTypeOK, Drawn
  <1>6. VerifyChain'
    <2> SUFFICES ASSUME NEW i \in chained' PROVE Linked(i)' BY Zenon DEF VerifyChain
    <2>1. CASE i = n BY <1>1, <2>1 DEF Linked, AuditTypeOK
    <2>2. CASE i # n
      <3>1. i \in chained /\ Linked(i) BY <2>2, Zenon DEF ChainUnbroken, VerifyChain
      <3>2. prevHash'[i] = prevHash[i] BY <2>2, <3>1, Zenon DEF AuditTypeOK
      <3>3. i < n BY <1>1, <3>1 DEF AuditTypeOK
      <3> QED BY <1>1, <3>1, <3>2, <3>3 DEF Linked, AuditTypeOK
    <2> QED BY <2>1, <2>2, Zenon
  <1>7. ChainUnbroken' BY <1>6, Zenon DEF ChainUnbroken
  <1> QED BY <1>3, <1>4, <1>5, <1>7, Zenon

\* A rollback leaves the chain as it is.
LEMMA RollbackPreserves ==
    ASSUME AuditInv, NEW w \in Writer, RollbackEntry(w)
    PROVE  AuditInv'
  <1> USE AuditAssumption DEF AuditInv, EntryId, RollbackEntry, ReleaseLock, NoRecord
  <1>1. AuditTypeOK' BY DEF AuditTypeOK
  <1>2. (Exclusive /\ Newest /\ Drawn)' BY Zenon DEF AuditTypeOK, Exclusive, Newest, Drawn
  <1>3. ChainUnbroken' BY Zenon DEF ChainUnbroken, VerifyChain, Linked
  <1> QED BY <1>1, <1>2, <1>3, Zenon

\* Every reachable state of the audit log satisfies the inductive invariant.
THEOREM AuditInvariance == AuditSpec => []AuditInv
  <1>1. AuditInv /\ [AuditNext]_auditVars => AuditInv'
    <2> SUFFICES ASSUME AuditInv, [AuditNext]_auditVars PROVE AuditInv' BY Zenon
    <2>1. CASE AuditNext
      <3>1. PICK w \in Writer : \/ BeginRecord(w) \/ VerifyAudit(w) \/ LockChain(w) \/ ReadNewest(w)
                                \/ InsertEntry(w) \/ CommitEntry(w) \/ RollbackEntry(w)
            BY <2>1, Zenon DEF AuditNext
      <3> QED BY <3>1, ReadingPreserves, InsertPreserves, CommitPreserves, RollbackPreserves, Zenon
    <2>2. CASE UNCHANGED auditVars
      BY <2>2, Zenon DEF auditVars, AuditInv, AuditTypeOK, Exclusive, Newest, Drawn, ChainUnbroken, VerifyChain, Linked
    <2> QED BY <2>1, <2>2, Zenon
  <1> QED BY <1>1, AuditInitially, PTL DEF AuditSpec

\* Record and VerifyChain: at every moment, and so for every verification request, the
\* committed entries form an unbroken chain, whatever requests append or fail.
THEOREM ChainHolds == AuditSpec => []ChainUnbroken
  <1>1. AuditInv => ChainUnbroken BY Zenon DEF AuditInv
  <1> QED BY <1>1, AuditInvariance, PTL

\* The commit appends to the log as AppendLog does: what was read under the lock is still
\* the newest entry, and the id drawn is above every committed one.
LEMMA CommitAppends ==
    ASSUME AuditInv, NEW w \in Writer, CommitEntry(w)
    PROVE  AuditLog!Next
  <1> DEFINE n == record[w].id
             p == record[w].prev
  <1>1. /\ n \in EntryId /\ p \in chained \cup {0} /\ p \in EntryId \cup {0} /\ p < n
        /\ \A j \in chained : j <= p
    BY AuditAssumption, Zenon DEF AuditInv, CommitEntry, AuditTypeOK, Newest, Drawn, EntryId
  <1>2. \A j \in chained : j \in EntryId /\ j < n
    BY <1>1, AuditAssumption DEF AuditInv, AuditTypeOK, EntryId
  <1>3. chained' = chained \cup {n} /\ prevHash' = [prevHash EXCEPT ![n] = p] BY Zenon DEF CommitEntry
  <1>4. prevHash'[n] = p /\ \A j \in chained : prevHash'[j] = prevHash[j]
    BY <1>1, <1>2, <1>3 DEF AuditInv, AuditTypeOK, EntryId
  <1> HIDE DEF n, p
  <1>5. Entries' = Entries \cup {[id |-> n, prev |-> p]} BY <1>3, <1>4, Zenon DEF Entries
  <1>6. /\ \A e \in Entries : e.id \in chained
        /\ \A j \in chained : \E e \in Entries : e.id = j
    <2>1. \A j \in chained : [id |-> j, prev |-> prevHash[j]].id = j BY Zenon
    <2>2. \A e \in Entries : \E j \in chained : e = [id |-> j, prev |-> prevHash[j]] BY Zenon DEF Entries
    <2>3. \A j \in chained : [id |-> j, prev |-> prevHash[j]] \in Entries BY Zenon DEF Entries
    <2> QED BY <2>1, <2>2, <2>3, Zenon
  <1>7. AuditLog!IsNewest(p) /\ \A e \in Entries : e.id < n BY <1>1, <1>2, <1>6, Zenon DEF AuditLog!IsNewest
  <1> QED BY <1>1, <1>5, <1>7, Zenon DEF AuditLog!Next, AuditLog!AppendEntry

\* audit.go: the log is append only.  Concurrent calls of Record, however they interleave,
\* fail or are rolled back, amount to appends of whole entries one after the other.
THEOREM AuditIsAppendOnly == AuditSpec => AuditAppendOnly
  <1>1. AuditInit => AuditLog!Init BY Zenon DEF AuditInit, AuditLog!Init, Entries
  <1>2. AuditInv /\ [AuditNext]_auditVars => [AuditLog!Next]_Entries
    <2> SUFFICES ASSUME AuditInv, [AuditNext]_auditVars PROVE [AuditLog!Next]_Entries BY Zenon
    <2>1. CASE UNCHANGED <<chained, prevHash>>
      <3>1. Entries' = Entries BY <2>1, Zenon DEF Entries
      <3> QED BY <3>1, Zenon
    <2>2. (\E w \in Writer : CommitEntry(w)) \/ UNCHANGED <<chained, prevHash>>
      BY Zenon DEF AuditNext, BeginRecord, VerifyAudit, LockChain, ReadNewest, InsertEntry, RollbackEntry, auditVars
    <2> QED BY <2>1, <2>2, CommitAppends, Zenon
  <1> QED BY <1>1, <1>2, AuditInvariance, PTL DEF AuditSpec, AuditAppendOnly, AuditLog!Spec

----------------------------------------------------------------------------
(* Alerts *)

AlertShape ==
    /\ live \in [Pair -> [open : Nat, acknowledged : Nat]]
    /\ current \in {NoPair} \cup [at : {"triggered", "cleared", "insert"}, pair : Pair]

\* Between the SELECT and the INSERT.
InsertIsFirst == current.at = "insert" => live[current.pair] = NoAlert

AlertInv == AlertShape /\ InsertIsFirst /\ OneLiveAlert

\* No alert at first.
LEMMA AlertInitially == AlertInit => AlertInv
  BY DEF AlertInit, AlertInv, AlertShape, InsertIsFirst, OneLiveAlert, NoAlert, NoPair

\* The pair in evaluation is a pair.
LEMMA CurrentPair ==
    ASSUME AlertShape, current.at # "none"
    PROVE  current \in [at : {"triggered", "cleared", "insert"}, pair : Pair] /\ current.pair \in Pair
  BY DEF AlertShape, NoPair

\* Devices, rules, scopes and the sweeper's listing: no alert becomes live.
LEMMA ElsewherePreserves ==
    ASSUME AlertInv, UNCHANGED current,
           \/ live' = live
           \/ \E r \in Rule : live' = [p \in Pair |-> IF p[1] = r THEN NoAlert ELSE live[p]]
    PROVE  AlertInv'
  <1> USE DEF AlertInv
  <1>1. /\ live' \in [Pair -> [open : Nat, acknowledged : Nat]]
        /\ \A p \in Pair : live'[p] \in {live[p], NoAlert}
    BY DEF AlertShape, NoAlert
  <1>2. AlertShape' BY <1>1, Zenon DEF AlertShape
  <1>3. InsertIsFirst'
    <2> SUFFICES ASSUME current.at = "insert" PROVE live'[current.pair] = NoAlert BY Zenon DEF InsertIsFirst
    <2>1. current.pair \in Pair BY CurrentPair, Zenon
    <2> QED BY <1>1, <2>1, Zenon DEF InsertIsFirst
  <1>4. OneLiveAlert' BY <1>1 DEF OneLiveAlert, NoAlert
  <1> QED BY <1>2, <1>3, <1>4, Zenon

\* Acknowledge, Resolve and Delete act on a live alert; so the pair is not the one
\* about to be inserted.
LEMMA HandlePreserves ==
    ASSUME AlertInv, NEW p \in Pair, Acknowledge(p) \/ ResolveOrDelete(p)
    PROVE  AlertInv'
  <1> USE DEF AlertInv
  <1>1. /\ current' = current
        /\ live[p] # NoAlert
        /\ live' \in [Pair -> [open : Nat, acknowledged : Nat]]
        /\ live'[p].open + live'[p].acknowledged <= live[p].open + live[p].acknowledged
        /\ \A q \in Pair \ {p} : live'[q] = live[q]
    <2>1. CASE Acknowledge(p) BY <2>1 DEF Acknowledge, AlertShape, NoAlert
    <2>2. CASE ResolveOrDelete(p)
      <3>1. PICK s \in {"open", "acknowledged"} : live[p][s] > 0 /\ live' = [live EXCEPT ![p][s] = @ - 1]
        BY <2>2, Zenon DEF ResolveOrDelete
      <3>2. current' = current BY <2>2, Zenon DEF ResolveOrDelete
      <3>3. CASE s = "open" BY <3>1, <3>2, <3>3 DEF AlertShape, NoAlert
      <3>4. CASE s = "acknowledged" BY <3>1, <3>2, <3>4 DEF AlertShape, NoAlert
      <3> QED BY <3>3, <3>4, Zenon
    <2> QED BY <2>1, <2>2, Zenon
  <1>2. AlertShape' BY <1>1, Zenon DEF AlertShape
  <1>3. InsertIsFirst'
    <2> SUFFICES ASSUME current.at = "insert" PROVE live'[current.pair] = NoAlert BY <1>1, Zenon DEF InsertIsFirst
    <2>1. current.pair \in Pair BY CurrentPair, Zenon
    <2> QED BY <1>1, <2>1, Zenon DEF InsertIsFirst
  <1>4. OneLiveAlert' BY <1>1 DEF OneLiveAlert, AlertShape
  <1> QED BY <1>2, <1>3, <1>4, Zenon

\* The sweeper's evaluation of one pair.
LEMMA EvaluationPreserves ==
    ASSUME AlertInv,
           (\E p \in Pair : EvaluateRule(p)) \/ SelectExisting \/ InsertAlert \/ AutoResolveIfOpen
    PROVE  AlertInv'
  <1> USE DEF AlertInv
  <1>1. ASSUME NEW p \in Pair, EvaluateRule(p) PROVE AlertInv'
    <2>1. live' = live /\ current' \in [at : {"triggered", "cleared"}, pair : Pair] BY <1>1 DEF EvaluateRule
    <2> QED BY <2>1, Zenon DEF AlertShape, InsertIsFirst, OneLiveAlert
  <1>2. CASE SelectExisting
    <2>1. current.pair \in Pair /\ current \in [at : {"triggered", "cleared", "insert"}, pair : Pair]
      BY <1>2, CurrentPair, Zenon DEF SelectExisting
    <2>2. CASE Live(current.pair)
      BY <1>2, <2>2, Zenon DEF SelectExisting, AlertShape, InsertIsFirst, OneLiveAlert, NoPair
    <2>3. CASE ~Live(current.pair)
      <3>1. live' = live /\ current' = [current EXCEPT !.at = "insert"] BY <1>2, <2>3, Zenon DEF SelectExisting
      <3>2. current'.pair = current.pair /\ current' \in [at : {"triggered", "cleared", "insert"}, pair : Pair]
        BY <2>1, <3>1, Zenon
      <3> QED BY <2>3, <3>1, <3>2, Zenon DEF AlertShape, InsertIsFirst, OneLiveAlert, Live
    <2> QED BY <2>2, <2>3, Zenon
  <1>3. CASE InsertAlert
    <2>1. current.pair \in Pair /\ live[current.pair] = NoAlert
      BY <1>3, CurrentPair, Zenon DEF InsertAlert, InsertIsFirst
    <2>2. current' = NoPair /\ live' \in {live, [live EXCEPT ![current.pair].open = @ + 1]}
      BY <1>3, Zenon DEF InsertAlert
    <2>3. AlertShape' /\ InsertIsFirst' BY <2>1, <2>2 DEF AlertShape, InsertIsFirst, NoPair
    <2>4. OneLiveAlert'
      <3>1. \A q \in Pair : q # current.pair => live'[q] = live[q] BY <2>2, Zenon DEF AlertShape
      <3>2. live'[current.pair].open <= 1 /\ live'[current.pair].acknowledged = 0
        BY <2>1, <2>2 DEF AlertShape, NoAlert
      <3>3. live'[current.pair].open \in Nat BY <2>1, <2>2 DEF AlertShape, NoAlert
      <3> QED BY <3>1, <3>2, <3>3 DEF OneLiveAlert
    <2> QED BY <2>3, <2>4, Zenon
  <1>4. CASE AutoResolveIfOpen
    <2>1. current' = NoPair /\ live' = [live EXCEPT ![current.pair] = NoAlert] BY <1>4, Zenon DEF AutoResolveIfOpen
    <2>2. \A q \in Pair : live'[q] \in {live[q], NoAlert} BY <2>1, Zenon DEF AlertShape
    <2>3. AlertShape' /\ InsertIsFirst' BY <2>1, Zenon DEF AlertShape, InsertIsFirst, NoPair, NoAlert
    <2>4. OneLiveAlert' BY <2>2 DEF OneLiveAlert, NoAlert
    <2> QED BY <2>3, <2>4, Zenon
  <1> QED BY <1>1, <1>2, <1>3, <1>4, Zenon

\* Every reachable state of the alerts satisfies the inductive invariant.
LEMMA AlertInvariant == AlertSpec => []AlertInv
  <1>1. AlertInv /\ [AlertNext]_alertVars => AlertInv'
    <2> SUFFICES ASSUME AlertInv, [AlertNext]_alertVars PROVE AlertInv' BY Zenon
    <2>1. CASE SweeperStep
      <3>1. CASE StartSweep \/ EndSweep \/ \E p \in Pair : EvaluationFails(p)
        <4>1. UNCHANGED <<live, current>> BY <3>1, Zenon DEF StartSweep, EndSweep, EvaluationFails
        <4> QED BY <4>1, ElsewherePreserves, Zenon
      <3> QED BY <2>1, <3>1, EvaluationPreserves, Zenon DEF SweeperStep
    <2>2. ASSUME NEW d \in Monitored, NEW f \in SUBSET Condition, FactChanges(d, f) PROVE AlertInv'
      BY <2>2, ElsewherePreserves, Zenon DEF FactChanges
    <2>3. ASSUME NEW r \in Rule, CreateRule(r) \/ SetRuleEnabled(r) \/ DeleteRule(r) PROVE AlertInv'
      <3>1. /\ UNCHANGED current
            /\ \/ live' = live
               \/ live' = [p \in Pair |-> IF p[1] = r THEN NoAlert ELSE live[p]]
        BY <2>3, Zenon DEF CreateRule, SetRuleEnabled, DeleteRule
      <3> QED BY <3>1, ElsewherePreserves, Zenon
    <2>4. ASSUME NEW p \in Pair, MoveDevice(p[1], p[2]) PROVE AlertInv'
      BY <2>4, ElsewherePreserves, Zenon DEF MoveDevice
    <2>5. CASE ResolveOrphan BY <2>5, ElsewherePreserves, Zenon DEF ResolveOrphan
    <2>6. CASE UNCHANGED alertVars BY <2>6, ElsewherePreserves DEF alertVars
    <2> QED BY <2>1, <2>2, <2>3, <2>4, <2>5, <2>6, HandlePreserves DEF AlertNext
  <1> QED BY <1>1, AlertInitially, PTL DEF AlertSpec

\* OpenIfNotExists: at most one alert of a rule and a device is open or acknowledged,
\* whatever administrators and devices do between its SELECT and its INSERT.
THEOREM AtMostOneLive == AlertSpec => []OneLiveAlert
  <1>1. AlertInv => OneLiveAlert BY SMTT(30) DEF AlertInv
  <1> QED BY <1>1, AlertInvariant, PTL

\* What else the alerts are made of.
AlertRest ==
    /\ rules \in [Rule -> {"absent", "enabled", "disabled"}]
    /\ scope \in [Rule -> SUBSET Monitored]
    /\ facts \in [Monitored -> SUBSET Condition]
    /\ orphaned \in Nat
    /\ sweep \in [running : BOOLEAN, todo : SUBSET Pair, listed : [Monitored -> SUBSET Condition]]
    /\ edits \in 0..MaxAdmin

\* The administrators' and the devices' steps keep it, the sweeper's own too.
LEMMA AlertRestStep == AlertRest /\ [AlertNext]_alertVars => AlertRest'
  <1> SUFFICES ASSUME AlertRest, [AlertNext]_alertVars PROVE AlertRest' BY Zenon
  <1> USE AlertAssumption DEF AlertRest
  <1>e. ASSUME Edit PROVE edits' \in 0..MaxAdmin BY <1>e DEF Edit
  <1>1. ASSUME NEW d \in Monitored, NEW f \in SUBSET Condition, FactChanges(d, f) PROVE AlertRest'
    BY <1>1, Zenon DEF FactChanges
  <1>2. ASSUME NEW p \in Pair, MoveDevice(p[1], p[2]) PROVE AlertRest'
    <2>1. p[1] \in Rule /\ p[2] \in Monitored BY Zenon DEF Pair
    <2>2. scope' \in [Rule -> SUBSET Monitored] BY <1>2, <2>1, Zenon DEF MoveDevice
    <2> QED BY <1>2, <1>e, <2>2, Zenon DEF MoveDevice
  <1>3. ASSUME NEW r \in Rule, CreateRule(r) \/ SetRuleEnabled(r) PROVE AlertRest'
    <2>1. rules' \in [Rule -> {"absent", "enabled", "disabled"}] BY <1>3, Zenon DEF CreateRule, SetRuleEnabled
    <2>2. UNCHANGED <<scope, facts, orphaned, sweep>> /\ Edit BY <1>3, Zenon DEF CreateRule, SetRuleEnabled
    <2> QED BY <1>e, <2>1, <2>2, Zenon
  <1>4. ASSUME NEW r \in Rule, DeleteRule(r) PROVE AlertRest'
    <2>1. Cardinality({d \in Monitored : Live(<<r, d>>)}) \in Nat BY FS_Subset, FS_CardinalityType, Zenon
    <2>2. orphaned' \in Nat BY <1>4, <2>1 DEF DeleteRule
    <2>3. rules' \in [Rule -> {"absent", "enabled", "disabled"}] BY <1>4, Zenon DEF DeleteRule
    <2> QED BY <1>4, <1>e, <2>2, <2>3 DEF DeleteRule
  <1>5. ASSUME NEW p \in Pair, Acknowledge(p) \/ ResolveOrDelete(p) PROVE AlertRest'
    BY <1>5, <1>e, Zenon DEF Acknowledge, ResolveOrDelete
  <1>6. CASE ResolveOrphan BY <1>6, <1>e DEF ResolveOrphan
  <1>7. CASE StartSweep
    <2>1. ScopedPairs \in SUBSET Pair BY Zenon DEF ScopedPairs
    <2>2. [d \in Monitored |-> facts[d] \cap {"offline", "old"}] \in [Monitored -> SUBSET Condition] BY Zenon
    <2> QED BY <1>7, <2>1, <2>2, Zenon DEF StartSweep
  <1>8. ASSUME NEW p \in Pair, EvaluateRule(p) \/ EvaluationFails(p) PROVE AlertRest'
    <2>1. sweep' = [sweep EXCEPT !.todo = sweep.todo \ {p}] /\ UNCHANGED <<rules, scope, facts, orphaned, edits>>
      BY <1>8, Zenon DEF EvaluateRule, EvaluationFails
    <2> QED BY <2>1, Zenon
  <1>9. CASE SelectExisting \/ InsertAlert \/ AutoResolveIfOpen
    BY <1>9, Zenon DEF SelectExisting, InsertAlert, AutoResolveIfOpen
  <1>10. CASE EndSweep BY <1>10, Zenon DEF EndSweep
  <1>11. CASE UNCHANGED alertVars BY <1>11, Zenon DEF alertVars
  <1> QED BY <1>1, <1>2, <1>3, <1>4, <1>5, <1>6, <1>7, <1>8, <1>9, <1>10, <1>11 DEF AlertNext, SweeperStep

\* Alerts, rules and the sweeper keep their types.
LEMMA AlertTypes == AlertSpec => []AlertTypeOK
  <1>1. AlertInit => AlertRest BY AlertAssumption, SMTT(30) DEF AlertInit, AlertRest
  <1>2. AlertInv /\ AlertRest => AlertTypeOK
    <2> SUFFICES ASSUME AlertInv, AlertRest PROVE AlertTypeOK BY Zenon
    <2>1. ASSUME NEW p \in Pair PROVE live[p] \in [open : Count, acknowledged : Count]
      <3>1. /\ live[p] \in [open : Nat, acknowledged : Nat] /\ live[p].open + live[p].acknowledged <= 1
        BY Zenon DEF AlertInv, AlertShape, OneLiveAlert
      <3>2. live[p].open \in Count /\ live[p].acknowledged \in Count BY <3>1 DEF Count
      <3> QED BY <3>1, <3>2, Zenon
    <2> QED BY <2>1, Zenon DEF AlertInv, AlertShape, AlertRest, AlertTypeOK
  <1> QED BY <1>1, <1>2, AlertRestStep, AlertInvariant, PTL DEF AlertSpec

----------------------------------------------------------------------------
(* Traffic history *)

\* A sample that left the agent, or never reached its store.
SentOff(s) == s \in shipped \cup unstored

\* What is stored or in the uploader's hands was sampled before now.
SampledBefore == (\A s \in store : s < tick) /\ (\A b \in uploader.batch : b < tick)

\* The batch is the oldest part of the store, until it is deleted.
BatchIsOldest ==
    uploader.at # "idle" => \A b \in uploader.batch : \A s \in store : s <= b => s \in uploader.batch

\* A batch that was written left the agent.
WrittenIsSentOff == uploader.at = "written" => \A b \in uploader.batch : SentOff(b)

TrafficInv == TrafficTypeOK /\ SampledBefore /\ BatchIsOldest /\ WrittenIsSentOff /\ SampleAccounted

\* The variables, and the numbers among them.
LEMMA TrafficTypes ==
    ASSUME TrafficTypeOK
    PROVE  /\ tick \in Nat /\ store \subseteq Nat /\ IsFiniteSet(store)
           /\ uploader.at \in {"idle", "read", "written"} /\ uploader.batch \in SUBSET Sample
           /\ uploader.batch \subseteq Nat /\ batches \in Seq(SUBSET Sample) /\ Len(batches) \in Nat
  <1> USE TrafficAssumption
  <1>1. Sample \subseteq Nat BY DEF Sample
  <1>2. IsFiniteSet(Sample) BY FS_Interval DEF Sample
  <1>3. IsFiniteSet(store) BY <1>2, FS_Subset, Zenon DEF TrafficTypeOK
  <1>4. tick \in Nat BY DEF TrafficTypeOK
  <1>5. store \subseteq Nat /\ uploader.at \in {"idle", "read", "written"} /\ uploader.batch \in SUBSET Sample
    BY <1>1, Zenon DEF TrafficTypeOK
  <1>6. batches \in Seq(SUBSET Sample) BY Zenon DEF TrafficTypeOK
  <1>7. Len(batches) \in Nat BY <1>6
  <1> QED BY <1>1, <1>3, <1>4, <1>5, <1>6, <1>7, Zenon

\* Appending a batch, and taking the first one.
LEMMA BatchQueue ==
    ASSUME NEW S, NEW q \in Seq(S)
    PROVE  /\ \A e \in S : /\ Append(q, e) \in Seq(S) /\ Len(Append(q, e)) = Len(q) + 1
                           /\ Append(q, e)[Len(q) + 1] = e
                           /\ \A i \in 1..Len(q) : Append(q, e)[i] = q[i]
           /\ q # <<>> => /\ Tail(q) \in Seq(S) /\ Head(q) = q[1] /\ Head(q) \in S /\ Len(Tail(q)) = Len(q) - 1
                          /\ \A i \in 1..Len(q) : i # 1 => i - 1 \in 1..Len(Tail(q)) /\ Tail(q)[i - 1] = q[i]
  OBVIOUS

\* count(*) of an hour is a number: the raw table has finitely many rows.
LEMMA CountIsNumber ==
    ASSUME TrafficTypeOK, NEW h
    PROVE  CountOf(h) \in Nat
  <1> USE TrafficAssumption
  <1> DEFINE T == {q \in Sample : HourOf(q) = h}
             R(s) == {s} \X (1..raw[s])
             F == {R(s) : s \in T}
             f == [s \in T |-> R(s)]
  <1>1. IsFiniteSet(Sample) BY FS_Interval DEF Sample
  <1>2. IsFiniteSet(T) BY <1>1, FS_Subset, Zenon
  <1>3. f \in Surjection(T, F) BY Zenon DEF Surjection
  <1>4. IsFiniteSet(F) BY <1>2, <1>3, FS_Surjection
  <1>5. ASSUME NEW X \in F PROVE IsFiniteSet(X)
    <2>1. PICK s \in T : X = R(s) BY Zenon
    <2>2. raw[s] \in Nat BY Zenon DEF TrafficTypeOK
    <2>3. IsFiniteSet(1..raw[s]) BY <2>2, FS_Interval
    <2>4. IsFiniteSet({s}) BY FS_Singleton, Zenon
    <2> QED BY <2>1, <2>3, <2>4, FS_Product, Zenon
  <1>6. IsFiniteSet(UNION F) BY <1>4, <1>5, FS_UNION, Zenon
  <1>7. RowsOf(h) = UNION F BY Zenon DEF RowsOf
  <1> QED BY <1>6, <1>7, FS_CardinalityType, Zenon DEF CountOf

\* Pending, ORDER BY id LIMIT n: what is older than a sample of the batch is in it.
LEMMA OldestIsOldest ==
    ASSUME TrafficTypeOK, NEW b \in Oldest(BatchSize), NEW s \in store, s <= b
    PROVE  s \in Oldest(BatchSize)
  <1> DEFINE Before(x) == {q \in store : q < x}
  <1>1. store \subseteq Nat /\ IsFiniteSet(store) BY TrafficTypes, Zenon
  <1>2. b \in store /\ Cardinality(Before(b)) < BatchSize BY Zenon DEF Oldest
  <1>3. Before(s) \subseteq Before(b)
    <2> SUFFICES ASSUME NEW q \in store, q < s PROVE q < b BY Zenon
    <2>1. q \in Nat /\ s \in Nat /\ b \in Nat BY <1>1, <1>2, Zenon
    <2> QED BY <2>1
  <1>4. Before(b) \in SUBSET store /\ Before(s) \in SUBSET store OBVIOUS
  <1>4a. IsFiniteSet(Before(b)) /\ IsFiniteSet(Before(s)) BY <1>1, <1>4, FS_Subset, Zenon
  <1>5. Cardinality(Before(s)) <= Cardinality(Before(b)) BY <1>3, <1>4a, FS_Subset
  <1>6. Cardinality(Before(s)) \in Nat /\ Cardinality(Before(b)) \in Nat BY <1>4a, FS_CardinalityType, Zenon
  <1>7. Cardinality(Before(s)) < BatchSize BY <1>2, <1>5, <1>6, TrafficAssumption
  <1> QED BY <1>7, Zenon DEF Oldest

\* No step forgets that a sample left the agent.
LEMMA SentOffStays ==
    ASSUME [TrafficNext]_trafficVars, NEW s, SentOff(s)
    PROVE  SentOff(s)'
  <1>1. shipped \subseteq shipped' /\ unstored \subseteq unstored'
    BY ZenonT(30) DEF TrafficNext, TakeSample, WriteBatch, LineBreaks, RecordBatch, ReadPending, DeleteUpTo, LineRestored,
       RetentionSweep, Rollup, Prune, SetRetention, trafficVars
  <1> QED BY <1>1, Zenon DEF SentOff

\* Types of the agent's side.
LEMMA AgentSideTypes ==
    ASSUME TrafficTypeOK, TakeSample \/ ReadPending \/ WriteBatch \/ DeleteUpTo \/ LineBreaks \/ LineRestored
    PROVE  TrafficTypeOK'
  <1> USE TrafficAssumption
  <1>t. batches \in Seq(SUBSET Sample) /\ uploader.batch \in SUBSET Sample BY TrafficTypes, Zenon
  <1>1. UNCHANGED <<raw, hourly, sweeper, rawKept>>
    BY Zenon DEF TakeSample, ReadPending, WriteBatch, DeleteUpTo, LineBreaks, LineRestored
  <1>2. tick' \in 0..MaxTick + 1 /\ (tick' # tick => tick \in Sample)
    <2>1. tick' = tick \/ (tick <= MaxTick /\ tick' = tick + 1)
      BY Zenon DEF TakeSample, ReadPending, WriteBatch, DeleteUpTo, LineBreaks, LineRestored
    <2>2. tick \in 0..MaxTick + 1 BY Zenon DEF TrafficTypeOK
    <2> QED BY <2>1, <2>2 DEF Sample
  <1>3. breaks' \in 0..MaxBreaks /\ lineUp' \in BOOLEAN
    <2>1. breaks' = breaks \/ (breaks < MaxBreaks /\ breaks' = breaks + 1)
      BY Zenon DEF TakeSample, ReadPending, WriteBatch, DeleteUpTo, LineBreaks, LineRestored
    <2>2. lineUp' \in {TRUE, FALSE, lineUp}
      BY Zenon DEF TakeSample, ReadPending, WriteBatch, DeleteUpTo, LineBreaks, LineRestored
    <2>3. breaks \in 0..MaxBreaks /\ lineUp \in BOOLEAN BY Zenon DEF TrafficTypeOK
    <2>4. breaks' \in 0..MaxBreaks BY <2>1, <2>3
    <2>5. lineUp' \in BOOLEAN BY <2>2, <2>3, Zenon
    <2> QED BY <2>4, <2>5, Zenon
  <1>4. batches' \in Seq(SUBSET Sample)
    <2>1. batches' \in {batches, <<>>, Append(batches, uploader.batch)}
      BY Zenon DEF TakeSample, ReadPending, WriteBatch, DeleteUpTo, LineBreaks, LineRestored
    <2>2. Append(batches, uploader.batch) \in Seq(SUBSET Sample) BY <1>t, BatchQueue
    <2>3. <<>> \in Seq(SUBSET Sample) OBVIOUS
    <2> QED BY <1>t, <2>1, <2>2, <2>3, Zenon
  <1>5. store' \subseteq Sample
    <2>1. store' \subseteq store \/ (store' = store \cup {tick} /\ tick' = tick + 1)
      BY Zenon DEF TakeSample, ReadPending, WriteBatch, DeleteUpTo, LineBreaks, LineRestored
    <2> QED BY <1>2, <2>1 DEF TrafficTypeOK
  <1>6. shipped' \subseteq Sample /\ unstored' \subseteq Sample
    <2>1. shipped' \in {shipped, shipped \cup uploader.batch}
      BY Zenon DEF TakeSample, ReadPending, WriteBatch, DeleteUpTo, LineBreaks, LineRestored
    <2>2. unstored' = unstored \/ (unstored' = unstored \cup {tick} /\ tick' = tick + 1)
      BY Zenon DEF TakeSample, ReadPending, WriteBatch, DeleteUpTo, LineBreaks, LineRestored
    <2> QED BY <1>t, <1>2, <2>1, <2>2 DEF TrafficTypeOK
  <1>7. uploader' \in [at : {"idle", "read", "written"}, batch : SUBSET Sample]
    <2>1. \/ uploader' = uploader
          \/ uploader' = [uploader EXCEPT !.at = "written"]
          \/ uploader' = [at |-> "idle", batch |-> {}]
          \/ uploader' = [at |-> "read", batch |-> Oldest(BatchSize)]
      BY Zenon DEF TakeSample, ReadPending, WriteBatch, DeleteUpTo, LineBreaks, LineRestored
    <2>2. Oldest(BatchSize) \in SUBSET Sample BY Zenon DEF Oldest, TrafficTypeOK
    <2> QED BY <2>1, <2>2 DEF TrafficTypeOK
  <1> QED BY <1>1, <1>2, <1>3, <1>4, <1>5, <1>6, <1>7, Zenon DEF TrafficTypeOK

\* Types of the server's side.
LEMMA ServerSideTypes ==
    ASSUME TrafficTypeOK, RecordBatch \/ RetentionSweep \/ \E k \in RawChoices : SetRetention(k)
    PROVE  TrafficTypeOK'
  <1>t. /\ batches \in Seq(SUBSET Sample) /\ raw \in [Sample -> Nat] /\ hourly \in [Hour -> Nat]
    BY Zenon DEF TrafficTypeOK
  <1>1. UNCHANGED <<tick, store, uploader, lineUp, breaks, shipped, unstored>>
    BY Zenon DEF RecordBatch, RetentionSweep, Rollup, Prune, SetRetention
  <1>2. sweeper' \in {"asleep", "rolled"} /\ rawKept' \in RawChoices
    BY Zenon DEF RecordBatch, RetentionSweep, Rollup, Prune, SetRetention, TrafficTypeOK
  <1>3. batches' \in Seq(SUBSET Sample)
    <2>1. batches' = batches \/ (batches # <<>> /\ batches' = Tail(batches))
      BY Zenon DEF RecordBatch, RetentionSweep, Rollup, Prune, SetRetention
    <2>2. batches # <<>> => Tail(batches) \in Seq(SUBSET Sample) BY <1>t, BatchQueue, Zenon
    <2> QED BY <1>t, <2>1, <2>2, SMTT(30)
  <1>5. raw' \in [Sample -> Nat]
    <2>1. \/ raw' = raw
          \/ raw' = [s \in Sample |-> IF s \in Head(batches) THEN raw[s] + 1 ELSE raw[s]]
          \/ raw' = [s \in Sample |-> IF s + rawKept < tick THEN 0 ELSE raw[s]]
      BY DEF RecordBatch, RetentionSweep, Rollup, Prune, SetRetention
    <2> QED BY <1>t, <2>1
  <1>6. hourly' \in [Hour -> Nat]
    <2>1. \/ hourly' = hourly
          \/ hourly' = [h \in Hour |-> IF h < HourOf(tick) /\ RowsOf(h) # {} THEN CountOf(h) ELSE hourly[h]]
          \/ hourly' = [h \in Hour |-> IF h * HourTicks + HourlyRetention < tick THEN 0 ELSE hourly[h]]
      BY Zenon DEF RecordBatch, RetentionSweep, Rollup, Prune, SetRetention
    <2>2. \A h \in Hour : CountOf(h) \in Nat BY CountIsNumber, Zenon
    <2> QED BY <1>t, <2>1, <2>2, SMTT(30)
  <1> QED BY <1>1, <1>2, <1>3, <1>5, <1>6, Zenon DEF TrafficTypeOK

\* The sampler: the sample is newer than everything, and stored or lost.
LEMMA SamplePreserves ==
    ASSUME TrafficInv, TakeSample
    PROVE  TrafficInv'
  <1>t. TrafficTypeOK BY Zenon DEF TrafficInv
  <1>1. tick \in Nat /\ store \subseteq Nat /\ uploader.batch \subseteq Nat BY <1>t, TrafficTypes, Zenon
  <1>2. /\ tick' = tick + 1 /\ UNCHANGED <<uploader, shipped>>
        /\ \/ store' = store \cup {tick} /\ unstored' = unstored
           \/ unstored' = unstored \cup {tick} /\ store' = store
    BY Zenon DEF TakeSample
  <1>3. TrafficTypeOK' BY <1>t, AgentSideTypes, Zenon
  <1>4. SampledBefore'
    <2>1. /\ \A s \in store : s \in Nat /\ s < tick
          /\ \A b \in uploader.batch : b \in Nat /\ b < tick
      BY <1>1, Zenon DEF TrafficInv, SampledBefore
    <2>2. \A n \in Nat : n < tick => n < tick + 1 BY <1>1
    <2>3. tick < tick + 1 BY <1>1
    <2>4. \A s \in store' : s < tick + 1 BY <1>2, <2>1, <2>2, <2>3, Zenon
    <2>5. \A b \in uploader.batch : b < tick + 1 BY <2>1, <2>2, Zenon
    <2> QED BY <1>2, <2>4, <2>5, Zenon DEF SampledBefore
  <1>5. BatchIsOldest'
    <2>1. \A b \in uploader.batch : ~(tick <= b) BY <1>1 DEF TrafficInv, SampledBefore
    <2> QED BY <1>2, <2>1, Zenon DEF TrafficInv, BatchIsOldest
  <1>6. \A s : SentOff(s) => SentOff(s)' BY SentOffStays, Zenon DEF TrafficNext
  <1>7. WrittenIsSentOff' BY <1>2, <1>6, Zenon DEF TrafficInv, WrittenIsSentOff
  <1>8. SampleAccounted'
    <2> SUFFICES ASSUME NEW s \in 0..tick' - 1 PROVE s \in store' \/ SentOff(s)' BY Zenon DEF SampleAccounted, SentOff
    <2>1. s \in 0..tick - 1 \/ s = tick BY <1>1, <1>2
    <2>2. CASE s = tick BY <1>2, <2>2, Zenon DEF SentOff
    <2>3. CASE s \in 0..tick - 1
      <3>1. s \in store \/ SentOff(s) BY <2>3, Zenon DEF TrafficInv, SampleAccounted, SentOff
      <3> QED BY <1>2, <1>6, <3>1, Zenon
    <2> QED BY <2>1, <2>2, <2>3, Zenon
  <1> QED BY <1>3, <1>4, <1>5, <1>7, <1>8, Zenon DEF TrafficInv

\* The uploader: what it deletes was in the batch that it has written.
LEMMA UploaderPreserves ==
    ASSUME TrafficInv, ReadPending \/ WriteBatch \/ DeleteUpTo \/ LineBreaks
    PROVE  TrafficInv'
  <1>t. TrafficTypeOK BY Zenon DEF TrafficInv
  <1>1. tick' = tick /\ store' \subseteq store BY Zenon DEF ReadPending, WriteBatch, DeleteUpTo, LineBreaks
  <1>2. store \subseteq Nat /\ uploader.batch \subseteq Nat /\ uploader.batch \in SUBSET Sample
          /\ batches \in Seq(SUBSET Sample) /\ Len(batches) \in Nat
    BY <1>t, TrafficTypes, Zenon
  <1>3. TrafficTypeOK' BY <1>t, AgentSideTypes, Zenon
  <1>4. \A s : SentOff(s) => SentOff(s)' BY SentOffStays, Zenon DEF TrafficNext
  <1>5. /\ uploader'.batch \subseteq store \cup uploader.batch
        /\ uploader'.at # "idle" => \A b \in uploader'.batch : \A s \in store : s <= b => s \in uploader'.batch
        /\ uploader'.at = "written" => \A b \in uploader'.batch : SentOff(b)'
    <2>1. CASE ReadPending
      <3>1. uploader'.batch = Oldest(BatchSize) /\ uploader'.at = "read" BY <2>1, Zenon DEF ReadPending
      <3>2. Oldest(BatchSize) \subseteq store BY Zenon DEF Oldest
      <3> QED BY <1>t, <3>1, <3>2, OldestIsOldest, Zenon
    <2>2. CASE WriteBatch
      <3>1. uploader'.batch = uploader.batch /\ uploader.at = "read" /\ shipped' = shipped \cup uploader.batch
        BY <1>t, <2>2, Zenon DEF WriteBatch, TrafficTypeOK
      <3>3. \A b \in uploader.batch : SentOff(b)' BY <3>1, Zenon DEF SentOff
      <3> QED BY <3>1, <3>3, Zenon DEF TrafficInv, BatchIsOldest
    <2>3. CASE DeleteUpTo \/ LineBreaks BY <2>3 DEF DeleteUpTo, LineBreaks
    <2> QED BY <2>1, <2>2, <2>3, Zenon
  <1>6. SampledBefore' BY <1>1, <1>5, Zenon DEF TrafficInv, SampledBefore
  <1>7. BatchIsOldest' BY <1>1, <1>5, Zenon DEF BatchIsOldest
  <1>8. WrittenIsSentOff' BY <1>5, Zenon DEF WrittenIsSentOff
  <1>9. ASSUME NEW s \in store, s \notin store' PROVE SentOff(s)'
    <2>1. DeleteUpTo BY <1>9, Zenon DEF ReadPending, WriteBatch, LineBreaks
    <2>2. uploader.at = "written" /\ store' = {q \in store : \A b \in uploader.batch : q > b}
      BY <2>1, Zenon DEF DeleteUpTo
    <2>3. PICK b \in uploader.batch : ~(s > b) BY <1>9, <2>2, Zenon
    <2>4. s \in Nat /\ b \in Nat BY <1>2, Zenon
    <2>5. s <= b BY <2>3, <2>4
    <2>6. s \in uploader.batch BY <2>2, <2>5, Zenon DEF TrafficInv, BatchIsOldest
    <2> QED BY <1>4, <2>2, <2>6, Zenon DEF TrafficInv, WrittenIsSentOff
  <1>10. SampleAccounted'
    <2> SUFFICES ASSUME NEW s \in 0..tick - 1 PROVE s \in store' \/ SentOff(s)'
      BY <1>1, Zenon DEF SampleAccounted, SentOff
    <2>1. s \in store \/ SentOff(s) BY Zenon DEF TrafficInv, SampleAccounted, SentOff
    <2> QED BY <1>4, <1>9, <2>1, Zenon
  <1> QED BY <1>3, <1>6, <1>7, <1>8, <1>10, Zenon DEF TrafficInv

\* The server takes a batch or sweeps its tables: the agent's store is not touched.
LEMMA ServerPreserves ==
    ASSUME TrafficInv,
           LineRestored \/ RecordBatch \/ RetentionSweep \/ (\E k \in RawChoices : SetRetention(k)) \/ UNCHANGED trafficVars
    PROVE  TrafficInv'
  <1>t. TrafficTypeOK BY Zenon DEF TrafficInv
  <1>1. UNCHANGED <<tick, store, uploader>>
    BY Zenon DEF LineRestored, RecordBatch, RetentionSweep, Rollup, Prune, SetRetention, trafficVars
  <1>2. TrafficTypeOK'
    <2>1. CASE UNCHANGED trafficVars BY <1>t, <2>1, Zenon DEF trafficVars, TrafficTypeOK
    <2> QED BY <1>t, <2>1, AgentSideTypes, ServerSideTypes, Zenon
  <1>3. \A s : SentOff(s) => SentOff(s)' BY SentOffStays, Zenon DEF TrafficNext
  <1>4. SampledBefore' /\ BatchIsOldest' BY <1>1, Zenon DEF TrafficInv, SampledBefore, BatchIsOldest
  <1>5. WrittenIsSentOff' BY <1>1, <1>3, Zenon DEF TrafficInv, WrittenIsSentOff
  <1>6. SampleAccounted'
    <2> SUFFICES ASSUME NEW s \in 0..tick - 1 PROVE s \in store' \/ SentOff(s)'
      BY <1>1, Zenon DEF SampleAccounted, SentOff
    <2>1. s \in store \/ SentOff(s) BY Zenon DEF TrafficInv, SampleAccounted, SentOff
    <2> QED BY <1>1, <1>3, <2>1, Zenon
  <1> QED BY <1>2, <1>4, <1>5, <1>6, Zenon DEF TrafficInv

\* Nothing sampled yet.
LEMMA TrafficInitially == TrafficInit => TrafficInv
  <1> SUFFICES ASSUME TrafficInit PROVE TrafficInv BY Zenon
  <1>1. TrafficTypeOK
    <2>1. tick \in 0..MaxTick + 1 /\ breaks \in 0..MaxBreaks BY TrafficAssumption DEF TrafficInit
    <2>2. raw \in [Sample -> Nat] /\ hourly \in [Hour -> Nat] BY Zenon DEF TrafficInit
    <2>3. batches \in Seq(SUBSET Sample) BY DEF TrafficInit
    <2>4. uploader \in [at : {"idle", "read", "written"}, batch : SUBSET Sample] BY Zenon DEF TrafficInit
    <2> QED BY <2>1, <2>2, <2>3, <2>4, Zenon DEF TrafficInit, TrafficTypeOK
  <1>2. SampledBefore /\ BatchIsOldest /\ WrittenIsSentOff
    BY DEF TrafficInit, SampledBefore, BatchIsOldest, WrittenIsSentOff
  <1>3. SampleAccounted BY DEF TrafficInit, SampleAccounted
  <1> QED BY <1>1, <1>2, <1>3, Zenon DEF TrafficInv

\* Every reachable state of the traffic history satisfies the inductive invariant.
LEMMA TrafficInvariant == TrafficSpec => []TrafficInv
  <1>1. TrafficInv /\ [TrafficNext]_trafficVars => TrafficInv'
    BY SamplePreserves, UploaderPreserves, ServerPreserves, Zenon DEF TrafficNext
  <1> QED BY <1>1, TrafficInitially, PTL DEF TrafficSpec

\* DeleteUpTo after writeEnvelope: whatever the sampler inserts meanwhile and wherever
\* the upload breaks off, no sample leaves the store before it was written to a
\* connection.
THEOREM EverySampleAccounted == TrafficSpec => []SampleAccounted
  <1>1. TrafficInv => SampleAccounted BY Zenon DEF TrafficInv
  <1> QED BY <1>1, TrafficInvariant, PTL
=============================================================================
