--------------------------- MODULE NetworkTraffic ---------------------------
(***************************************************************************)
(* Network traffic history, from the agent's sampler to the hourly totals: *)
(* internal/netmetrics, uploadNetworkMetrics in                            *)
(* internal/agentcore/session.go, the network_metrics_batch message in     *)
(* internal/controlhub/hub.go, the raw and hourly tables of                *)
(* internal/device/device.go, their sweeper in retention.go and the        *)
(* retention settings in internal/appsettings.                             *)
(*                                                                         *)
(* The agent takes one sample per tick and names it by the tick.  A sample *)
(* counts as one, so an hour's total is the number of its samples.  The    *)
(* batch is deleted from the local store once it is written to the         *)
(* connection, which is not yet its receipt.                               *)
(***************************************************************************)
EXTENDS Naturals, Sequences, FiniteSets

CONSTANTS
    HourTicks,      \* ticks of an hour
    MaxTick,        \* bound: ticks
    BatchSize,      \* networkBatchSize
    RawChoices,     \* raw retentions an administrator may set, in ticks
    HourlyRetention,\* of the hourly table, in ticks
    MaxBreaks       \* bound: losses of the connection

ASSUME TrafficAssumption ==
    /\ HourTicks \in Nat \ {0} /\ MaxTick \in Nat /\ BatchSize \in Nat \ {0}
    /\ RawChoices \subseteq Nat \ {0} /\ HourlyRetention \in Nat /\ MaxBreaks \in Nat

VARIABLES
    tick,       \* the clock; samples 0..tick-1 were taken
    store,      \* samples in netmetrics.db
    uploader,   \* uploadNetworkMetrics: its step and batch
    batches,    \* messages on their way to the server
    lineUp,     \* the control channel is up
    breaks,
    raw,        \* device_network_metrics: rows of each sample
    hourly,     \* device_network_metrics_hourly: sample_count of each hour, 0 for no row
    sweeper,    \* RunMetricsRetentionSweeper: its step
    rawKept,    \* the effective raw retention
    shipped,    \* history: samples written to a connection
    unstored    \* history: samples whose insert failed

trafficVars == <<tick, store, uploader, batches, lineUp, breaks, raw, hourly, sweeper, rawKept, shipped, unstored>>

Sample == 0..MaxTick
Hour == 0..(MaxTick \div HourTicks)
HourOf(s) == s \div HourTicks

TrafficTypeOK ==
    /\ tick \in 0..MaxTick + 1 /\ store \subseteq Sample
    /\ uploader \in [at : {"idle", "read", "written"}, batch : SUBSET Sample]
    /\ batches \in Seq(SUBSET Sample) /\ lineUp \in BOOLEAN /\ breaks \in 0..MaxBreaks
    /\ raw \in [Sample -> Nat] /\ hourly \in [Hour -> Nat]
    /\ sweeper \in {"asleep", "rolled"} /\ rawKept \in RawChoices
    /\ shipped \subseteq Sample /\ unstored \subseteq Sample

TrafficInit ==
    /\ tick = 0 /\ store = {} /\ uploader = [at |-> "idle", batch |-> {}]
    /\ batches = <<>> /\ lineUp = FALSE /\ breaks = 0
    /\ raw = [s \in Sample |-> 0] /\ hourly = [h \in Hour |-> 0]
    /\ sweeper = "asleep" /\ rawKept \in RawChoices
    /\ shipped = {} /\ unstored = {}

----------------------------------------------------------------------------
(* The agent *)

\* RunSampler, connected or not; an insert that fails is logged.
TakeSample ==
    /\ tick <= MaxTick /\ tick' = tick + 1
    /\ \/ store' = store \cup {tick} /\ UNCHANGED unstored
       \/ unstored' = unstored \cup {tick} /\ UNCHANGED store
    /\ UNCHANGED <<uploader, batches, lineUp, breaks, raw, hourly, sweeper, rawKept, shipped>>

\* Pending: the oldest samples.
Oldest(n) == {s \in store : Cardinality({q \in store : q < s}) < n}

ReadPending ==
    /\ lineUp /\ uploader.at = "idle" /\ store # {}
    /\ uploader' = [at |-> "read", batch |-> Oldest(BatchSize)]
    /\ UNCHANGED <<tick, store, batches, lineUp, breaks, raw, hourly, sweeper, rawKept, shipped, unstored>>

\* writeEnvelope.
WriteBatch ==
    /\ lineUp /\ uploader.at = "read"
    /\ batches' = Append(batches, uploader.batch) /\ shipped' = shipped \cup uploader.batch
    /\ uploader' = [uploader EXCEPT !.at = "written"]
    /\ UNCHANGED <<tick, store, lineUp, breaks, raw, hourly, sweeper, rawKept, unstored>>

\* Mutant: the whole table is cleared.
DeleteAll ==
    /\ uploader.at = "written"
    /\ store' = {}
    /\ uploader' = [at |-> "idle", batch |-> {}]
    /\ UNCHANGED <<tick, batches, lineUp, breaks, raw, hourly, sweeper, rawKept, shipped, unstored>>

\* DeleteUpTo the last id of the batch; the sampler may have inserted since.
DeleteUpTo ==
    /\ uploader.at = "written"
    /\ store' = {s \in store : \A b \in uploader.batch : s > b}
    /\ uploader' = [at |-> "idle", batch |-> {}]
    /\ UNCHANGED <<tick, batches, lineUp, breaks, raw, hourly, sweeper, rawKept, shipped, unstored>>

\* The session ends, the process dies, or a statement on the store fails, at any step of
\* the upload: what is in flight is lost, what was not deleted yet is uploaded again.
LineBreaks ==
    /\ lineUp /\ breaks < MaxBreaks
    /\ lineUp' = FALSE /\ breaks' = breaks + 1
    /\ batches' = <<>> /\ uploader' = [at |-> "idle", batch |-> {}]
    /\ UNCHANGED <<tick, store, raw, hourly, sweeper, rawKept, shipped, unstored>>

LineRestored ==
    /\ ~lineUp /\ lineUp' = TRUE
    /\ UNCHANGED <<tick, store, uploader, batches, breaks, raw, hourly, sweeper, rawKept, shipped, unstored>>

----------------------------------------------------------------------------
(* The server *)

\* handleMessage, RecordNetworkMetricsBatch: one row per sample, no test for one that
\* is there; the batch is one transaction, whose failure is logged.
RecordBatch ==
    /\ batches # <<>> /\ batches' = Tail(batches)
    /\ \/ raw' = [s \in Sample |-> IF s \in Head(batches) THEN raw[s] + 1 ELSE raw[s]]
       \/ UNCHANGED raw
    /\ UNCHANGED <<tick, store, uploader, lineUp, breaks, hourly, sweeper, rawKept, shipped, unstored>>

\* RollupHourlyNetworkMetrics: the totals of the raw rows replace those of the hours
\* that have any.
RowsOf(h) == UNION {{s} \X (1..raw[s]) : s \in {q \in Sample : HourOf(q) = h}}
CountOf(h) == Cardinality(RowsOf(h))

Rollup ==
    /\ sweeper = "asleep"
    /\ sweeper' = "rolled"
    /\ hourly' = [h \in Hour |-> IF h < HourOf(tick) /\ RowsOf(h) # {} THEN CountOf(h) ELSE hourly[h]]
    /\ UNCHANGED <<tick, store, uploader, batches, lineUp, breaks, raw, rawKept, shipped, unstored>>

\* ApplyNetworkMetricsRetention; the sweeper skips it when the rollup failed.
Prune ==
    /\ sweeper = "rolled"
    /\ sweeper' = "asleep"
    /\ raw' = [s \in Sample |-> IF s + rawKept < tick THEN 0 ELSE raw[s]]
    /\ hourly' = [h \in Hour |-> IF h * HourTicks + HourlyRetention < tick THEN 0 ELSE hourly[h]]
    /\ UNCHANGED <<tick, store, uploader, batches, lineUp, breaks, rawKept, shipped, unstored>>

\* SetNetworkMetricsRetention.
SetRetention(k) ==
    /\ rawKept' = k
    /\ UNCHANGED <<tick, store, uploader, batches, lineUp, breaks, raw, hourly, sweeper, shipped, unstored>>

\* RunMetricsRetentionSweeper, for the network tables: the rollup, then the pruning.
RetentionSweep == Rollup \/ Prune

TrafficNext ==
    \/ TakeSample \/ ReadPending \/ WriteBatch \/ DeleteUpTo \/ LineBreaks \/ LineRestored
    \/ RecordBatch \/ RetentionSweep
    \/ \E k \in RawChoices : SetRetention(k)

TrafficSpec == TrafficInit /\ [][TrafficNext]_trafficVars

----------------------------------------------------------------------------
\* uploadNetworkMetrics, DeleteUpTo: no sample leaves the local store before it was
\* written to a connection, whatever the sampler inserts during the upload and wherever
\* the upload is broken off.
SampleAccounted == \A s \in 0..tick - 1 : s \in store \cup shipped \cup unstored

\* docs/AGENT.md, section 8a: a short loss of the connection shall cost no data.  A
\* sample that is stored, in flight or recorded when the connection goes still is after.
Survives(s) == s \in store \/ raw[s] > 0 \/ \E i \in 1..Len(batches) : s \in batches[i]
LossCostsNothing == [][lineUp /\ ~lineUp' => \A s \in Sample : Survives(s) => Survives(s)']_trafficVars

\* device.go, RollupHourlyMetrics: the rollup can simply be re-run on every sweep.  An
\* hour's total is never replaced by a smaller one while its row is kept.
RerunKeepsTotals ==
    [][\A h \in Hour : hourly'[h] >= hourly[h] \/ hourly'[h] = 0]_trafficVars
=============================================================================
