# WartungsRemote in TLA+

TLA+ models of the WartungsRemote server (`wr-core`) and agent (`wr-agent`), the
TLC configurations that check them on small instances, and TLAPS proofs for all
instances. Paths below are relative to the repository root (`src/` in
`PROJECT.json`). `PROJECT.json` maps each definition to the lines it models.

## The system and what is modelled

An agent keeps one WebSocket, the control channel, open to the server. The hub
(`internal/controlhub`) serves it, remembers one connection per device and writes
the device's status. Terminal sessions, tunnels, file transfers and commands are
requests over this channel; their bytes are binary frames that the broker
(`internal/relay`) hands to the browser's WebSocket. The state everybody shares is
rows in PostgreSQL, written by single statements, mostly without transactions or
version checks. Sweepers, HTTP requests and agents work on these rows at the same
time; that is what the models are about.

| Part | Code (`internal/` unless noted) | Module | Proofs |
|---|---|---|---|
| control hub, connectivity of a device row | `controlhub`, `device` | `ControlHub` | `ControlHubProofs` |
| what the hub promises | same | `HubLink` | (refinement above) |
| terminal sessions, maintenance record, agent's session manager | `remotesession`, `httpapi`, `maintenance`, `agentcore` | `RemoteSession` | `RemoteSessionProofs` |
| frames of a stream | `relay` | `RelayBroker` | `RelayBrokerProofs` |
| uploads, downloads | `httpapi/handlers_files.go`, `agentcore/files.go` | `FileUpload`, `FileDownload` | `UploadProofs`, `RequestProofs` |
| tunnels and tickets | `remotesession/tunnel.go`, `httpapi/handlers_tunnels.go` | `TunnelTicket` | `RelayBrokerProofs` |
| device commands | `httpapi/handlers_remote.go`, `agentcore/commands.go` | `DeviceCommand` | `RequestProofs` |
| self-update | `agentcore/update.go`, `agentupdate`, `cmd/wr-agent` | `AgentUpdate` | `AccountProofs` |
| traffic history, rollup, retention | `netmetrics`, `device`, `appsettings` | `NetworkTraffic` | `RecordProofs` |
| support account and rotation | `support`, `agentcore/session.go` | `SupportAccount` | `AccountProofs` (types) |
| enrollment | `enrollment`, `agentcore/enroll.go` | `Enrollment` | `AccountProofs` |
| audit log | `audit` | `AuditChain` | `RecordProofs` |
| alerts | `alerting` | `Alerting` | `RecordProofs` |
| elevated rights | `remotesession/privilege.go`, `auth/service.go` | `Privilege` | `AccountProofs` |
| release import | `agentrelease` | `Releases` | `AccountProofs` |
| login, second factor, sessions | `auth`, `httpapi/handlers_auth.go` | `SignIn` | `AccountProofs` |
| what tickets, tokens and reauthentications promise | those of the three parts | `SingleUse` | (refinements in `RelayBrokerProofs`, `AccountProofs`) |
| what the audit log promises | `audit` | `AppendLog` | (refinement in `RecordProofs`) |

`ControlHub` implements `HubLink`; `RemoteSession` extends `HubLink`, so it stands on
a connection layer that the detailed hub is shown to provide. `RemoteSession` keeps
only whether a stream is registered; the channel behind it is `RelayBroker`'s. The
other modules share no state with one another. Where one depends on the connection
it has a connection of its own that breaks and comes back at any time, losing what
is in flight, which is what `HubLink` allows. `MCStreams` and `MCServices` put them side
by side: the initial state chooses one (`focus`, `service`) and only that one moves.

Three secrets of the system may be used once: a tunnel ticket, an enrollment token for one
device, a reauthentication. Each is checked and marked by code of its own form (a
short transaction on the locked row; a longer one that also creates the device; a
conditional UPDATE, with the INSERT of the grant in a later statement), and `SingleUse` is what all three implement. `AuditChain` implements
`AppendLog`.

### HubLink

`conns` is `Hub.conns`; `phase` is the progress of one `ServeAgentWS` call: `live`
from the critical section that registers it, `ended` when the read loop has
returned, `unmapped` after its own entry was deleted and until its disconnect
callback is done.

### ControlHub

One action per critical section of `Hub.mu` and per SQL statement. A call goes
`dialing → acked → mapped → reading → ended → unmapped → lost`. The
sweeper reads the ids, then for each device the row, then writes and closes, with
everybody else in between. The socket is seen from both ends: `silent` is an agent
that vanished without a close. Time is the age of `last_seen_at`, cut off at the
larger timeout, which is all the code compares. The row of a deleted device is the
status `deleted`; an UPDATE does not touch it. Revocation and deletion come from
`handlers_devices.go`, restarts from `cmd/wr-core`.

### RemoteSession

`open` is the program counter of `handleCreateSession`/`OpenTerminal`. `closer` has
one counter for each handler that ends a session: the agent's `session_close`, the
administrator's DELETE, the end of the browser's stream. They call the same
operations in different orders, which is the table `Steps`. `handler` is the disconnect
callback: one UPDATE, then the stream and the record of each row it returned.
The agent has a terminal per session (`open`, `ended` before its pump reported it,
`gone`), answers in order, and starts the pump before it answers. Messages are queues
per connection and are lost when an end goes away. A request whose browser leaves has
its context cancelled: the statements that follow fail (`ClientGone`, `AdminGone`).

Simplifications: `maintenance.Open` and `SetMaintenanceSession` are one step, since
nobody reads the record in between; a server restart ends the agent's side at once;
database errors other than those of a cancelled context are left out; resize and
session expiry as a row state are left out.

### RelayBroker

`handleInbound` and `Unregister` are two actions each, because both work on the
channel after the unlock. A send on a closed channel panics; the read loop is then
dead. The other modules do not contain this panic, so what they show about cleanup
holds for read loops that do not meet it.

### FileUpload, FileDownload

A file is the sequence of chunks in it. All uploads go to one path, so they share the
temporary file `<path>.wr-upload.tmp`, each with its own handle and offset; `Close`
renames whatever has that name. A failed write, the end-of-file frame and the loss of
the connection (`closeAll`) all close. The server's handler registers its waiter after
the end-of-file frame, so an early result finds nobody. A download registers its stream
before it asks; the read loop drops what its channel cannot take.

### TunnelTicket

`opening`, `helper` and `closer` are the program counters of `handleCreateTunnel`,
`handleTunnelStream` and the three other ways a session ends. The transaction of
`ConsumeTicket` is two actions, the `SELECT ... FOR UPDATE` with its tests (`LockTicket`)
and the commit or rollback; a helper at `locked` holds the row lock in between, and another
helper's SELECT waits for it. A restart runs the invalidations of `NewRouter`.

### DeviceCommand

Requests wait with a deadline, the agent's read loop executes one command at a time, and
a command can outlive its connection (`orphans`): then it still takes effect and nobody
is told. `Permits` is the policy test of `handleDeviceCommand`; `Audited` are the
commands whose handlers record an event.

### AgentUpdate

`exe` holds the three files, `marker` the attempt count in `update.marker`. Every file
operation of `StageAndSwap`, `RestoreBackup`, `SaveMarker`, `commitPendingUpdate` is a
step and may fail (`MaxFaults`), and the process may die between any two, or exit because
of an earlier update while it handles the next. A version works (`Working`), or ends after
`reconcilePendingUpdate` has counted its start (`Crashing`), or does any of what a binary
that is neither may do: end before the start is counted, end later, or run on and never
reach the server.

### NetworkTraffic

A sample is named by the tick of its interval and counts as one, so an hour's total is
its number of rows. Sampler, uploader, connection, server and retention sweeper
interleave. `shipped` and `unstored` are history variables, the samples that were written
to a connection and those whose local insert failed; no action reads them.

### SupportAccount

Every `EnsureSupportAccount` sets a fresh password, so a password is only "the one now
set" or an older one. The provisioning goroutine and the command loop run at once and may
outlive their connection (`here`). The rotation sweeper is hourly: the model lets
it act only when nothing of its last command is in flight. A report that arrives may fail
to be stored, which the server only logs (`UpsertFails`).

### Enrollment

The transaction of `Consume` is two actions, the `SELECT ... FOR UPDATE` and the commit or
rollback, with `lock` as the row lock between them. An attempt of the agent has a number
that stands for its key and install id; answers can be lost, and the token file stays
for the next attempt.

### AuditChain

`Record` is begin, advisory lock, read of the newest hash, insert and commit, with a
rollback anywhere. A hash is named by the entry's id (SHA-256 taken as injective); the
sequence does not go back on rollback, so ids have gaps.

### Alerting

The sweeper keeps what it listed at its start (`sweep.listed`) and evaluates pairs of a
rule and a device one by one, while conditions change and administrators edit rules
and handle alerts. `OpenIfNotExists` is two statements. A service rule whose agent is
offline or does not answer reports no condition, as the code does. Alerts that are resolved are
never read again, so only the numbers of open and acknowledged ones are kept.

### Privilege

Grant requests (`grantor`), one revoke request, the expiry sweeper and the end of the
session interleave. `ConsumeReauth` is one UPDATE and one action. `GrantPrivilege` tests the
session state that was loaded before.

### Releases

Two syncs, the sweeper's and an administrator's, each work on the GitHub listing and the
rows they read first. A release appears with its assets one after the other. A listing is
one page of the newest `PageSize` releases (`Listed`): `fetchReleases` asks for no other.

### SignIn

One account, several browsers. `browser` is the step of a login, which is several statements
and requests; `request` is an API request between `Validate` and the handler. The
lock is counted in ticks. `request.off` records, for the property, whether the
account was already off when the request came. `POST /auth/reauth`, the one route with a
session outside `RequireSession`, is `HandleReauth`. One browser stands for all rows of its
user's `user_sessions`, so a code sent twice makes no second session in the model.

## Runs

Passing:

- `hub` (one device, two calls at once, restarts; 87,000 states): `MapSound`,
  `SinglePrimary`, `OnlineMeansServed`, `ImplementsHubLink`, `HalfOpenReaped`,
  `EndedIsCleanedUp`, `OnlineHeals`. With two identities a connection is superseded while
  the older one is cleaning up and the sweeper holds either; the safety properties are
  proved for any number. `OnlineMeansServed` excepts the stop of the server, which may
  leave a row online with nobody there. `OnlineHeals` is about devices with an active
  credential: a connection that a revoked device still has is `hub_revoked`'s.
- `session_safety` (one session, two connections, all closers, revocation, one restart;
  1.2 million states): `ActiveWasOpened`, `ClosedIsRecorded`, `RowLifecycle`.
- `session_live` (without browser, restart): `ClosedEndsTerminal`, `OpenReturns`.
- `streams` (178,000 states):
  - `RelayBroker`, one stream, two devices, two browsers, capacity 2, three frames:
    `ClosedOnce`, `DeliveredInOrder`, `OneDevicePerStream`, `LoopNeverBlocked`, `ReaderEnds`.
    Three frames overflow the channel. `OneDevicePerStream` compares the sender of each
    frame with the device the stream was registered for (`owner`, kept after `Unregister`).
  - `FileUpload`, two uploads of two chunks, one loss of the connection: `ConfirmedIsWhole`,
    `UploadReturns`. Two chunks tell a truncated file from a whole one.
  - `FileDownload`, four chunks through a channel of two: `DownloadFaithful`.
  - `TunnelTicket`, one ticket, two helpers, one restart: `TicketUsedOnce`, the refinement of
    `SingleUse`.
  - `DeviceCommand`, three requests, any of an allowed, a forbidden and an unaudited
    command: `ReportedWasDone`. With three, one can run orphaned, one wait and one
    be answered.
- `services` (125,000 states):
  - `AgentUpdate`, three versions of which one works, one is crashing and one is neither, two
    updates, two deaths, two failed file operations, three boot attempts:
    `InstallHasBinary`, `BadUpdateRolledBack`. Two failures are what a swap and its undoing
    need.
  - `NetworkTraffic`, three ticks in hours of two, batches of two, one broken connection:
    `SampleAccounted`. A third sample can arrive between a batch and its deletion.
  - `SupportAccount`, two goroutines, two losses of the connection or of a report: `CredentialConverges`.
  - `Enrollment`, two agents with one token, two attempts each: `SingleUseOneDevice`.
  - `AuditChain`, three requests, four ids of which one is older than the chain: `ChainUnbroken`.
  - `Alerting`, an offline rule and a service rule on one device, three actions of
    administrators: `OneLiveAlert`, `AlertsFollow`. Version rules take the steps of offline
    rules, and metric rules those with a condition read at evaluation; with all four kinds
    the model has more than ten times the states. `OneLiveAlert` is proved for all.
  - `Privilege`, two requests, two reauthentications, two grants: `GrantsEnd`.
  - `Releases`, two releases, two syncs: `SyncConverges`. A partial release next to a
    complete one is the case the sync must not stop at. Both fit on the page.
  - `SignIn`, two browsers, two secrets, two changes of the account: `ConfirmedStays`,
    `DisabledIsOut`.
  - `ServicesImplement`: `Enrollment` and `Privilege` implement `SingleUse`, `AuditChain`
    implements `AppendLog`.

Violations, each a disagreement between the code and a document or comment:

- `hub_revoked`: a heartbeat of the connection that still stands, or its cleanup, overwrites
  `revoked` (docs/STATE_MACHINES.md has no way out of REVOKED).
- `hub_offline`: the sweeper only sees registered connections and a call's cleanup
  writes `connection_lost` last, so a device can stay there for ever (comment of
  `Hub.Run`).
- `session_reactivated`: `OpenTerminal` writes `active` over `interrupted`
  (docs/STATE_MACHINES.md, section 3).
- `session_early_close`: a terminal that exits before its row is active leaves an active
  session behind (comment in `handleMessage`).
- `relay_unregister`: a frame can be sent on a channel that `Unregister` has closed
  (comment of `Unregister`).
- `metrics_rollup`: raw rows are pruned by age and not by hour, and the rollup replaces an
  hour's total by that of the rows that are left, so re-running it shrinks the total of the
  hour the retention cuts through (comments of `RollupHourlyNetworkMetrics` and
  `RollupHourlyMetrics`). Five ticks in hours of two, raw retention three.
- `metrics_lost`: a batch is deleted once it is written to the socket, so a connection that
  breaks before the server has read it costs its samples (docs/AGENT.md, section 8a). Two
  ticks and one loss.

Bounds: in `ControlHub` the number of calls in progress is bounded, the number of
reconnects is not, as a connection identity is used again when its call has returned.
`Closer`, `Revocable`, `MaxInFlight` and `MaxRestarts` keep `RemoteSession` finite: an
administrator's request starts only while fewer than `MaxInFlight` messages are on the
way to an agent. The constants named `Max...` of the other modules bound faults (losses,
deaths, restarts), numbered things (frames, attempts, ids, secrets, grants, releases)
and what administrators do; they are conjuncts of the guards and each is large enough
for the mutants of its module to be found. The timeouts 1 and 2 keep the order of the
code's defaults. Symmetry is used in safety runs only. Deadlock is checked for the hub.
The session model stops when its only device is revoked and its session is over; the
models of `streams` and `services` stop when requests are answered and bounds used up,
so there it is not.

Fairness:

- goroutines that can run do run (the Go scheduler), tickers and timeouts fire, an agent
  whose connection stands sends heartbeats, and in `RemoteSession` an end notices that
  the other has closed (`HalfOpenReaped` and `EndedIsCleanedUp` show this for the hub);
- an upload handler runs on and its deadlines pass; its agent need not answer;
- the service manager restarts the agent (`AgentProgress`); updates and deaths need not
  happen;
- agents reconnect (`SessionStarts`), the sweepers of alerts, grants, rotation and
  releases tick, grants reach their `valid_until`;
- strong fairness only where the code tries again for ever (`Retried`): an operation that is
  attempted again and again succeeds some time (setting the password, evaluating a rule,
  revoking an expired grant, importing a release).

Nothing obliges an agent to connect to the hub, a terminal to exit, a browser to
leave, an administrator to act or the server to restart.

Each property of a passing run has a mutant, a definition named after what it changes and
placed before the one it stands for, that makes TLC report a violation.

## Proofs

Every invariant and every action property of a passing run, the type invariants
included, is stated by a theorem; so are the refinements `ImplementsHubLink`, `TicketUsedOnce`
and `ServicesImplement`. All are for any values of the constants under the named `ASSUME`s: the `No...` values lie outside the
sets they complete, bounds, timeouts, lengths and capacities are natural numbers (the
capacities, batch and hour not zero), `Closer` contains the agent and only known
handlers, the installed version is one that works, and the devices with alert rules
(`Monitored`) are finitely many. The bounds on faults are constants like the others, so
the theorems hold for any number of them.

`ControlHubProofs`: `TypeCorrect`, `RoutingSound`, `OnePrimary`, `HubImplementsLink`, and
`OnlineIsServed`. `MapSound` and `SinglePrimary` need each other
and the fact that a call that has begun, and a sweeper about to write, know a real
device; `IInv` is their conjunction. The refinement follows because each step changes
`conns` in the way one step of `HubLink` does, using `MapSound` where `Return` frees an
identity.

`RemoteSessionProofs`: `TypeCorrect`, `ActiveFollowsStart`, `ClosedHasRecord`,
`RowsFollowLifecycle`, `AnswersAreRight`, `SessionsUseLink`. The rows do not protect themselves, so
the invariant is about program counters: a closer past its reading of the row exists only
after `OpenTerminal` succeeded (`ClosingRow`), while `OpenTerminal` runs the row is requested
or interrupted (`OpeningRow`), a closer at its last write has finished the record
(`RecordFirst`), and every success, in flight, delivered or acted on, comes after the start
of the terminal (`SuccessFollowsStart`, `AnswersFollowStart`). That a refusal is right needs
more, since a terminal could start after it: `AskedOnce` says that a session is asked for by
at most one message, on one connection and at one place of its queue, and that the
question, the refusal and the terminal exclude one another. It is proved on top of `IInv`;
most of the work is that queues only lose their head, gain a last message, or are
emptied (`Moved`). TLC had no objection to `AskedOnce` with one session and all closers
(581,000 states) and with two sessions on shared connections (9 million).
`RowsFollowLifecycle` needs the same invariant: `SetState` and `Close` write without looking,
and only the place their handlers have reached says what they can overwrite. The step
proofs share `StepKinds` and `StepFrames`, which group the actions and say what each
group leaves alone. `SessionsUseLink` closes the chain from `HubImplementsLink`: no handler
step treats the connections in a way the hub would not.

`RelayBrokerProofs`, the broker: `ChannelClosedOnce`, `InOrder`, `OneDevice`. `Table` says that whoever
finds a stream's entry is the first to close its channel. `Frames` says that everything on
a stream is from the device it was registered for (`OneOwner`) and that numbers grow from
what browsers have, over what is buffered, to what the read loop is about to send
(`BufferOrdered`, `ReceivedFirst`). The order needs the owner: two read loops on one
channel would mix their numbers.

`RelayBrokerProofs`, the tickets: `RedeemedOnce` and `TicketsAreSingleUse`. A helper past the
SELECT holds the row of a ticket that can be redeemed, alone (`LockHeld`), so what it tested
still holds at its commit. A redeemed ticket was shown, so the request that could issue it is
past that step, and its row is in no state that can be redeemed (`WonIsSpent`); a restart
keeps both. The refinement maps a ticket to the helpers that won it; a helper wins at its
commit only (`WinsAtCommit`) and never before, so a use is never taken back.

`UploadProofs`: `ConfirmedUploadIsWhole`. An upload without competitors (`Alone`) is the only one with a
writer, with frames and with the temporary name, its file has what was sent minus what
is in flight, and a success, travelling or kept, is about a file that was renamed whole
(`SoleWriter`, `SoleSuccess`). `OpenIsFirst` and `Offsets` hold with competitors too: an
`open` on its way is the first the agent hears of an upload, and a writer is behind the
chunks that are still on their way to it.

`RequestProofs`:

- `BrowserGetsTheFile`. The agent answers once (`OneAnswer`), and saved, buffered, travelling and
  unread chunks grow in this order (`FramesInOrder`). That a download without a loss is
  whole needs positions and not only order: as long as nothing was dropped, the n-th
  frame over all these places is chunk n, the answer to the command counted out (`Unbroken`).
- `ReportedCommandWasDone`. A command that is still to be executed is in one place, the queue,
  the agent's read loop or the orphans (`OnePlace`), and while it is there nothing has come
  of it (`Pending`); so an effect is not repeated, and a success is only told of an effect
  (`ToldWasDone`).

`AccountProofs`:

- `OneDevicePerToken`. A transaction past its SELECT holds the row of an open token, alone
  (`Holds`), so the token it commits with is the one it tested; revocation waits for the row.
- `TokensAreSingleUse`. From the same invariant: the commit, and no other step, uses the token,
  and it finds none used. A token that is created must not have devices yet, or making it
  reusable would take a use back (`DevicesHaveTokens`).
- `EnrolledForGood`. The device is there before the answer and the answer before the
  identity, and an agent with an identity is not in an attempt (`IdentityInv`), so a retry
  after a lost answer never leaves it with a key the server does not know.
- `OneGrantEach`. At most one request is confirmed by a token, a consumed token has at most
  one row, and no row of a request still confirmed (`Confirmed`, `GrantsRest`).
- `ReauthsAreSingleUse`. The use is the INSERT of the grant, in a step after the one that
  consumed the token; until then the request is the only one the token has confirmed.
- `SyncsAreSound`. What a sync remembers as seen has a row and what it listed as complete is
  complete (`SyncInv`), because rows and assets only come to be. So a list that
  is stale when it is used never makes a sync skip a release without a row or import an
  incomplete one. That each complete release gets its row in the end is `SyncConverges`.
- `DisabledAccountIsOut`, `ConfirmedFactorStays`. A request marked as come while the account
  was off is one whose account is still off (`OffIsStillOff`), and `RequireSession` tests
  the status after the session, so sessions that a login creates late do not matter. The
  theorem is about requests behind `RequireSession`.
- `BinaryIsInstalled`. While a swap or a rollback is under way the file that the next rename
  needs is there (`SwapHasFiles`), so only a rename that fails, or a death before it, can
  leave the path empty; each action is shown to keep `PathServed` or to be one of the
  exceptions `InstallHasBinary` names. It is an action property, so it holds again for each
  later update and not only for the first trouble.

`RecordProofs`:

- `ChainHolds`. Whoever is past the advisory lock holds it (`Exclusive`), so what it read as the
  newest entry still is (`Newest`), and its id is above all committed ones (`Drawn`), gaps or
  not.
- `AuditIsAppendOnly`. The commit is the only step that changes the entries others see; by
  `Newest` and `Drawn` it appends one that names the newest, although it was read, numbered
  and inserted in earlier steps.
- `AtMostOneLive`. Between the SELECT and the INSERT the pair has no live alert
  (`InsertIsFirst`): only the one sweeper inserts, and administrators only take away. A
  second sweeper, or a handler that inserts, would break this argument.
- `EverySampleAccounted`. The batch is the oldest part of the store until it is deleted
  (`BatchIsOldest`), because the sampler only adds newer samples (`SampledBefore`); so what
  `DeleteUpTo` deletes was in the batch, which was written (`WrittenIsSentOff`).

`CompositionProofs`: `StreamsTypes` and `ServicesTypes` are about the conjunction of the
parts' specifications, in which their steps interleave and coincide freely. `StreamsSpec`
and `ServicesSpec`, which TLC runs, let one part move; they implement each part's
specification (`SideBySide`, `ServicesSideBySide`), and so have its invariants
(`StreamsSafe`, `ServicesSafe`) and its refinements (`StreamsSafe`, `ServicesAbstract`). The
parts share no variables, which is why nothing more than this is needed and why TLC may
check them one at a time.

Only model-checked are the liveness properties: `HalfOpenReaped`, `EndedIsCleanedUp`,
`OnlineHeals`, `ClosedEndsTerminal`, `OpenReturns`, `LoopNeverBlocked`, `ReaderEnds`,
`UploadReturns`, `BadUpdateRolledBack`, `CredentialConverges`, `AlertsFollow`, `GrantsEnd`,
`SyncConverges`. They rest on fairness, and fairness on ENABLED, which the prover does not
handle. `SupportAccount` promises only such a property, so what is proved of it is its types.
The invariants behind `EnrolledForGood` and `SyncsAreSound` were checked with TLC on the
instance of `services` before they were proved.

## Disagreements without a run

Met in the models and excluded by a document or a comment. The properties are stated so that
they do not claim the contrary; the notes of the hazards in `PROJECT.json` have the details.

- A completed maintenance record is overwritten by `interrupted` when the device disconnects
  while the session is being closed. docs/STATE_MACHINES.md:141: "Ein abgeschlossener
  Wartungseintrag wird nicht nachträglich still überschrieben". `ClosedIsRecorded` says only
  that the record of a closed session is not left open.
- A service rule resolves its alert when the agent goes offline or does not answer in time.
  alerting/engine.go:240 says "don't flap the alert state based on connectivity", :248 "skip
  this tick". `AlertsFollow` says nothing of a service rule while the agent is offline.
- `POST /auth/reauth` is not behind `RequireSession` and does not look at the account, so a
  disabled account with a late session can still get a `reauth_id`. auth/middleware.go:20-21:
  "every state-changing admin API route must be wrapped by this middleware".
- An update is not rolled back when the new binary ends before `reconcilePendingUpdate` or
  runs on without reaching the server, when the process died or failed before the marker was
  written, or when a second update before the exit of the first replaced the backup.
  docs/SPECIFICATION.md:389-391: "vorherige funktionsfähige Version für Rollback behalten",
  "automatischer Rollback bei fehlgeschlagenem Start".
- Two failed renames of one swap leave no binary at the agent's path. agentcore/update.go:50-51:
  "a failure never leaves the install without a working binary".
- A connection that is lost commits a truncated upload, which is not reported as done.
  docs/SPECIFICATION.md:324 wants a hash check before the rename; there is none.
- A command may take effect without an answer and without an audit record.
  docs/SPECIFICATION.md:337 wants writing actions "vollständig auditiert".
- Frames for a slow reader are dropped, and a download with dropped frames ends like a
  complete one. docs/RELAY.md:72: "Streaming muss echtes Backpressure unterstützen".
- A ticket is used before the session is looked at and the helper accepted, so a failed check
  spends it. docs/STATE_MACHINES.md:91 marks it used "bei erfolgreichem Relay-Handshake".

## What the properties leave open

Met in the models, and excluded by no document we know of:

- a failed open leaves its maintenance record open;
- the callback of a superseded connection interrupts sessions of the new one;
- a death between the two renames of a swap, or before the rename of a rollback, leaves no
  binary at the agent's path;
- samples are counted twice when a connection breaks between the write and the deletion;
- `ConfirmSetup` confirms the secret that is in the row at its UPDATE, which another
  login may have replaced since the code was checked;
- a release that leaves the first page of the listing before it was complete is not imported.

## Not modelled

- Health evaluation (`monitoring/health.go`): it computes one column from the newest rows and
  overwrites it; nothing decides on the column.
- The rollup of the other metrics, whose statements have the form of the network ones;
  inventory, status and metrics reports, which only store what they carry.
- `Latest`, blocked and minimum versions of releases: `ORDER BY` in SQL over timestamps of the
  database.
- Rate limits, recovery codes, password changes, notifications, RBAC, customers, groups, help:
  row-level create, read, update and delete, or one counter under one lock.
- Cryptography: signatures, hashes, TOTP and the challenge of the handshake are an
  exact match or no match.
- Configuration, migrations, the Windows providers and the other operating system calls,
  `wr-helper`, `wr-release-sign`, the dashboard: start-up code, I/O or presentation.
