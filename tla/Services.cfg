SPECIFICATION ServicesFairSpec
CONSTANTS
    Version = {v1, v2, v3}
    Working = {v1}
    Crashing = {v2}
    Installed = v1
    NoVersion = NoVersion
    MaxBootAttempts = 3
    MaxUpdates = 2
    MaxCrashes = 2
    MaxFaults = 2
    HourTicks = 2
    MaxTick = 2
    BatchSize = 2
    RawChoices = {1, 2}
    HourlyRetention = 3
    MaxBreaks = 1
    MaxQueued = 2
    MaxTasks = 2
    MaxDrops = 2
    MaxTurns = 1
    Agent = {a1, a2}
    Token = {t1}
    MaxAttempts = 2
    NoToken = NoToken
    Writer = {w1, w2, w3}
    NoWriter = NoWriter
    PreChain = 1
    MaxEntry = 4
    Monitored = {d1}
    OfflineRule = {r1}
    MetricRule = {}
    VersionRule = {}
    ServiceRule = {r2}
    Condition = {"offline", "down"}
    MaxAdmin = 3
    Grantor = {g1, g2}
    Reauth = {x1, x2}
    NoReauth = NoReauth
    MaxGrants = 2
    MaxRelease = 2
    PageSize = 2
    Channel = {"stable"}
    Syncer = {"sweeper", "handler"}
    Browser = {b1, b2}
    MaxFailures = 1
    LockTime = 1
    MaxSecret = 2
    MaxTypos = 1
    MaxChanges = 2
INVARIANTS ServicesTypeOK SampleAccounted SingleUseOneDevice ChainUnbroken
           OneLiveAlert DisabledIsOut
PROPERTIES InstallHasBinary BadUpdateRolledBack CredentialConverges AlertsFollow GrantsEnd
           SyncConverges ConfirmedStays ServicesImplement
CHECK_DEADLOCK FALSE
