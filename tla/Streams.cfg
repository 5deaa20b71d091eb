SPECIFICATION StreamsFairSpec
CONSTANTS
    Stream = {s1}
    Device = {d1, d2}
    Reader = {r1, r2}
    NoDevice = NoDevice
    NoStream = NoStream
    Capacity = 2
    MaxFrames = 3
    Upload = {u1, u2}
    NoUpload = NoUpload
    Hole = Hole
    Chunks = 2
    MaxLinkLoss = 1
    FileChunks = 4
    ChannelSize = 2
    Tunnel = {t1}
    Helper = {h1, h2}
    NoTunnel = NoTunnel
    MaxTunnelRestarts = 1
    Request = {q1, q2, q3}
    NoRequest = NoRequest
    Policy = {"files_write"}
    Asked = {"files.delete", "processes.terminate", "processes.list"}
INVARIANTS StreamsTypeOK ClosedOnce DeliveredInOrder OneDevicePerStream ConfirmedIsWhole
           DownloadFaithful ReportedWasDone
PROPERTIES LoopNeverBlocked ReaderEnds UploadReturns TicketUsedOnce
CHECK_DEADLOCK FALSE
