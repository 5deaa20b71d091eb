SPECIFICATION FairSpec
CONSTANTS
    Device = {d1}
    Conn = {c1, c2}
    NoConn = NoConn
    NoDevice = NoDevice
    Session = {s1}
    Closer = {"agent", "admin"}
    Revocable = {}
    MaxInFlight = 1
    MaxRestarts = 0
PROPERTIES ClosedEndsTerminal OpenReturns
CHECK_DEADLOCK FALSE
