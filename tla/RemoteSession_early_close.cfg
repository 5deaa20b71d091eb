SPECIFICATION FairSpec
CONSTANTS
    Device = {d1}
    Conn = {c1}
    NoConn = NoConn
    NoDevice = NoDevice
    Session = {s1}
    Closer = {"agent"}
    Revocable = {}
    MaxInFlight = 1
    MaxRestarts = 0
PROPERTIES AgentCloseCleansUp
CHECK_DEADLOCK FALSE
