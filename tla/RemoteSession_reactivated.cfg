SPECIFICATION Spec
CONSTANTS
    Device = {d1}
    Conn = {c1, c2}
    NoConn = NoConn
    NoDevice = NoDevice
    Session = {s1}
    Closer = {"agent"}
    Revocable = {}
    MaxInFlight = 1
    MaxRestarts = 0
PROPERTIES InterruptedNeverActive
CHECK_DEADLOCK FALSE
