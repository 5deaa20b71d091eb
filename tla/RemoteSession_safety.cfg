SPECIFICATION Spec
CONSTANTS
    Device = {d1}
    Conn = {c1, c2}
    NoConn = NoConn
    NoDevice = NoDevice
    Session = {s1}
    Closer = {"agent", "admin", "browser"}
    Revocable = {d1}
    MaxInFlight = 1
    MaxRestarts = 1
SYMMETRY ConnSymmetry
INVARIANTS TypeOK ActiveWasOpened ClosedIsRecorded
PROPERTIES RowLifecycle
CHECK_DEADLOCK FALSE
