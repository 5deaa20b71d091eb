SPECIFICATION FairSpec
CONSTANTS
    Device = {d1}
    Conn = {c1, c2}
    NoConn = NoConn
    NoDevice = NoDevice
    ConnectionLostAfter = 1
    OfflineAfter = 2
PROPERTIES VanishedGoesOffline
