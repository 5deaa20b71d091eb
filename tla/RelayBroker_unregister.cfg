SPECIFICATION Spec
CONSTANTS
    Stream = {s1}
    Device = {d1, d2}
    Reader = {r1, r2}
    NoDevice = NoDevice
    NoStream = NoStream
    Capacity = 2
    MaxFrames = 3
SYMMETRY ReaderSymmetry
INVARIANTS StopsRouting
CHECK_DEADLOCK FALSE
