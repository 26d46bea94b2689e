SPECIFICATION SnapshotSpec
CONSTANTS
    Writers = {w1, w2, w3}
    Foreign = Foreign
    Nothing = Nothing
    MaxFaults = 3
    Threads = {t1, t2}
    MaxMishaps = 2
SYMMETRY MCSymmetry
INVARIANTS
    PublishedIsComplete
    ReceiptIsFinal
    SnapshotOutlivesItsReaders
PROPERTIES
    NeverTakenAway
CHECK_DEADLOCK FALSE
