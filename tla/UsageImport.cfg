\* Two replicas, three blobs of which two carry the same event.
SPECIFICATION FairSpec
CONSTANTS
    r1 = r1
    r2 = r2
    b1 = b1
    b2 = b2
    b3 = b3
    q1 = q1
    q2 = q2
    NoBlob = NoBlob
    NoDoc = NoDoc
    Replicas = {r1, r2}
    Blobs = {b1, b2, b3}
    Requests = {q1, q2}
    Content <- MCContent
    Markups = {0}
    Overlap = 2
    Lag = 1
    MaxBlobs = 2
    MaxTime = 3
    MaxFaults = 1
CHECK_DEADLOCK FALSE
INVARIANTS
    TypeOK
    NothingLeftBehind
    WatermarkOnLandedBlob
PROPERTY ImportCatchesUp
