SPECIFICATION MCSpec
CONSTANTS
    i1 = i1
    w1 = w1
    w2 = w2
    c1 = c1
    c3 = c3
    d1 = d1
    d2 = d2
    Nobody = Nobody
    PipeRoom = 5
    CallSize = 6
    QueueRoom = 1
    MaxNotes = 1
    MaxFrames = 3
INVARIANT AttemptIsSound
PROPERTIES SessionEnds CallsReturn DaemonAnswers
CHECK_DEADLOCK FALSE
