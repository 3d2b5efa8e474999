SPECIFICATION MCSpec
CONSTANTS
    c1 = c1
    c2 = c2
    stop = stop
    d1 = d1
    d2 = d2
    Nobody = Nobody
    Id = {c1, c2}
    Worker = {d1, d2}
    MaxFrames = 3
    QueueRoom = 1
    WriterFails = TRUE
    Client = {c1, c2, stop}
    Daemon = {d1, d2}
    Mode <- Modes
    MaxActive = 2
    Events = {"idle"}
    MaxKills = 1
SYMMETRY Symmetry
INVARIANT SessionIsSound
PROPERTY DaemonIsKept
CHECK_DEADLOCK FALSE
