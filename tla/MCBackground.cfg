SPECIFICATION MCSpec
CONSTANTS
    t1 = t1
    t2 = t2
    t3 = t3
    u1 = u1
    p1 = p1
    del = del
    swp = swp
    rec = rec
    gc = gc
    MaxSignals = 2
    MaxForks = 1
INVARIANT CaptureIsSound
PROPERTIES RunEnds CapturesEnd CronsFinish
CHECK_DEADLOCK FALSE
