SPECIFICATION FairSpec
CONSTANTS
    up = up
    again = again
    one = one
    two = two
    down = down
    ever = ever
    Tasks = {up, again, one, two, down, ever}
    Kind <- KindOf
    Load = 1
    Unload = 1
    FirstToken = 0
    Interval = 1
    Budget = 3
    CrashAfter = 1
    FailEvery = 2
    Cancellable = {again}
    Horizon = 2
INVARIANTS
    TimeIsHonest
PROPERTIES
    DriveIsSound
