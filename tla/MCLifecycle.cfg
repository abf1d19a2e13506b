\* Three requests, three pings of each store. The process ends, and TLC then stops.
CONSTANTS
    Requests = {r1, r2, r3}
    maxRetries = 3
SPECIFICATION FairSpec
INVARIANTS CleanExit NoEarlyClose NothingLeftBehind
PROPERTY SignalStops
CHECK_DEADLOCK FALSE
