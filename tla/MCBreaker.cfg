\* Three goroutines, two probes, an interval that is longer than the timeout.
CONSTANTS
    Workers = {w1, w2, w3}
    MaxRequests = 2
    Interval = 2
    Timeout = 1
SPECIFICATION FairSpec
INVARIANT FewCallsToADeadService
PROPERTY Recovers
