\* A worker that is lost once, and two signallers over two executions and two waits.
SPECIFICATION FairSpec
CONSTANTS
    Workers = {w1}
    Signallers = {s1, s2}
    Execs = {1, 2}
    Keys = {k}
    Lease = 1
    Horizon = 1
    MaxWaits = 2
    MaxCrashes = 1
PROPERTIES
    NoExecutionLost
    DueTimerWakes
