\* Two workers and two signallers over two executions and two waits of one key.
SPECIFICATION HistorySpec
CONSTANTS
    Workers = {w1, w2}
    Signallers = {s1, s2}
    Execs = {1, 2}
    Keys = {k}
    Lease = 1
    Horizon = 1
    MaxWaits = 2
    MaxCrashes = 1
SYMMETRY Symmetry
INVARIANTS
    SleeperCanWake
    ClaimNeverBlocked
    AloneUnlessLate
PROPERTY BroadcastDeliversOnce
