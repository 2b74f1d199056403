\* A chain of two steps, three calls, and an agent that keeps a result, as the
\* defaults do, for as long as a step may run and less than the worker waits.
SPECIFICATION HistoryFairSpec
CONSTANTS
    s1 = s1
    s2 = s2
    Steps <- ChainSteps
    Deps <- ChainDeps
    Requests = {r1, r2, r3}
    MaxTimeout = 1
    Margin = 1
    MaxDelay = 1
    MaxPause = 1
    Overrun = 1
    MaxLease = 2
    Ttl = 1
    MaxLosses = 1
    MaxFaults = 1
INVARIANTS
    CommandRunsOncePerLoss
    OutcomeOfOwnCommand
    SettledStepIsQuiet
PROPERTY CallsEnd
