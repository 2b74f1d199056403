\* The same system, and what agent-client.ts says of a failing transport.
SPECIFICATION HistorySpec
CONSTANTS
    s1 = s1
    s2 = s2
    Steps <- ChainSteps
    Deps <- ChainDeps
    Requests = {r1, r2, r3}
    MaxTimeout = 1
    Margin = 1
    MaxDelay = 1
    MaxPause = 1
    Overrun = 1
    MaxLease = 2
    Ttl = 1
    MaxLosses = 1
    MaxFaults = 1
INVARIANT TransportFailureIsRetried
