\* Three requests for one step, a leader or the agent lost; a lease that outlasts
\* the shorter timeout and not the longer.
SPECIFICATION FairSpec
CONSTANTS
    Requests = {r1, r2, r3}
    Keys = {k1}
    MaxTimeout = 2
    Overrun = 1
    MaxLease = 2
    Ttl = 1
    MaxLosses = 1
INVARIANTS
    OneSubprocessPerKey
    FollowersShareLeader
PROPERTIES
    ResolvedOnce
    FollowersAnswered
