\* Three workers on a join of two steps beside a lone step, a run without steps and a
\* loose execution, one crash.
SPECIFICATION FairSpec
CONSTANTS
    Workers = {w1, w2, w3}
    Runs = {1, 2}
    Execs = {1, 2, 3, 4, 5}
    RunOf <- MCRunOf
    Deps <- MCDeps
    MaxCrashes = 1
INVARIANTS
    NoMissedPromotion
    NoMissedRunCompletion
    DispatchAfterDependencies
    RowsAgree
    NoDispatchForSettledRun
PROPERTIES
    ImplementsRunLifecycle
    RunSettlesUnlessCyclesRecur
CHECK_DEADLOCK FALSE
