\* One run with two independent steps and their join: failRun against completeStep.
SPECIFICATION Spec
CONSTANTS
    Workers = {w1, w2}
    Runs = {1}
    Execs = {1, 2, 3}
    RunOf <- MCRunOf
    Deps <- MCDeps
    MaxCrashes = 0
INVARIANT FailRunNeverConflicts
CHECK_DEADLOCK FALSE
