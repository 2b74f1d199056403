SPECIFICATION Spec
CONSTANTS
    r1 = r1
    r2 = r2
    r3 = r3
    Registrations = {r1, r2, r3}
    Nothing = Nothing
    Unread = Unread
    Digests = {"d1", "d2"}
    TrustTiers = {"unverified", "production-proven"}
    Params = {"a", "b", "c", "odd"}
    FlagNames = {"a", "b", "c", "file"}
    Workloads <- AllWorkloads
INVARIANTS
    EntryFromOneRegistration
    TierIsLastVerdict
    AcceptsExactlyResolvable
    AcceptedByOneRegistration
    AcceptedSettlesUnlessCyclic
    HeavyBindingsDelivered
    AgentSecondsTheWorker
    StateIdAccompaniesBindings
CHECK_DEADLOCK FALSE
