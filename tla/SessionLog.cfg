\* Three clients on two sessions of at most three entries.
SPECIFICATION Spec
CONSTANTS
    Sessions = {s1, s2}
    Clients = {c1, c2, c3}
    Inputs = {a, b}
    MaxLength = 3
SYMMETRY Symmetry
INVARIANTS
    LiveLogHasNoGaps
    AppendNeverCollides
PROPERTY ImplementsSessionHistory
