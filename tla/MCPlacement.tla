----------------------------- MODULE MCPlacement -----------------------------
(***************************************************************************)
(* Instances of Placement for TLC: the configurations and options passed.  *)
(***************************************************************************)
EXTENDS Placement, TLC

Symmetry == Permutations(Callers) \union Permutations(Hashes)

MCPriors == [c \in CostClasses |-> IF c \in {"trivial", "cheap"} THEN 0 ELSE 2]

\* Thresholds in ticks; the order of the defaults is kept: window < idle.
MCDefault ==
    [frequencyThreshold |-> 2, frequencyWindow |-> 1, rehydrationCostThreshold |-> 1,
     idleThreshold |-> 2, pinnedBudget |-> 3, observedMinSamples |-> 2,
     classPriors |-> MCPriors]

\* A profile that promotes on one access.
MCEager == [MCDefault EXCEPT !.frequencyThreshold = 1]

MCOption(i, s, d, m) ==
    [interactivity |-> i, sizeBytes |-> s, declaredCostClass |-> d,
     observedRehydrationMs |-> m]

MCOneConfig == {MCDefault}
MCEagerConfig == {MCEager}

\* Promotion: plain, declared and measured accesses.
MCAccesses ==
    {MCOption("interactive", Null, "expensive", Null),
     MCOption("batch", Null, Null, 1),
     MCOption(Null, Null, Null, 3)}

\* Eviction: accesses that tell a hash's size, or nothing.
MCSizes ==
    {MCOption("interactive", 2, "expensive", Null),
     MCOption("interactive", 4, "expensive", Null),
     MCOption("interactive", Null, "expensive", Null)}

==============================================================================
