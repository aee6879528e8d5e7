SPECIFICATION Spec
CONSTANTS
    judge1 = judge1
    judge2 = judge2
    None = None
    Versions <- MCVersions
    SetOf <- MCSetOf
    Loaders = {l1, l2, l3}
    Drafts = {d1}
    MaxScore = 7
    Grain = 3
    MaxSignal = 1
SYMMETRY Symmetry
INVARIANTS
    ExactlyOneActive
    DecisionIsExplained
