SPECIFICATION Spec
CONSTANTS
    Drafts = {d1}
    Annotators = {a1, a2, a3, a4}
    Writers = {w1}
    RerunEarly = TRUE
SYMMETRY Symmetry
INVARIANT AdjudicatorDecides
