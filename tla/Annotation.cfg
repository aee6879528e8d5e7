SPECIFICATION Spec
CONSTANTS
    Drafts = {d1, d2}
    Annotators = {a1, a2, a3}
    Writers = {w1, w2}
    RerunEarly = FALSE
SYMMETRY Symmetry
INVARIANTS
    PlansAreFair
    AdjudicationIsDue
    AdjudicatorDecides
PROPERTIES
    AnswersStand
