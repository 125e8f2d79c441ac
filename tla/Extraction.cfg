SPECIFICATION Spec
CONSTANTS
    d1 = d1  d2 = d2  r1 = r1  r2 = r2
    Docs <- TwoDocs
    Runs <- TwoRuns
    MaxVersion = 1
    MaxChanges = 2
INVARIANTS
    SurfaceAgrees
    DeletedAnswersNothing
    SkippedIsCurrent
SYMMETRY Symmetry
CONSTRAINT Focus
CHECK_DEADLOCK FALSE
