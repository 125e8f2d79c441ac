\* An object that goes, comes back unchanged and goes again, seen by four executions
\* one after the other.
SPECIFICATION Spec
CONSTANTS
    r1 = r1  r2 = r2  r3 = r3  r4 = r4
    o1 = o1
    d1 = d1  d2 = d2
    NoRun = NoRun  NoObject = NoObject  NoDoc = NoDoc
    Runs <- FourRuns
    Objects <- OneObject
    Docs <- TwoDocs
    MaxVersion = 1
    MISSING_CONFIRMATIONS = 2
    SlowRuns = FALSE
INVARIANT
    MissingMeansConsecutive
SYMMETRY FourRunSymmetry
CONSTRAINT OneAtATime
CHECK_DEADLOCK FALSE
