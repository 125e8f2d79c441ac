\* Four executions, one object that changes once, two documents: safety.
SPECIFICATION Spec
CONSTANTS
    r1 = r1  r2 = r2  r3 = r3  r4 = r4
    o1 = o1
    d1 = d1  d2 = d2
    NoRun = NoRun  NoObject = NoObject  NoDoc = NoDoc
    Runs <- FourRuns
    Objects <- OneObject
    Docs <- TwoDocs
    MaxVersion = 2
    MISSING_CONFIRMATIONS = 2
    SlowRuns = TRUE
INVARIANTS
    LedgerLinksServedDocument
    OneServedDocumentPerObject
    MissingNeedsWitnesses
    EndedHoldsNoLease
    RunSynchronises
PROPERTIES
    LedgerNeverRegresses
SYMMETRY FourRunSymmetry
\* The first and the last execution alone, those between them in every order.
CONSTRAINT PairInTheMiddle
\* Executions are finite in number; the source may fall silent.
CHECK_DEADLOCK FALSE
