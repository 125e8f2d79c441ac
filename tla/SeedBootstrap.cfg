\* Sampling is on, so that a batch of two documents is reviewed on one of them; every
\* verdict must agree (the default).
SPECIFICATION Spec
CONSTANTS
    d1 = d1  d2 = d2  i1 = i1  l1 = l1  r1 = r1
    Docs <- TwoDocs
    Initial <- OneInitial
    Large <- OneLarge
    Requests <- OneRequest
    SampleSize = 1
    Threshold = 100
    MaxMade = 2
    MaxReviews = 1
INVARIANTS
    CompletedAddsUp
PROPERTIES
    PromotedWasReviewed
    NothingLost
SYMMETRY Symmetry
CONSTRAINT Focus
\* Batches, suggestions and reviews are finite in number.
CHECK_DEADLOCK FALSE
