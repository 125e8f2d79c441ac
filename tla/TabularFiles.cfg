\* Three versions, two requests at a time, the worker: safety.
SPECIFICATION Spec
CONSTANTS
    q1 = q1  q2 = q2
    Requests <- TwoRequests
    MaxVersions = 3
    MaxTasks = 1
INVARIANTS
    OfferedHasParquet
    NoOrphanedWork
PROPERTIES
    ImplementsServedFile
SYMMETRY Symmetry
\* A deleted file with nothing in progress is the end.
CHECK_DEADLOCK FALSE
CONSTRAINT Focus
