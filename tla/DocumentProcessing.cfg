\* One request or task and the worker: safety, and convergence of the registry.
SPECIFICATION FairSpec
CONSTANTS
    q1 = q1
    Requests <- OneRequest
    Worker = Worker
    MaxCopies = 2
INVARIANTS
    TextStoredOnce
    ProcessedHasText
    NothingForgotten
PROPERTIES
    RegistryConverges
CONSTRAINT Focus
CHECK_DEADLOCK FALSE
