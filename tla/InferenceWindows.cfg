SPECIFICATION CutFairSpec
CONSTANTS
    N = 5
    MaxPieces = 4
    WindowSize = 5
    Positions = 3
    WindowOverlap = 2
INVARIANTS
    EveryWordInAWindow
    WindowsFit
    LabelsAreBest
PROPERTY
    Ends
