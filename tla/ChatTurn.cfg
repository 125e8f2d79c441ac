SPECIFICATION TurnSpec
CONSTANTS
    d1 = d1  d2 = d2  d3 = d3  n1 = n1  n2 = n2
    Docs <- ThreeDocs
    NoFile = NoFile
    Names <- TwoNames
    NameOf <- Persons
    Questions <- FourQuestions
    Shapes <- NineShapes
    MaxInvocations = 2
    MaxCandidates = 2
    MaxReasks = 1
CONSTRAINT WordlessAlone
SYMMETRY Symmetry
INVARIANTS
    WithinBudget
    NegativeIsHonest
    KeptToSubject
