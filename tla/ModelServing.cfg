SPECIFICATION Spec
CONSTANTS
    MaxVersion = 2
    Size <- Sizes
    Limit = 2
INVARIANTS
    ServesLastPromoted
    NothingUnpromotedServes
    AccountedIsHeld
