SPECIFICATION FairSpec
CONSTANTS
    Ids = {1, 2, 3, 4}
    MaxVersion = 4
    Broken = {2}
INVARIANTS
    PageInv
PROPERTIES
    NeverGoesBack
    CatchesUp
