SPECIFICATION FairSpec
CONSTANTS
    Inputs <- MCInputs
    Renamings <- MCRenamings
    StoreSizes = {0, 1, 100}
INVARIANTS
    AutomorphismsTrue
    GroupExact
    AssertionsHold
PROPERTIES
    KeepsContract
    SearchEnds
