SPECIFICATION FairSpec
CONSTANTS
    Inputs <- MCInputs
    Renamings <- MCRenamings
    Reps = {"dense", "sparse"}
    HashBits = {2, 15}
    WorkPairs = 2
INVARIANTS
    RowsOfBestLeaf
    GeneratorsAreAutomorphisms
    GroupExact
PROPERTIES
    KeepsContract
    SearchEnds
