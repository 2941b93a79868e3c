SPECIFICATION Spec
CONSTANTS
    N = 4
    MaxLevel = 2
INVARIANTS
    CellsAgree
    NontrivialListed
PROPERTY KeepsNest
