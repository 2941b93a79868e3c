SPECIFICATION FairSpec
CONSTANTS
    N = 4
    Pools <- MCPools
    Bases <- MCBases
    Cells <- MCCells
    schreierfails = 2
    MaxCalls = 5
INVARIANTS
    VectorsHold
    NothingForgotten
PROPERTIES
    KeepsKnowledge
    CallReturns
