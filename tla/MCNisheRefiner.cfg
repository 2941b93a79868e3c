SPECIFICATION FairSpec
CONSTANTS
    N = 4
    Graphs <- MCGraphs
    Others <- MCOthers
    Starts <- MCStarts
    Renamings <- MCRenamings
INVARIANTS
    CoarsestEquitable
    CanonicalTrace
    NothingSown
PROPERTY RefineReturns
