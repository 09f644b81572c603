SPECIFICATION FairSpec
CONSTANTS
    Parents <- MCParents
    PanOf <- MCPanOf
    MaxKeys = 2
    MaxCuts = 1
INVARIANTS
    TypeOK
    ParentInTable
    OrphanTriesLast
    ListsOwned
PROPERTIES
    KeepsAsking
