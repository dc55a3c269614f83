SPECIFICATION FairSpec
CONSTANTS
    Pr <- MCPr
    Slots = 1
    CopyFromDev <- MCCopyFromDev
    MayOutlive <- MCMayOutlive
    p1 = p1
    p2 = p2
INVARIANTS MarkedMeansClean RunsOnWholeDatabase DatabasesFitSlots
PROPERTIES KeepsContract ClosedIsDropped
