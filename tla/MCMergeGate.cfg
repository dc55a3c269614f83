SPECIFICATION Spec
CONSTANTS
    Pr <- MCPr
    Plans <- MCPlans
    Trees <- MCTrees
    Versions = {1, 2}
    MaxPushes = 1
    p1 = p1
    p2 = p2
    p3 = p3
SYMMETRY MCSymmetry
CONSTRAINT Bounded
INVARIANTS VersionTellsChart GeneratedOnMain GenerationHeals
\* All pull requests may be merged.
CHECK_DEADLOCK FALSE
