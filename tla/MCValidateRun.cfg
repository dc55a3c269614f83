SPECIFICATION Spec
CONSTANTS
    Trees <- MCTrees
    MayLack <- MCMayLack
    Numbers <- MCNumbers
    DnsNames <- MCNames
    Leftovers <- MCLeftovers
    ExpectedSecrets <- MCExpectedSecrets
    SourceCount <- MCSourceCount
INVARIANTS GreenMeansChecked LostGuardIsSeen GreenTreeSyncs QuotaIsWorstCase DevStaysInDev DnsRightsFit
\* A run ends.
CHECK_DEADLOCK FALSE
