SPECIFICATION Spec
CONSTANTS
    r1 = r1
    r2 = r2
    Run <- MCRun
    Payload <- MCPayload
    Sheet <- MCSheet
    Malformed <- MCMalformed
    Apart <- MCApart
    Alike <- MCAlike
    Missing = Missing
    LastSource = 2
    MaxChanges = 1
SYMMETRY RunSymmetry
INVARIANTS WritesAgree OneWorksheetWins LeftoversNeverBlock
PROPERTY PublishedMeansAll
CHECK_DEADLOCK FALSE
