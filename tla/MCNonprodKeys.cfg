SPECIFICATION Spec
CONSTANTS
    Account <- MCAccount
    Slot <- MCSlot
    Key <- MCKey
    Text <- MCText
    Uses <- MCUses
    k1 = k1
    k2 = k2
    k3 = k3
    k4 = k4
    k5 = k5
    k6 = k6
    t = t
    Empty = Empty
    NoKey = NoKey
    FirstUser = 1
    LastUser = 3
    LastFile = 2
    MaxSignals = 1
    MaxEdits = 1
    MaxRuns = 2
ACTION_CONSTRAINTS MintedInOrder OneScenario
INVARIANTS BothOrNeither RecordedKeysLive SuccessIsDurable NoTempsLeft OneKeyPerUser
PROPERTIES EditsKept
CHECK_DEADLOCK FALSE
