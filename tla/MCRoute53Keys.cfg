SPECIFICATION FairSpec
CONSTANTS
    Account <- MCAccount
    Slot <- MCSlot
    Key <- MCKey
    Text <- MCText
    k1 = k1
    k2 = k2
    k3 = k3
    k4 = k4
    k5 = k5
    t = t
    Empty = Empty
    NoKey = NoKey
    FirstUser = 1
    LastUser = 2
    MaxSignals = 1
    MaxEdits = 1
    MaxRuns = 2
ACTION_CONSTRAINT MintedInOrder
INVARIANTS RecordedKeysLive OneKeyPerUser NoSilentLeftover SuccessIsDurable
PROPERTIES EditsKept KeepsPromise RunsEnd
CHECK_DEADLOCK FALSE
