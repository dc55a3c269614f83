SPECIFICATION Spec
CONSTANTS
    Account <- MCAccount
    Slot <- MCSlot
    Key <- MCKey
    Text <- MCText
    k1 = k1
    k2 = k2
    k3 = k3
    k4 = k4
    k5 = k5
    k6 = k6
    t = t
    Empty = Empty
    NoKey = NoKey
    FirstUser = 1
    LastUser = 3
    MaxSignals = 1
    MaxRuns = 2
ACTION_CONSTRAINT MintedInOrder
INVARIANTS RecordedKeysLive NoSilentLeftover SuccessIsDurable
CHECK_DEADLOCK FALSE
