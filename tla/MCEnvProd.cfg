SPECIFICATION EnvSpec
CONSTANTS
    Account <- MCAccount
    Slot <- MCAccount
    Key <- MCKey
    Text = {}
    k1 = k1
    k2 = k2
    k3 = k3
    k4 = k4
    Empty = Empty
    NoKey = NoKey
    FirstUser = 1
    LastUser = 2
    PFirst = 3
    PLast = 4
    MaxSignals = 1
    MaxEdits = 0
    MaxRuns = 1
SYMMETRY KeySymmetry
INVARIANTS RecordsKept LedgerOfOneRun OthersKeysLive
CHECK_DEADLOCK FALSE
