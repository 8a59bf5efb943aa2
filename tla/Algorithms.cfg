SPECIFICATION MCSpec
CONSTANTS
    Rows <- MCRows
    Wallets <- MCWallets
    Amounts = {500, 600, 900, 1300}
    Height = 9
    MaxInputs = 3
    MaxTxs = 7
    AnyTxs = 3
    AnyHashes = 4
    AnyFlags = 6
    Timeouts = {0, 5, 6, 16, 17, 127, 128, 255, 256, 4320, 32767, 32768, 65535, 65536, 8388607, 16777215, 16777216, 2147483647}
    KeyTriples <- MCKeyTriples
    TimeoutKeys = {7}
    EscrowValues = {400, 900}
    InputLists <- MCInputLists
    OutputLists <- MCOutputLists
    EscrowScripts <- MCEscrowScripts
    FeeRates = {1, 2}
    Depth = 4
    Spacing = 10
    Full = 1073741824
    PowLimit = 33554432
    Targets = {1024, 1048576, 16777216}
    Times = {0, 7, 40, 100}
    OutlierTimes <- MCOutlierTimes
    Units = {1, 256, 65536, 16777216}
INVARIANTS SpendExact FeeBounds MBlockComplete MBlockSound LockTimeRead SignersAgree DifficultyDamped OutlierHarmless
PROPERTY SpendEnds
CHECK_DEADLOCK FALSE
