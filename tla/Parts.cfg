SPECIFICATION PartsSpec
CONSTANTS
    Parts = {"xlines", "staff", "news", "ignores", "clones", "opers", "modelock",
             "defcon", "bans", "topics", "pages", "notes", "memos", "hosts",
             "options", "history", "masks", "bots", "botsettings", "databases",
             "buffers", "chanfile"}

    XKinds = {"akill", "sgline", "sqline", "szline"}
    XMask = {"a", "ab", "ch"}
    XTarget = {"t1", "t2", "tc"}
    XHits <- XHitsDef
    XChanMask = {"ch"}
    XTooWide = {}
    XExpiries = {0, 1, 2}
    AkillOnAdd = FALSE
    XLimit = 2
    XMaxTime = 1

    StNick = {"root", "n1", "n2"}
    StRoots = {"root"}
    StCore = {"c1", "c2"}
    StRank <- StRankDef
    StLimit = 2
    NSMaxAliases = 2
    NSSecureAdmins = TRUE
    StNone = StNone

    NwLimit = 4

    IgNick = {"n1", "n2"}
    IgAst = {"a1", "a2"}
    IgQst = {"q"}
    IgHits <- IgHitsDef
    IgTimes = {0, 1}
    IgForever = 2

    ClHost = {"h1", "h2"}
    ClSize = 4
    CloneMinUsers = 3
    CloneMaxDelay = 1
    CloneWarningDelay = 1
    ClKill = TRUE
    ClMaxTime = 3

    OpNick = {"p", "q"}
    OpIdentified = {"p"}
    OpModes <- OpModesDef
    SuperAdmin = TRUE
    BadPassLimit = 1
    BadPassTimeout = 3600
    OpMaxCount = 2

    MlFlags = {"n"}
    MlOnRegister = {"n"}
    MlValued = {"k"}
    MlMinusNoArg = {}
    MlValues = {"v1", "v2"}
    MlBadValues = {}
    MlStatus = {"o"}
    MlBounce = 2
    MlNone = MlNone

    DcOrder <- DcOrderDef
    DcMode = {"i"}
    DcForcing = {3}
    DcConfs = {{"i"}, {}}
    DcLevels = {3, 4}
    DcNormal = 5

    CbMask = {"ma", "mb", "w"}
    CbUser = {"ua", "ub"}
    CbHits <- CbHitsDef
    CbIdeal <- CbIdealDef
    CbGroup = {"ua"}
    CbStuckMasks = {"ma", "mb"}
    CbBotMasks = {"w"}
    CbMinUsers = 1
    CbExempt = {"ub"}
    CSAutokickMax = 2
    CbMaxBans = 2

    CtTopics = {"t1", "t2"}
    CtNone = "none"

    ApPage = 2
    ApMax = 5

    CnCore = {"p", "q"}
    CnVisitor = {"p"}
    CnLevel <- CnLevelDef
    CnText = {"t"}
    CnNone = "none"
    CnLiteral = ""
    CnSlots = 1
    CnMax = 2

    MmSender = {"s1", "s2"}
    MmAdmin = {"s2"}
    MmWidth = 5
    MSMaxMemos = 2
    MmMaxMemos = 3

    HsNick = {1, 2, 3}
    HsCore = {"c1"}
    HsVhost = {"v1", "v2"}
    HsSetters = {1, 3}
    HsOper = FALSE
    HsNone = "none"

    NkCore = {"p", "q"}
    NkAdmin = {"q"}
    NkRoot = {}
    NkStranger = "none"
    NkMask = {"a", "A"}
    NkFold <- NkFoldDef
    NkFlags = {"HIDE_EMAIL"}
    NkDefFlags = {"KILLPROTECT", "KILL_QUICK"}
    NSAccessMax = 2
    NSForceEmail = TRUE
    NkSecureAdmins = TRUE
    UsePrivmsg = FALSE

    HyNick = {"p", "q"}
    HyChan = {"c"}
    HyLimit = 2
    HyMaxCommands = 3

    MkPatternChars = {"a", "*", "?", "!", "@"}
    MkChars = {"a", "b"}
    MkLength = 4
    MkUsers <- MkUsersDef
    MkNoUser = MkNoUser
    USERMAX = 3

    BtNick = {"p", "q"}
    BtAdminNick = {"q"}
    BtChan = {1, 2}
    BtNone = "none"
    BtBans <- BtBansDef
    BtHits <- BtHitsDef
    BSMinUsers = 1
    BtUsers <- BtUsersDef
    BSSmartJoin = TRUE
    BtSecureAdmins = TRUE

    BxWords = {"w1", "w2", "w3"}
    BSBadWordsMax = 2
    BSKeepData = 300
    BxOptions = {"fantasy"}
    BxNumbers = {5, 40000, 65537}
    BxNone = BxNone

    DbMax = 1
    DbDays = {0, 1, 2}
    KeepBackups = 1
    DbTorn = DbTorn
    DbAbsent = DbAbsent

    BfSize = 5
    BfBytes = 7
    BfLine = 3

    CfCores = {"c1", "c2"}
    CfBots = {"bot"}
    CfNone = CfNone
    CfRecords <- CfRecordsDef
    CfCuts = {0, 1, 7, 20, 30, 60}
    CA_SIZE = 2
    TTB_SIZE = 2
    CHAN_VERSION = 16

CONSTRAINT PartsBounds
INVARIANTS
    PartsTypeOK
    ListsKept
    EntriesOnce
    MatchingSound
    FilesKeep
    InOrder
    CountsKept
    ReportsComplete
    OptionsSound
PROPERTIES
    OnlyKnownCauses
    RecordsHold
CHECK_DEADLOCK FALSE
