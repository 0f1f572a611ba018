\* Bounds: see "Runs" in README.md.  Requests, starts, ticks and logins are
\* bounded, so the parts come to an end.
CHECK_DEADLOCK FALSE
SPECIFICATION PartsSpec
CONSTANTS
    FwFamilies = {v4, v6}  FwClients = {c4, c6}  FwFamilyOf <- FamilyOf  FwTargets <- SshTargets
    FwPorts = {p22, p20to25, p2222}  FwCovering = {p22, p20to25}  FwMentioning = {p22, p2222}
    SshPort = p22  FwMaxRules = 2
    v4 = v4  v6 = v6  c4 = c4  c6 = c6  p22 = p22  p20to25 = p20to25  p2222 = p2222
    SwapSizes = {1, 2, 3}  SwapDisk = 5  SwapOther = {0, 2, 4}  SwHeadroom = 1
    DbNames = {blogdb, shopdb}  DbUsers = {ann, bob}  NoDbUser = nobody
    Uploads = {up}  Dumps = {up}  UpChunks = 3  MaxChunkAttempts = 3
    F2bThreads = {t1, t2}  F2bConfigs = {c1, c2}  F2bBad = {}  F2bIps = {ip}  F2bNone = noconf
    SsIds = {"s1", "s2"}  SsPlans <- PlanChoices  SsHours = 3  SsWeek = 3  SsMonths <- ScanMonths
    SsLastDay = 3  SsMaxTime = 5  SsMaxScans = 2  SsMaxFaults = 1  SsMaxChanges = 1
    FtThreads = {t1, t2}  FtNames = {x, y, z}  FtFolder = x  FtItem = y
    FtData = {1, 2}  FtHtml = 1  FtText = 2  FtDepth = 2  FtMaxOps = 2
    WkNames = {"q", "h"}  WkCommands = {"c1", "c2"}  WkMaxProcs = 2  WkMaxWorkers = 1  WkMaxAsked = 3
    WaSites = {"s1"}  WaMaxStarts = 3  WaMaxAsked = 1
    LtThreads = {t1, t2}  LtMax = 2  LtWindow = 2  LtMaxTime = 4  LtMaxLogins = 1
    TmSessions = {"s1", "s2"}  TmFds = {1, 2}  TmMaxOut = 1
    FpSiteUser = siteuser  FpNames = {dan, eve}  FpDirs = {www, shop, other}
    FpSiteDir = www  FpInside <- InsideOf  FpMaxJobs = 3
    CtIds = {1, 2}  CtCommands = {"c", "d"}  CtThreads = {t1, t2}  CtMaxAsked = 4
    SkKeys = {k1, k2}  SkThreads = {t1, t2}  SkMaxAsked = 4
    SrRows = {r1, r2}  SrColumns = {col1, col2}  SrMaxStarts = 3
    www = www  shop = shop  other = other
INVARIANTS
    PartsTypeOK
    SwapIsSound
    RowsAreUsable
    UploadsAreWhole
    DaemonMatches
    ScansFollowCalendar
    OwnedByTheSite
    WorkersAreTheirRows
    AccessIsAsGranted
    TerminalsAreClean
    AccountsAreRows
    CrontabIsRows
    KeysInSync
    RowsAreKept
PROPERTIES
    LockIsFair
    ClosingKeepsSshOpen
    EveryTargetIsScanned
    NoSilentLoss
    MarkerMeansServed
