SPECIFICATION SideSpec
CONSTANTS
    None = None
    Invalid = Invalid
    good = good
    bad = bad
    Emails = {"ada", "eve", "bob"}
    InitialUsers <- MCInitialUsers
    DemoUsers <- MCDemoUsers
    GivenRoles = {"end_user", "department_engineer"}
    Bodies <- MCBodies
    Requests = {1, 2}
    MaxRequests = 4
    MaxTime = 1
    Synthetic = "syn"
    Procs = {"p", "q"}
    NTickets = 2
    Replies <- MCReplies
    Ratings <- MCRatings
    Retries = 1
    CommitEvery = 2
    MayOverlap = {"judge", "features", "signals"}
    MaxStarts = 3
    MaxKB = 1
    StudyTickets <- MCStudyTickets
    Slots <- MCSlots
    MaxParticipants = 2
    ThresholdSets = {"v1", "v2"}
    LaneUnder <- StudyLanes
    Calls = {1, 2}
    Answering = {2}
    StudyTime = 2
    Records <- MCRecords
    TestQuota = 3
    SeenTargets <- MCSeenTargets
    C1Targets <- MCC1Targets
    Topic <- MCTopic
    Reviews <- MCReviews
    JudgeOk <- MCJudgeOk
    Signals <- MCSignals
    Scorings <- MCScorings
    Grid <- MCGrid
    AlphaFast <- Quarter
    AlphaAssisted <- OneHalf
    Delta <- TwoFifths
    ProbGrid <- MCProbGrid
    MarginGrid <- MCMarginGrid
    MaxCost = 10
    MinRows <- MCMinRows
    Processes = {1, 2}
    Modes <- MCModes
    MaxRuns = 4
    MaxEdits = 1
    MaxFreezes = 2
    Drafts <- MCDrafts
    TypeOrder <- MCTypeOrder
    TargetShare <- MCTargetShare
    Opinions <- MCOpinions
    MaxPairs = 2
    MaxDealt = 2
    MaxExports = 1
    MaxFiles = 3
    AuditCases = {"c1"}
    Authors = {"R", "A", "S"}
    AuditBatches = {1}
    AuthorRatings <- MCAuthorRatings
    AgreedAnswers <- MCAgreedAnswers
    MaxChanges = 1
    MaxSaves = 1
    MaxCollects = 1
    MaxDecisions = 1
    MaxDownloads = 3
    AuditedDrafts <- MCAuditedDrafts
    NAudit = 2
    PerMember = {1, 2}
    Judges <- MCJudges
    Labels = {"supported", "not_supported"}
    MaxAuditRuns = 4
    MaxFills = 2
    Tickets = {"t1", "v1"}
    Departments = {"it"}
    Engineers = {"eve"}
    Admins = {"ada"}
    SyntheticReviewer = "syn"
    DeptOf <- MCDeptOf
    Legacy = {"v1"}
    DayOf <- MCDayOf
    Scores = {89996, 90004}
    Workbench = {"accept", "edit", "doubt"}
    Simulated = {"reject"}
    DeskCalls = {1, 2}
    FastScore = 90000
    AssistedScore = 70000
    SeedScore = 55000
    MaxFeedback = 2
    MaxPages = 1
    Articles <- MCArticles
    Depts <- MCDepts
    N = 9
    Paraphrases = 2
    MaxAttempts = 2
    LlmModels <- MCLlmModels
    ReplyOf <- MCReplyOf
    Tolerance = 3
    TuningTargets <- MCTuningTargets
    UnseenTargets <- MCUnseenTargets
    MaxGenerations = 2
INVARIANTS
    TypesOK
    DraftsAreReplayable
    StudyIsCounterbalanced
    HandlingTimesAreTrue
    BadgesAreTrue
    LockedTestIsUsedOnce
    NumbersRestOnFrozenData
    ThresholdsAreCertified
    SampleIsSound
    AdjudicationStaysWithinBounds
    GroundingAuditIsSound
    DashboardsAddUp
    BenchmarkIsSound
PROPERTIES
    EveryScriptEnds
    AccountsAreKept
    BoundsOnlyCloseIn
CHECK_DEADLOCK FALSE
