SPECIFICATION LiveSpec
CONSTANTS
    net = net
    hr = hr
    vpn = vpn
    dns = dns
    leave = leave
    local = local
    cmd = cmd
    url = url
    Blank = Blank
    None = None
    Departments <- MCDepartments
    Articles <- MCArticles
    PathOrder <- MCPathOrder
    FileOf <- MCFileOf
    Sources = {"none"}
    InitialKB <- MCInitialKB
    Chunks <- MCChunks
    NCandidates = 3
    RrfK = 60
    TopK = 2
    Unit = 238266
    MaxSteps = 2
    BareUrls <- MCBareUrls
    Certain = 1
    Tickets <- MCTickets
    Scorings <- MCScorings
    Replies <- MCReplies
    Probs = {1}
    Thresholds <- MCThresholds
    MaxScore = 3
    Grain = 3
INVARIANTS
    TypeOK
    RedactionIsReversible
    ShownDraftIsVetted
    PassagesAgree
    ReasonIsTrue
PROPERTIES
    EveryRunEnds
CHECK_DEADLOCK FALSE
