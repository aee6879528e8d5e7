SPECIFICATION Spec
CONSTANTS
    ada = ada
    eve = eve
    rob = rob
    it = it
    hr = hr
    None = None
    Tickets = {t1}
    Handlers = {h1}
    Users <- MCUsers
    Departments <- MCDepartments
    InitialUsers <- MCUsersOneWithoutDepartment
    MaxTick <- MCMaxTick
    MaxRequests = 6
    MaxUserUpdates = 0
    MaxCrashes = 1
    FallbackMayFail = TRUE
INVARIANTS
    ReviewedOnce
    OneAnswer
    QueuesAreTrue
PROPERTIES
    DecisionIsFinal
    FollowsLifecycle
CHECK_DEADLOCK FALSE
