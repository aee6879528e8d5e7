SPECIFICATION Spec
CONSTANTS
    ada = ada
    eve = eve
    rob = rob
    it = it
    hr = hr
    None = None
    Tickets = {t1}
    Handlers = {h1}
    Users <- MCUsers
    Departments <- MCDepartments
    InitialUsers <- MCInitialUsers
    MaxTick <- MCMaxTick
    MaxRequests = 2
    MaxUserUpdates = 1
    MaxCrashes = 0
    FallbackMayFail = FALSE
INVARIANTS
    OwnerCanAct
CHECK_DEADLOCK FALSE
