SPECIFICATION Spec
CONSTANTS
    ada = ada
    eve = eve
    rob = rob
    it = it
    hr = hr
    None = None
    Tickets = {t1}
    Handlers = {h1}
    Users <- MCUsers
    Departments <- MCDepartments
    InitialUsers <- MCInitialUsers
    MaxTick <- MCMaxTick
    MaxRequests = 1
    MaxUserUpdates = 0
    MaxCrashes = 1
    FallbackMayFail = FALSE
INVARIANTS
    NoTicketStranded
CHECK_DEADLOCK FALSE
