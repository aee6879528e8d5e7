SPECIFICATION Spec
CONSTANTS
    ada = ada
    eve = eve
    rob = rob
    it = it
    hr = hr
    None = None
    Tickets = {t1}
    Handlers = {h1, h2}
    Users <- MCUsers
    Departments <- MCDepartments
    InitialUsers <- MCInitialUsers
    MaxTick <- MCMaxTick
    MaxRequests = 4
    MaxUserUpdates = 0
    MaxCrashes = 0
    FallbackMayFail = FALSE
PROPERTIES
    ClosedIsTerminal
CHECK_DEADLOCK FALSE
