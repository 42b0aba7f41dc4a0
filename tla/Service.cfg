\* serve_forever with one other caller of stop, an interrupt and two clients,
\* each with one request.
SPECIFICATION FairService
CONSTANTS
    c1 = c1
    c2 = c2
    s1 = s1
    Main = Main
    Clients <- MCClients
    Stoppers <- MCStoppers
    Kinds <- MCKinds
    MaxRequests = 1
    old = old
    Old = {old}
    Files <- MCFiles
    Torn = Torn
    Bad = Bad
INVARIANTS
    ServiceTypeOK
    StoppedIsClosed
PROPERTIES
    
    Answered
    StopsOrBlocks
CHECK_DEADLOCK FALSE
