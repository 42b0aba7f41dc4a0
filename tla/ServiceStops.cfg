\* A stop while the main thread is inside accept.
SPECIFICATION FairService
CONSTANTS
    c1 = c1
    c2 = c2
    s1 = s1
    Main = Main
    Clients <- MCClients
    Stoppers <- MCStoppers
    Kinds <- MCKinds
    MaxRequests = 1
    old = old
    Old = {old}
    Files <- MCFiles
    Torn = Torn
    Bad = Bad
PROPERTIES
    StopEnds
CHECK_DEADLOCK FALSE
