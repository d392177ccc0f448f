SPECIFICATION Spec
CONSTANTS
    Server = server
    c1 = c1
    c2 = c2
    Clients = {c1, c2}
    Values = {1}
    MaxAlive = 1
    MinAlive = 0
    MaxInFlight = 1
    MaxAlone = 4
    MaxTogether = 3
    Within <- MCWithin
    MaxFaults = 1
INVARIANTS
    TypeOK
    SlotsAreTargets
    IdsAgree
    NamesAreSound
    NoEcho
    Converged
PROPERTIES
    HalfOpenEnds
CHECK_DEADLOCK FALSE
