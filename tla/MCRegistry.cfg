CONSTANTS
    Name = {n1, n2}
    Client = {c1, c2}
    State = {"launching", "held"}
    Capacity = 1
    MaxMissions = 2
    MaxLaunches = 2
    MaxCommands = 1
SPECIFICATION FairSpec
INVARIANTS TypeOK NamesAreOwn BoardIsCurrent ShutdownReachesAll
PROPERTY ShutdownEnds
CHECK_DEADLOCK FALSE
