CONSTANTS
    Sessions = {s1, s2, s3}
    BufferSize = 3
    SwitchWidth = 4
    NoSession = NoSession
SPECIFICATION FairSpec
INVARIANTS TypeOK NoSlotRace SessionsConserved SpareLaneEmpty NoFalseEmpty
PROPERTIES ImplementsPool CallsReturn
VIEW LiveView
