CONSTANTS
    Sessions = {s1, s2}
    Fds = {4, 5}
    NoFd = NoFd
    NoSession = NoSession
    Streams <- MixedStreams
    Threshold = 10
    Room = 1
    Closings = {"fin", "rst"}
    MaxAccepts = 2
    MaxFaults = 1
SPECIFICATION FairSpec
INVARIANTS TypeOK OnePlace NoMissedWakeup WritingHasReply
PROPERTIES ClosedByClientOnly Answered ResetReturned
