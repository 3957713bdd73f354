CONSTANTS
    Clients = {1, 2, 3}
    Requests <- SomeRequests
    MaxMsgs = 2
    BufSize = 6
    Preloaded <- Stored
SPECIFICATION Spec
INVARIANTS TypeOK NoMissedDatagram OwnReply
PROPERTIES StoresWhatWasSent Served StopReturns
