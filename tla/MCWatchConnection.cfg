SPECIFICATION WatchFairSpec
CONSTANTS
    Clients = {c1}
    NoClient = NoClient
    NotLent = NotLent
    GattErrors = {e1, e2}
INVARIANTS
    WatchTypeOK
    ConnectedIsSubscribed
    DownIsPending
PROPERTIES
    DownIsRetried
