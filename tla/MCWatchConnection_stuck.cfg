SPECIFICATION WatchFairSpec
CONSTANTS
    Clients = {c1}
    NoClient = NoClient
    NotLent = NotLent
    GattErrors = {e1}
PROPERTIES
    ReconnectingConnects
