SPECIFICATION Spec
CONSTANTS
    Sid = {s1, s2}
    User = {u1}
    NoUser = NoUser
    Kind = {"keypair", "rdp", "web"}
    ShadowKind = {}
    MaxSessions = 1
    MaxPerUser = 1
    MaxInFlight = 2
    MaxConn = 1
    PendingTimeout = 0
    CleanupDelay = 0
    MaxDuration = 0
    AgeCap = 1
SYMMETRY Symmetry
INVARIANTS PendingIsTakeable OverIsReleased LiveIsRegistered
PROPERTIES ImplementsLifecycle
CHECK_DEADLOCK FALSE
