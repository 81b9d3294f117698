SPECIFICATION FairProxySpec
CONSTANTS
    Sid = {s1}
    User = {u1}
    NoUser = NoUser
    Kind = {"keypair"}
    ShadowKind = {"shadow_ro"}
    MaxSessions = 0
    MaxPerUser = 0
    MaxInFlight = 1
    MaxConn = 2
    PendingTimeout = 0
    CleanupDelay = 0
    MaxDuration = 0
    AgeCap = 1
    Conn = {c1, c2}
    Token = {"ro"}
    MaxRecordings = 1
INVARIANTS OwnerFirst CountExact NoStrandedSession
PROPERTIES EventuallyForgotten TerminationReachesHandlers
CHECK_DEADLOCK FALSE
