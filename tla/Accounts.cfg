SPECIFICATION Spec
CONSTANTS
    Email = {"ann", "Ann", "ANN"}
    Folded <- MCFolded
    Subject = {"s1", "s2"}
    Group = {"staff"}
    Role = {"viewer", "admin"}
    Claim <- MCClaim
    Login = {l1, l2}
    Name = {"t"}
    Expiry <- MCExpiry
    Admin = {"key"}
    Table <- MCTable
    None = None
    AutoCreate = TRUE
    DefaultRole = "viewer"
    SessionTtl = 1
    PendingTtl = 1
    Day = 2
    MaxUsers = 2
    MaxChanges = 3
    MaxTickets = 2
    MaxTime = 1
SYMMETRY Symmetry
CHECK_DEADLOCK FALSE
INVARIANTS EmailsDistinct CredentialsFollowTheirAccount OneSubjectPerBinding TicketOpensOneSocket
