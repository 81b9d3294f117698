SPECIFICATION Spec
CONSTANTS
    Operator = {"bob"}
    Poweruser = {"ann"}
    Admin = {"root"}
    ApiKey = {"root"}
    Key = {"e"}
    Kind = {"ssh", "rdp", "vnc", "spice", "proxmox", "web", "vdi"}
    Host = {"farm", "site", "lab"}
    Allowed <- Lists
    Secret = {"p", "q"}
    Var = "$v"
    None = None
    SiteRecording = TRUE
    SiteDrive = FALSE
    Split = TRUE
    Asked = {"unset", "off"}
    OnPage = {"ann", "bob"}
    ByLink = {"root"}
    Keeper = {"ann"}
    Typed = {"p"}
    New = {"q"}
    Request = {r1, r2}
    Tab = {1}
    Sid = {s1, s2, s3}
    MaxEdits = 1
SYMMETRY Alike
CHECK_DEADLOCK FALSE
INVARIANTS NeverAStaleSession ClicksDoNotPileUp 
