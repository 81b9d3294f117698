SPECIFICATION Spec
CONSTANTS
    top = top
    mid = mid
    low = low
    ann = ann
    staff = staff
    Folder = {top, mid, low}
    Path <- MCPath
    User = {ann}
    Group = {staff}
    GroupsOf <- MCGroupsOf
    Part = {"secret"}
    Given <- MCGiven
    None = None
    Req = {q, r}
    MaxRequests = 2
    MaxLending = 1
SYMMETRY Symmetry
CHECK_DEADLOCK FALSE
INVARIANTS OpensTheRightFolders LentWithinAudience DefaultsHaveAFolder
