SPECIFICATION Spec
CONSTANTS
    top = top
    sub = sub
    n = n
    m = m
    Folder = {top, sub}
    ScopeOf <- MCScopeOf
    Subtree <- MCSubtree
    Name = {n, m}
    Renames <- MCRenames
    s = s
    t = t
    e = e
    ExtId = {e}
    Secret = {s, t}
    None = None
    Bare = Bare
    Body <- MCBody
    Req = {q, r}
    MaxRequests = 3
SYMMETRY Symmetry
CHECK_DEADLOCK FALSE
INVARIANTS SecretsKept IdOnOneEntry
PROPERTIES NeverOverwritten
