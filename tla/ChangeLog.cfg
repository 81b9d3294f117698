SPECIFICATION Spec
CONSTANTS
    Folder = {sub, top}
    NoFolder = none
    Watched = sub
    Above = {sub, top}
    Req = {q}
    LogLen = 2
    MaxChecked = 1
    MaxVersion = 2
    MaxEpoch = 1
INVARIANTS NoChangeMissed
