SPECIFICATION BrowserSpec
CONSTANTS
    Browser = {b1, b2, b3}
    Display = {1, 2}
    Port = {1, 2}
SYMMETRY Symmetry
INVARIANTS Accounted NumbersNotShared NothingLeft
CHECK_DEADLOCK FALSE
