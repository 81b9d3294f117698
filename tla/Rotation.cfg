SPECIFICATION FairRotationSpec
CONSTANTS
    Session = {1, 2}
    CountLimit = 1
    DiskLimit = 1
    MaxFiles = 2
    MaxSize = 2
INVARIANTS NoRunaway
PROPERTIES RotationEnds
