\* Two editors, two files, two values; two mutations.
SPECIFICATION Spec
CONSTANTS
    Editors = {e1, e2}
    Files = {f1, f2}
    Values = {v1, v2}
    NoFile = NoFile
    NoEditor = NoEditor
    LeaseTicks = 1
    MaxEdits = 2
    MaxClaims = 3
    MaxOutside = 1
    MaxFaults = 2
SYMMETRY MCSymmetry
INVARIANTS
    TypeOK
    FilesAccountedFor
    OpenCanBeUndone
    RevisionsAreCommits
PROPERTIES
    ConflictHasACause
CHECK_DEADLOCK FALSE
