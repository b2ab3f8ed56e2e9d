CONSTANTS
    Readers = {r1, r2}
    Editors = {e1, e2}
    MaxEditions = 3
    MaxErrors = 1
    NoOne = NoOne
SPECIFICATION CacheSpec
INVARIANTS
    TypeOK
    ReadYourEdits
PROPERTIES
    NeverBackwards
    ReadEnds
