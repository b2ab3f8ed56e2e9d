SPECIFICATION Spec
CONSTANTS
    Texts <- McTexts
    Limit = 14
    Images = 1
    MaxTroubles = 1
INVARIANTS
    ShownInOrder
    ReadsBack
CHECK_DEADLOCK FALSE
