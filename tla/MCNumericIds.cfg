CONSTANTS
    Digits <- MCDigits
    Signs <- MCSigns
    Space = " "
    Letters = {"x"}
    Width = 4
    PadWidth = 3
    MaxLength = 5
    MaxSeq = 12
SPECIFICATION Spec
CHECK_DEADLOCK FALSE
INVARIANTS
    OneIdPerNumber
    LimitsAreMeant
    GrantIDsDiffer
