SPECIFICATION Spec
CONSTANTS
    GroupLimit = 8
    OctetLimit = 255
    LabelLimit = 63
    DomainLimit = 253
    MaxBytes = 1
    MaxDigits = 1
    MaxQuad = 1
    MaxColon = 4
    MaxDomain = 1
    MaxOdd = 0
INVARIANTS LiteralsOnly
CHECK_DEADLOCK FALSE
