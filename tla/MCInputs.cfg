SPECIFICATION Spec
CONSTANTS
    GroupLimit = 3
    OctetLimit = 255
    LabelLimit = 3
    DomainLimit = 6
    MaxBytes = 5
    MaxDigits = 5
    MaxQuad = 9
    MaxColon = 7
    MaxDomain = 7
    MaxOdd = 2
INVARIANTS
    EncodingsRestore DecodeIsExact AddressesAccepted DomainsAccepted
    KindsAgree IntegersKept
CHECK_DEADLOCK FALSE
