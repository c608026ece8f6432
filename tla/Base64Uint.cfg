SPECIFICATION Spec
CONSTANTS
    Numbers <- MCNumbers
    Widths <- MCWidths
    CurveBits = {8, 9, 16, 17}
    MaxJunk = 2
INVARIANTS
    TypeOK
    UintsSurvive
    WidthsAreExact
    SignaturesSurvive
    CutSignaturesAreRefused
CHECK_DEADLOCK FALSE
