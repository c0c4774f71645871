CONSTANTS
    kInitialSize = 3
    ExtraBuf = 2
    MaxLen = 5
    MaxBytes = 12
SPECIFICATION Spec
INVARIANTS TypeOK StreamKept
PROPERTY NoWaste
