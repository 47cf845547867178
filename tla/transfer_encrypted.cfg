SPECIFICATION Spec
CONSTANTS
    NFiles = 2
    MaxDim = 8
    Block = 4
    Threshold = 3
    Width = 64
    Encrypted = TRUE
INVARIANTS
    Aligned
