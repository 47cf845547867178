SPECIFICATION FairSpec
CONSTANTS
    NFiles = 2
    MaxDim = 8
    Block = 3
    Threshold = 3
    Width = 64
    Encrypted = FALSE
INVARIANTS
    TypeOK
    SentAsAnnounced
    Aligned
    BlockFits
    ProgressBounded
PROPERTIES
    BackupEnds
