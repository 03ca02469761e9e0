SPECIFICATION VhdSpec
CONSTANTS
    Blocks = 3
    BlockSize = 2
    DiskSize = 5
    Zero = zero
    One = one
    Value <- MCValue
    Footer = footer
    Marked = marked
    MaxRequest = 4
CONSTRAINT NotTorn
INVARIANTS ReadsBack ImageWhole
