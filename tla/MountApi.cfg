SPECIFICATION ApiSpec
CONSTANTS
    c1 = c1
    c2 = c2
    n1 = n1
    Clients = {c1, c2}
    Numbers = {n1}
    Letters = {"E"}
    Directories = {"dir"}
    MaxSize = 2
    NoNumber = NoNumber
    NoPoint = NoPoint
    NoClient = NoClient
SYMMETRY MCSymmetry
INVARIANT RemoveTold
INVARIANT VolumeSeesMedia
PROPERTY NothingLost
