SPECIFICATION SettingsSpec
CONSTANTS
    p1 = p1
    name = name
    long = long
    size = size
    vm = vm
    file = file
    proxy = proxy
    letter = letter
    offset = offset
    reserved = reserved
    Programs = {p1}
    MaxNumber = 1
    Values <- MCValues
    LongNames = {long}
    Disks <- MCDisks
    MemoryTypes = {vm}
    HelperTypes = {proxy}
    Disallowed = {reserved}
    NoValue = NoValue
    NoDisk = NoDisk
    Unknown = Unknown
CONSTRAINT Bounded
INVARIANT SettingsKept
