CONSTANTS
    LogCapacity = 3
    PartSegments = {1, 2, 3}
    PartIndices = {0, 1}
    MaxLogged = 6
SPECIFICATION PartsSpec
INVARIANTS
    PartIndexSound
