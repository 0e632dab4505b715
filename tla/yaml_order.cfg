SPECIFICATION Spec
CONSTANTS
    MaxU64 = 7
    MaxU32 = 3
    Scalars <- MCScalars
    Values <- PlainValues
    SearchPaths <- MCPaths
    MaxDevices = 2
    MaxLines = 6
CHECK_DEADLOCK FALSE
INVARIANTS
    OrderIsFree
