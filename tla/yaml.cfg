SPECIFICATION Spec
CONSTANTS
    MaxU64 = 7
    MaxU32 = 3
    Scalars <- MCScalars
    Values <- MCValues
    SearchPaths <- MCPaths
    MaxDevices = 2
    MaxLines = 7
CHECK_DEADLOCK FALSE
INVARIANTS
    FieldsLandWhereWritten
    DevicesKeepApart
