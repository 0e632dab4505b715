SPECIFICATION Spec
CONSTANTS
    Devices = {1, 2}
    Paths = {"lib", "old"}
    Names <- MCNames
    MaxEntries = 4
    MaxPaths = 2
    Descriptor <- MCDescriptor
    Configs <- MCConfigs
VIEW StateView
INVARIANTS
    TypeOK
    NoDanglingPlugin
    HeapMatchesTable
PROPERTIES
    FailedLoadRestores
    LoadPublishesWhole
    ActiveDevicesKept
