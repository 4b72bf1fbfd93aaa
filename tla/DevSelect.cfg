SPECIFICATION Spec
CONSTANTS
    Port <- MCPort
    Bus <- MCBus
    Hub <- MCHub
    Name <- MCName
    NodeTail <- MCNodeTail
    Entries <- MCEntries
    Device <- MCDevice
    Supported <- MCSupported
    PlatLink <- MCPlatLink
    PlatNode = 0
    Serial <- MCSerial
    MaxIndex = 3
    MaxNode = 4
    MaxPlug = 3
    MaxRun = 2
    NoDevice = NoDevice
    NoSerial = NoSerial
    NoUsb = NoUsb
    Unlisted = Unlisted
INVARIANTS
    ListsDevices
    NumberSelects
    SerialSelects
    
    RequestReachesSelected
CHECK_DEADLOCK FALSE
