SPECIFICATION Spec
CONSTANTS
    MaxFd = 6
    DevNull = null
    Console = jtag_uart
    Devices = {null, jtag_uart}
    FileSystems = {fs}
INVARIANTS NoLeak FlagsHonest StdioWorks
PROPERTIES LockRespected
