SPECIFICATION Spec
CONSTANTS
    c1 = c1
    c2 = c2
    v1 = v1
    Conns = {c1, c2}
    Panels <- MCPanels
    Servers = {v1}
    None = None
    MaxClock = 2
    MaxBoots = 1
    Limits = {2}
    Loads = {0, 1}
    First <- MCFirst
    Growths <- MCGrowths
    Modulus = 8
    Bytes = {0, 1, 2}
    BlockSize = 2
    MaxData = 4
    MachineId <- MCMachineId
    Missing = Missing
    Garbled = Garbled
INVARIANT TypeOK
INVARIANT EntriesHaveStream
INVARIANT OwnKeyServed
INVARIANT OnlyOwnKeyServed
PROPERTY PercentTrue
PROPERTY CpuPercentExact
PROPERTY StreamsEnd
CHECK_DEADLOCK FALSE
