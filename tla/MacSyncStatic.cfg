SPECIFICATION SyncSpec
CONSTANTS
    m0 = m0
    m1 = m1
    ZeroMac = m0
    Mac = {m0}
    Vlan = {0, 1}
    Port = {0, 1, 2}
    Bucket <- MCBucket
    TextOf <- MCTextOf
    PhyOf <- MCPhyOf
    Faults = {}
    Breaks = {}
    Buffer = 2
    MaxConn = 2
    MaxEvents = 0
    MaxCmds = 1
INVARIANTS
    StaticsAreReal
