SPECIFICATION FairSyncSpec
CONSTANTS
    m0 = m0
    m1 = m1
    ZeroMac = m0
    Mac = {m0}
    Vlan = {0, 1}
    Port = {0, 1}
    Bucket <- MCBucket
    TextOf <- MCTextOf
    PhyOf <- MCPhyOf
    Faults = {"coalesce"}
    Breaks = {"ssc"}
    Buffer = 2
    MaxConn = 2
    MaxEvents = 2
    MaxCmds = 1

    
PROPERTIES
    Settles
