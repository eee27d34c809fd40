SPECIFICATION FairSpec
CONSTANTS
    m0 = m0
    ZeroMac = m0
    Mac = {m0}
    Vlan = {0, 1}
    Port = {0, 1, 2}
    Bucket <- MCBucket
    TextOf <- MCTextOf
    PhyOf <- MCPhyOf
    Faults = {"nomem"}
    Buffer = 1
    MaxConn = 2
    MaxEvents = 2
    MaxCmds = 1
INVARIANTS
    TypeOK
    TablesKeyed
    DynsReported
    WalkIsLive

    
    
