SPECIFICATION Spec
CONSTANTS
    m0 = m0
    ZeroMac = m0
    Mac = {m0}
    Vlan = {0, 1}
    Port = {0, 1, 2}
    Bucket <- MCBucket
    TextOf <- MCTextOf
    PhyOf <- Turned
    FeOf <- Turned
    HwOf <- Turned
    Age = {0, 300}
    Status = {0, 3}
    MaxCmds = 2
    MaxEvents = 3
INVARIANTS
    TypeOK
    NoPhantoms
    
    
CHECK_DEADLOCK FALSE
