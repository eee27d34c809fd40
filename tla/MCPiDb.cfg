SPECIFICATION Spec
CONSTANTS
    m0 = m0
    m1 = m1
    m2 = m2
    ZeroMac = m0
    Mac = {m0, m1}
    Vlan = {0, 1}
    Port = {0, 1, 2}
    Bucket <- MCBucket
    TextOf <- MCTextOf
INVARIANTS
    TypeOK
    TablesKeyed
    CountsMatch
    WalkIsLive
PROPERTIES
    TablesAtomic
