----------------------------- MODULE MCChipSync -----------------------------
\* ChipSync with ports that every level numbers the other way round.
EXTENDS ChipSync

CONSTANTS m0

MCBucket == [x \in Mac \X Vlan |-> x[2]]
MCTextOf == [m \in Mac |-> m]
Turned   == [p \in Port |-> IF p = 0 THEN 0 ELSE Cardinality(Port) - p]
=============================================================================
