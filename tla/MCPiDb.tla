------------------------------- MODULE MCPiDb -------------------------------
\* PiDb with the addresses m1 and m2, which differ only behind a zero octet
\* and share a bucket, and the all-zero address.
EXTENDS PiDb

CONSTANTS m0, m1, m2

MCBucket == [x \in Mac \X Vlan |-> x[2]]
MCTextOf == [m \in Mac |-> "up to the zero octet"]
=============================================================================
