------------------------------- MODULE MCSsc --------------------------------
\* Ssc with all addresses of a vlan in one bucket; they differ for strncmp.  The
\* physical ports are numbered the other way round.
EXTENDS Ssc

CONSTANTS m0

MCBucket == [x \in Mac \X Vlan |-> x[2]]
MCTextOf == [m \in Mac |-> m]
MCPhyOf  == [p \in Port |-> IF p = 0 THEN 0 ELSE 3 - p]
=============================================================================
