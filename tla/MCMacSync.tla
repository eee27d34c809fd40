----------------------------- MODULE MCMacSync ------------------------------
\* MacSync with one address or two that strncmp tells apart, and physical
\* ports that are numbered like the user's.
EXTENDS MacSync

CONSTANTS m0, m1

MCBucket == [x \in Mac \X Vlan |-> x[2]]
MCTextOf == [m \in Mac |-> m]
MCPhyOf  == [p \in Port |-> p]
=============================================================================
