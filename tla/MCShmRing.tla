----------------------------- MODULE MCShmRing -----------------------------
EXTENDS ShmRing

CONSTANTS driver, view \* a follower and a peeker

MCFollowers == {driver}
MCPeekers == {view}
=============================================================================
