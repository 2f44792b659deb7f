----------------------------- MODULE MCPidLock -----------------------------
EXTENDS PidLock, TLC

CONSTANTS p1, p2, p3, root, user

MCProcesses == {p1, p2, p3}
MCUsers == {root, user}
MCSymmetry == Permutations(MCProcesses)

\* Where every property's premise has become false for good, nothing is left to
\* look for.
MCPromised == ~failed /\ (quiet \/ ~overlapped)
=============================================================================
