--------------------------- MODULE MCCommandServer ---------------------------
EXTENDS CommandServer

CONSTANTS poll, tilt \* the GUI's poll thread and one of its buttons

MCPoll == {poll}
MCTilt == {tilt}
=============================================================================
