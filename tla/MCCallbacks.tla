---------------------------- MODULE MCCallbacks ----------------------------
EXTENDS Callbacks

\* Terminate and read: enough for a mask that takes one of two rights.
MCRights == {"terminate", "read"}
MCModes == {"search", "handle"}
=============================================================================
