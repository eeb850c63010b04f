---------------------------- MODULE MCDBRecovery ----------------------------
EXTENDS DBRecovery
=============================================================================
