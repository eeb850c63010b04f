---------------------------- MODULE MCLogFormat -----------------------------
EXTENDS LogFormat
=============================================================================
