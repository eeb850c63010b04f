---------------------------- MODULE MCDBIterator ----------------------------
EXTENDS DBIterator
=============================================================================
