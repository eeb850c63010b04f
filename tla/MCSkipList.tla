----------------------------- MODULE MCSkipList -----------------------------
EXTENDS SkipList
=============================================================================
