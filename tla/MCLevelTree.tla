---------------------------- MODULE MCLevelTree -----------------------------
EXTENDS LevelTree
=============================================================================
