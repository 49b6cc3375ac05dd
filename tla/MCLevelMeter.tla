---------------------------- MODULE MCLevelMeter ----------------------------
EXTENDS LevelMeter
=============================================================================
