---------------------------- MODULE MC_Sessions ----------------------------
EXTENDS Sessions
=============================================================================
