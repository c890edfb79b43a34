---------------------------- MODULE MCStatusFeed ----------------------------
\* Instances of StatusFeed for TLC.
EXTENDS StatusFeed
PrintStats == {"state", "layer"}
=============================================================================
