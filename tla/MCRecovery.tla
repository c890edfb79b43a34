------------------------------ MODULE MCRecovery ------------------------------
\* Instances of RecoveryController for TLC.
EXTENDS RecoveryController
PrimeAndCleanUp == {[prime |-> TRUE, finish |-> TRUE]}
Plain           == {[prime |-> FALSE, finish |-> FALSE]}
================================================================================
