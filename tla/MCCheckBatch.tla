---------------------------- MODULE MCCheckBatch ------------------------------
EXTENDS CheckHistory

=============================================================================
